-------------------------- MODULE OHDInterface_proofs --------------------------
(***************************************************************************)
(* Proofs about OHDInterface, for any units, cards, addresses, clients and *)
(* settings, and about PersistentSettings, for any number of threads and   *)
(* fields and all bounds.                                                  *)
(***************************************************************************)
EXTENDS OHDInterface, PersistentSettings, TLAPS, WellFoundedInduction

(***************************************************************************)
(* Control requests.                                                       *)
(***************************************************************************)

Asked == ToSet(Requests)
ControlInv ==
  /\ ctl \in [todo : SUBSET Asked, asked : SUBSET Asked, took : SUBSET Asked,
              ok : BOOLEAN, queue : BOOLEAN]
  /\ ctl.ok => ctl.asked = ctl.took \cup ctl.todo

LEMMA ControlStep == ControlInv /\ [InterfaceNext]_interfaceVars => ControlInv'
<1> SUFFICES ASSUME ControlInv, [InterfaceNext]_interfaceVars PROVE ControlInv'
  OBVIOUS
<1>s. ctl' = ctl => ControlInv'
  BY DEF ControlInv
<1>1. CASE Main
  BY <1>1, <1>s DEF Main, create_telemetry, main_discover_an_process_wifi_cards,
     takeover_cards_monitor_mode, monitor_mode, create_link, first_operating_mode, created,
     create_video, destroy_video, destroy_telemetry, destroy_interface, wifiVars
<1>2. CASE Parameter \/ Arming \/ Commands
  BY <1>2, <1>s DEF Parameter, Arming, Commands, apply_parameter, arming_decides, arming_acts, nmcli
<1>3. CASE stop_communication \/ Usb \/ Ethernet \/ (\E c \in Clients : Client(c))
           \/ (DeviceEvents /\ UNCHANGED wifiVars)
  BY <1>3, <1>s DEF stop_communication, Usb, Ethernet, Client, wifiVars
<1>4. CASE set_parameter \/ update_arming_state \/ card_event
  BY <1>4, <1>s DEF set_parameter, update_arming_state, card_event
<1>5. CASE Control
  <2>1. PICK r \in ctl.todo : \E takes \in {r \notin Scheduled \/ ~ctl.queue, FALSE} :
          ctl' = [ctl EXCEPT !.todo = @ \ {r}, !.ok = @ /\ takes,
                             !.took = IF takes THEN @ \cup {r} ELSE @,
                             !.queue = @ \/ (takes /\ r \in Scheduled)]
    BY <1>5 DEF Control, apply_link_control
  <2>2. PICK takes \in {r \notin Scheduled \/ ~ctl.queue, FALSE} :
          ctl' = [ctl EXCEPT !.todo = @ \ {r}, !.ok = @ /\ takes,
                             !.took = IF takes THEN @ \cup {r} ELSE @,
                             !.queue = @ \/ (takes /\ r \in Scheduled)]
    BY <2>1
  <2>3. takes \in BOOLEAN
    OBVIOUS
  <2>4. /\ ctl'.todo = ctl.todo \ {r} /\ ctl'.asked = ctl.asked /\ ctl'.ok = (ctl.ok /\ takes)
        /\ ctl'.took = IF takes THEN ctl.took \cup {r} ELSE ctl.took
        /\ ctl'.queue = (ctl.queue \/ (takes /\ r \in Scheduled))
        /\ ctl' = [todo |-> ctl'.todo, asked |-> ctl'.asked, took |-> ctl'.took, ok |-> ctl'.ok,
                   queue |-> ctl'.queue]
    BY <2>2 DEF ControlInv
  <2>5. /\ ctl'.todo \in SUBSET Asked /\ ctl'.asked \in SUBSET Asked /\ ctl'.took \in SUBSET Asked
        /\ ctl'.ok \in BOOLEAN /\ ctl'.queue \in BOOLEAN
    BY <2>3, <2>4 DEF ControlInv
  <2>6. ctl' \in [todo : SUBSET Asked, asked : SUBSET Asked, took : SUBSET Asked, ok : BOOLEAN, queue : BOOLEAN]
    BY <2>4, <2>5
  <2>7. ctl'.ok => ctl'.asked = ctl'.took \cup ctl'.todo
    BY <2>3, <2>4 DEF ControlInv
  <2> QED  BY <2>6, <2>7 DEF ControlInv
<1>6. CASE link_worker
  BY <1>6 DEF link_worker, ControlInv
<1>7. CASE control_request
  <2>1. PICK a \in SUBSET Asked :
          ctl' = [ctl EXCEPT !.todo = a, !.asked = a, !.took = {}, !.ok = TRUE]
    BY <1>7 DEF control_request, Asked
  <2> QED  BY <2>1 DEF ControlInv
<1>8. CASE UNCHANGED interfaceVars
  BY <1>8, <1>s DEF interfaceVars
<1> QED  BY <1>1, <1>2, <1>3, <1>4, <1>5, <1>6, <1>7, <1>8 DEF InterfaceNext

\* A control request answered with ok had every value taken, for any values and
\* however busy the link's worker is (OHDInterface::apply_link_control).
THEOREM AnsweredRight == InterfaceSpec => []AnsweredAsTaken
<1>1. InterfaceInit => ControlInv
  BY DEF InterfaceInit, ControlInv
<1>2. ControlInv => AnsweredAsTaken
  BY DEF ControlInv, AnsweredAsTaken
<1> QED  BY <1>1, <1>2, ControlStep, PTL DEF InterfaceSpec

(***************************************************************************)
(* Devices. What the manager knows, what video and telemetry are given and *)
(* who has reported an address agree, for each address on its own.         *)
(***************************************************************************)

Fixed == {"usb", "eth", "manual"}
Watchers == Fixed \cup Clients
Kinds == {None, "local", "tcp"}
Before == {"boot", "cards", "monitor", "taken", "link", "mode", "apply", "video"}
Early == {"boot", "cards", "monitor", "taken", "link"}
Ending == {"removed", "stopping", "leave", "off"}
Dests == [video : SUBSET Ips, audio : SUBSET Ips, udp : SUBSET Ips, fwd : BOOLEAN]

DevTyped ==
  /\ unit \in Units
  /\ main \in Before \cup Ending \cup {"run", "dead"}
  /\ dev \in [Ips -> Kinds] /\ owners \in [Ips -> SUBSET Watchers] /\ dest \in Dests
  /\ removed \in BOOLEAN /\ listeners \subseteq {"telemetry", "video"}

ThreadsTyped ==
  /\ usb \in [pc : {None, "find", "route", "watch", "end"}, ip : Ips \cup {None},
              plugged : (Ips \ HostIps) \cup {None}]
  /\ eth \in [pc : {None, "loop", "wait", "route", "watch", "end"}, ip : Ips \cup {None}, up : BOOLEAN]
  /\ tcp \in [Clients -> [accept : {None, "accepted", "reported"}, rx : {None, "reading", "done"},
                          open : BOOLEAN]]
  /\ usb.pc = "watch" => usb.ip \in Ips \ HostIps
  /\ eth.pc = "watch" => eth.ip \in Ips \ HostIps
  /\ main \in Early => usb.pc = None /\ eth.pc = None

\* Addresses of the unit itself get video over TCP only where the unit is the air unit.
Shown(ip) == dev[ip] # None /\ (~unit.air => ~(dev[ip] = "tcp" /\ ip \in HostIps))
VideoFits(ip) ==
  /\ Shown(ip) => ip \in dest.video
  /\ ip \in dest.video => Shown(ip) \/ ip \in OwnByHand
HostFits(ip) == dev[ip] = "local" => ip \notin HostIps \/ ip \in Manual

\* The listeners are registered on the way, and told that the end has come.
Registered ==
  /\ main \in Before => "video" \notin listeners
  /\ main \in {"run"} \cup Ending => "video" \in listeners
  /\ main \in Ending => removed
  /\ main = "boot" => "telemetry" \notin listeners
  /\ main \notin {"boot", "dead"} /\ ~unit.air => "telemetry" \in listeners
  /\ "video" \in listeners /\ ~unit.air => "telemetry" \in listeners
  /\ "video" \notin listeners => dest.video = {}
  /\ "telemetry" \notin listeners => dest.udp = {}
  /\ removed => \A ip \in Ips : dev[ip] = None

\* What an address owes to a thread that alone has reported it.
Sole(ip, who) == owners[ip] \subseteq {who}
ReportedBy(ip, who) == ip \in Attached(who) => who \in owners[ip]
SoleFits(ip, who) ==
  ~removed /\ Sole(ip, who) => dev[ip] = IF ip \in Attached(who) THEN "local" ELSE None
UdpFits(ip, who) ==
  ~removed /\ Sole(ip, who) /\ "telemetry" \in listeners => (ip \in dest.udp <=> dev[ip] = "local")
Served(c) == tcp[c].accept = "reported" /\ tcp[c].rx = "reading"
ClientFits(c) ==
  Served(c) => /\ c \in owners[ClientIp[c]]
               /\ ~removed /\ Sole(ClientIp[c], c) => dev[ClientIp[c]] # None

DevicesInv ==
  /\ DevTyped /\ ThreadsTyped /\ Registered
  /\ "video" \in listeners => \A ip \in Ips : VideoFits(ip)
  /\ \A ip \in Ips : HostFits(ip)
  /\ \A ip \in Ips, who \in Fixed : ReportedBy(ip, who) /\ SoleFits(ip, who) /\ UdpFits(ip, who)
  /\ \A c \in Clients : ClientFits(c)

LEMMA NameFacts ==
  /\ None = "none" /\ None \notin Ips /\ Clients \cap Fixed = {} /\ Manual \subseteq Ips /\ HostIps \subseteq Ips
  /\ \A c \in Clients : ClientIp[c] \in Ips
  /\ \A u \in Units : u.air \in BOOLEAN
  BY DevicesAssumption, InterfaceAssumption DEF Fixed, None

LEMMA DevicesMeant == DevicesInv => DevicesServed
<1> SUFFICES ASSUME DevicesInv PROVE VideoGoesToDevices /\ AttachedDevicesServed
  BY DEF DevicesServed
<1>1. VideoGoesToDevices
  <2>1. ASSUME "video" \in listeners, NEW ip \in Ips \ OwnByHand
        PROVE  ip \in dest.video <=> Shown(ip)
    BY <2>1 DEF DevicesInv, VideoFits
  <2>2. ASSUME main \in {"removed", "stopping", "leave", "off"}
        PROVE  dest.video \subseteq OwnByHand
    <3>1. "video" \in listeners /\ \A ip \in Ips : dev[ip] = None
      BY <2>2 DEF DevicesInv, Registered, Ending
    <3> QED  BY <3>1, <2>1 DEF DevicesInv, DevTyped, Dests, Shown
  <2> QED  BY <2>1, <2>2 DEF VideoGoesToDevices, Shown
<1>2. ASSUME "video" \in listeners, ~removed, NEW who \in Fixed, NEW ip \in Ips, owners[ip] = {who}
      PROVE  /\ ip \in Attached(who) => ip \in dest.video
             /\ ip \in dest.video => ip \in Attached(who)
             /\ ~unit.air => (ip \in dest.udp <=> ip \in Attached(who))
  <2>1. dev[ip] = IF ip \in Attached(who) THEN "local" ELSE None
    BY <1>2 DEF DevicesInv, SoleFits, Sole
  <2>2. ~unit.air => (ip \in dest.udp <=> dev[ip] = "local")
    BY <1>2 DEF DevicesInv, UdpFits, Sole, Registered
  <2>3. ip \in Manual => ip \in Attached(who)
    <3>1. ASSUME ip \in Manual PROVE who = "manual"
      <4>1. ReportedBy(ip, "manual")
        BY DEF DevicesInv, Fixed
      <4>2. Attached("manual") = Manual
        BY DEF Attached
      <4> QED  BY <4>1, <4>2, <3>1, <1>2 DEF ReportedBy
    <3> QED  BY <3>1 DEF Attached
  <2>4. VideoFits(ip)
    BY <1>2 DEF DevicesInv
  <2>5. ip \in dest.video => Shown(ip) \/ ip \in Manual
    BY <2>4 DEF VideoFits, OwnByHand
  <2>6. dev[ip] = "local" => Shown(ip)
    BY NameFacts DEF Shown
  <2> QED  BY <2>1, <2>2, <2>3, <2>4, <2>5, <2>6, NameFacts DEF VideoFits, Shown
<1>3. ASSUME "video" \in listeners, ~removed, NEW c \in Clients, NEW ip \in Ips, owners[ip] = {c},
             ip \in Attached(c)
      PROVE  ip \in dest.video
  <2>1. Served(c) /\ ip = ClientIp[c] /\ ip \notin HostIps
    BY <1>3, NameFacts DEF Attached, Served, Fixed
  <2>2. dev[ip] # None
    BY <1>3, <2>1 DEF DevicesInv, ClientFits, Sole
  <2> QED  BY <1>3, <2>1, <2>2 DEF DevicesInv, VideoFits, Shown
<1> QED  BY <1>1, <1>2, <1>3, NameFacts DEF AttachedDevicesServed, Fixed

\* What the manager and its listeners make of a report, and that they leave the
\* other addresses alone.
Kind(isTcp) == IF isTcp THEN "tcp" ELSE "local"
ReportDone(who, ip, isTcp, connected) ==
  /\ owners' = [owners EXCEPT ![ip] = @ \cup {who}]
  /\ dev' \in [Ips -> Kinds] /\ dest' \in Dests
  /\ \A o \in Ips \ {ip} : /\ dev'[o] = dev[o] /\ (o \in dest'.video <=> o \in dest.video)
                           /\ (o \in dest'.udp <=> o \in dest.udp)
  /\ removed \/ (connected <=> dev[ip] # None) => dev' = dev /\ dest' = dest
  /\ ~removed /\ connected /\ dev[ip] = None =>
       /\ dev'[ip] = Kind(isTcp)
       /\ ip \in dest'.video <=> \/ ip \in dest.video
                                 \/ "video" \in listeners /\ ~(~unit.air /\ isTcp /\ ip \in HostIps)
       /\ ip \in dest'.udp <=> ip \in dest.udp \/ ("telemetry" \in listeners /\ ~isTcp)
  /\ ~removed /\ ~connected /\ dev[ip] # None =>
       /\ dev'[ip] = None
       /\ ip \in dest'.video <=> /\ ip \in dest.video
                                 /\ "video" \notin listeners \/ (~unit.air /\ isTcp /\ ip \in HostIps)
       /\ ip \in dest'.udp <=> ip \in dest.udp /\ ("telemetry" \notin listeners \/ isTcp)

LEMMA Reported ==
  ASSUME DevTyped, NEW who \in Watchers, NEW ip \in Ips, NEW isTcp \in BOOLEAN, NEW connected \in BOOLEAN,
         on_new_external_device(who, ip, isTcp, connected)
  PROVE  ReportDone(who, ip, isTcp, connected)
<1>0. unit.air \in BOOLEAN /\ dest \in Dests /\ dev \in [Ips -> Kinds]
  BY NameFacts DEF DevTyped
<1>1. owners' = [owners EXCEPT ![ip] = @ \cup {who}]
  BY DEF on_new_external_device
<1>2. CASE removed \/ (connected <=> dev[ip] # None)
  <2>1. dev' = dev /\ dest' = dest
    BY <1>2 DEF on_new_external_device
  <2> QED  BY <1>0, <1>1, <1>2, <2>1 DEF ReportDone
<1>3. CASE ~(removed \/ (connected <=> dev[ip] # None))
  <2> DEFINE v == IF "video" \in listeners
                  THEN start_stop_forwarding_external_device(dest, ip, isTcp, connected) ELSE dest
             w == IF "telemetry" \in listeners
                  THEN external_ground_station_ip(v, ip, isTcp, connected) ELSE v
  <2>1. /\ dev' = [dev EXCEPT ![ip] = IF ~connected THEN None ELSE IF isTcp THEN "tcp" ELSE "local"]
        /\ dest' = w
    BY <1>3 DEF on_new_external_device, NotifyAll, Notify
  <2>2. /\ v \in Dests /\ v.udp = dest.udp
        /\ \A o \in Ips \ {ip} : o \in v.video <=> o \in dest.video
        /\ connected => (ip \in v.video <=> \/ ip \in dest.video
                                            \/ "video" \in listeners /\ ~(~unit.air /\ isTcp /\ ip \in HostIps))
        /\ ~connected => (ip \in v.video <=> /\ ip \in dest.video
                                             /\ "video" \notin listeners \/ (~unit.air /\ isTcp /\ ip \in HostIps))
    <3>1. CASE "video" \notin listeners \/ (~unit.air /\ isTcp /\ ip \in HostIps)
      <4>1. v = dest
        BY <3>1 DEF start_stop_forwarding_external_device
      <4> HIDE DEF v
      <4> QED  BY <3>1, <4>1, <1>0
    <3>2. CASE "video" \in listeners /\ ~(~unit.air /\ isTcp /\ ip \in HostIps) /\ connected
      <4>1. v = [dest EXCEPT !.video = @ \cup {ip}, !.audio = @ \cup {ip}, !.fwd = unit.air]
        BY <3>2 DEF start_stop_forwarding_external_device
      <4> HIDE DEF v
      <4> QED  BY <3>2, <4>1, <1>0 DEF Dests
    <3>3. CASE "video" \in listeners /\ ~(~unit.air /\ isTcp /\ ip \in HostIps) /\ ~connected
      <4>1. v = [dest EXCEPT !.video = @ \ {ip}, !.fwd = FALSE,
                             !.audio = IF unit.air THEN @ \ {ip} ELSE @]
        BY <3>3 DEF start_stop_forwarding_external_device
      <4> HIDE DEF v
      <4> QED  BY <3>3, <4>1, <1>0 DEF Dests
    <3> QED  BY <3>1, <3>2, <3>3
  <2> HIDE DEF v
  <2>3. /\ w \in Dests /\ w.video = v.video
        /\ \A o \in Ips \ {ip} : o \in w.udp <=> o \in v.udp
        /\ connected => (ip \in w.udp <=> ip \in v.udp \/ ("telemetry" \in listeners /\ ~isTcp))
        /\ ~connected => (ip \in w.udp <=> ip \in v.udp /\ ("telemetry" \notin listeners \/ isTcp))
    BY <2>2 DEF external_ground_station_ip, Dests
  <2> HIDE DEF w
  <2>4. dev' \in [Ips -> Kinds] /\ \A o \in Ips \ {ip} : dev'[o] = dev[o]
    BY <2>1, <1>0 DEF Kinds
  <2>5. dev'[ip] = IF ~connected THEN None ELSE Kind(isTcp)
    BY <2>1, <1>0 DEF Kind
  <2> QED  BY <1>1, <1>3, <2>1, <2>2, <2>3, <2>4, <2>5 DEF ReportDone
<1> QED  BY <1>2, <1>3

LEMMA ReportShared ==
  ASSUME DevicesInv, NEW who \in Watchers, NEW ip \in Ips, NEW isTcp \in BOOLEAN, NEW connected \in BOOLEAN,
         on_new_external_device(who, ip, isTcp, connected), isTcp \/ ip \notin HostIps,
         UNCHANGED << unit, main, removed, listeners >>
  PROVE  /\ DevTyped' /\ Registered'
         /\ ("video" \in listeners => \A o \in Ips : VideoFits(o))'
         /\ \A o \in Ips : HostFits(o)'
<1>t. DevTyped /\ dest \in Dests /\ unit.air \in BOOLEAN
  BY NameFacts DEF DevicesInv, DevTyped
<1>r. ReportDone(who, ip, isTcp, connected)
  BY <1>t, Reported
<1>1. DevTyped'
  BY <1>t, <1>r DEF DevTyped, ReportDone
<1>2. ASSUME NEW o \in Ips, "video" \in listeners PROVE VideoFits(o)'
  <2>1. VideoFits(o) /\ HostFits(o)
    BY <1>2 DEF DevicesInv
  <2>2. CASE o # ip
    BY <1>t, <2>1, <2>2, <1>r DEF VideoFits, Shown, ReportDone
  <2>3. CASE o = ip /\ (removed \/ (connected <=> dev[ip] # None))
    BY <1>t, <2>1, <2>3, <1>r DEF VideoFits, Shown, ReportDone
  <2>4. CASE o = ip /\ ~removed /\ connected /\ dev[ip] = None
    <3>1. /\ dev'[ip] = Kind(isTcp)
          /\ ip \in dest'.video <=> ip \in dest.video \/ ~(~unit.air /\ isTcp /\ ip \in HostIps)
      BY <1>t, <1>2, <2>4, <1>r DEF ReportDone
    <3> QED  BY <1>t, <2>1, <2>4, <3>1 DEF VideoFits, Shown, Kind, None
  <2>5. CASE o = ip /\ ~removed /\ ~connected /\ dev[ip] # None
    <3>1. /\ dev'[ip] = None
          /\ ip \in dest'.video <=> ip \in dest.video /\ ~unit.air /\ isTcp /\ ip \in HostIps
      BY <1>t, <1>2, <2>5, <1>r DEF ReportDone
    <3>2. dev[ip] # None /\ dev[ip] \in Kinds
      BY <2>5, <1>t DEF DevTyped
    <3> QED  BY <1>t, <2>1, <2>5, <3>1, <3>2 DEF VideoFits, HostFits, Shown, OwnByHand, Kinds, None
  <2> QED  BY <2>2, <2>3, <2>4, <2>5
<1>3. ASSUME NEW o \in Ips PROVE HostFits(o)'
  <2>1. HostFits(o)
    BY DEF DevicesInv
  <2>2. CASE o # ip \/ removed \/ (connected <=> dev[ip] # None)
    BY <1>t, <2>1, <2>2, <1>r DEF HostFits, ReportDone
  <2>3. CASE o = ip /\ ~removed /\ connected /\ dev[ip] = None
    <3>1. dev'[ip] = Kind(isTcp)
      BY <1>t, <2>3, <1>r DEF ReportDone
    <3> QED  BY <2>3, <3>1 DEF HostFits, Kind
  <2>4. CASE o = ip /\ ~removed /\ ~connected /\ dev[ip] # None
    <3>1. dev'[ip] = None
      BY <1>t, <2>4, <1>r DEF ReportDone
    <3> QED  BY <2>4, <3>1 DEF HostFits, None
  <2> QED  BY <2>2, <2>3, <2>4
<1>4. Registered'
  <2>1. Registered
    BY DEF DevicesInv
  <2>2. dest'.video \subseteq Ips /\ dest'.udp \subseteq Ips
    BY <1>1 DEF DevTyped, Dests
  <2>3. ASSUME "video" \notin listeners PROVE dest'.video = {}
    <3>1. dest.video = {}
      BY <2>1, <2>3 DEF Registered
    <3>2. ASSUME NEW o \in Ips PROVE o \notin dest'.video
      BY <1>t, <2>3, <3>1, <1>r DEF ReportDone
    <3> QED  BY <2>2, <3>2
  <2>4. ASSUME "telemetry" \notin listeners PROVE dest'.udp = {}
    <3>1. dest.udp = {}
      BY <2>1, <2>4 DEF Registered
    <3>2. ASSUME NEW o \in Ips PROVE o \notin dest'.udp
      BY <1>t, <2>4, <3>1, <1>r DEF ReportDone
    <3> QED  BY <2>2, <3>2
  <2>5. removed => \A o \in Ips : dev'[o] = None
    BY <1>t, <2>1, <1>r DEF Registered, ReportDone
  <2> QED  BY <2>1, <2>3, <2>4, <2>5 DEF Registered
<1> QED  BY <1>1, <1>2, <1>3, <1>4

\* USB tethering or ethernet reports the address it has found or lost.
LEMMA WatcherReports ==
  ASSUME DevicesInv, NEW who \in {"usb", "eth"}, NEW ip \in Ips \ HostIps, NEW connected \in BOOLEAN,
         on_new_external_device(who, ip, FALSE, connected),
         Attached(who) = IF connected THEN {} ELSE {ip},
         Attached(who)' = IF connected THEN {ip} ELSE {},
         \A o \in Fixed \ {who} : Attached(o)' = Attached(o),
         ThreadsTyped', UNCHANGED << unit, main, removed, listeners, tcp >>
  PROVE  DevicesInv'
<1>t. DevTyped /\ owners \in [Ips -> SUBSET Watchers] /\ who \in Watchers /\ ip \in Ips
  BY DEF DevicesInv, DevTyped, Watchers, Fixed
<1>r. ReportDone(who, ip, FALSE, connected)
  BY <1>t, Reported
<1>1. /\ DevTyped' /\ Registered'
      /\ ("video" \in listeners => \A o \in Ips : VideoFits(o))'
      /\ \A o \in Ips : HostFits(o)'
  BY <1>t, ReportShared
<1>o. /\ owners'[ip] = owners[ip] \cup {who} /\ \A o \in Ips \ {ip} : owners'[o] = owners[o]
      /\ \A o \in Ips \ {ip} : dev'[o] = dev[o] /\ (o \in dest'.udp <=> o \in dest.udp)
  BY <1>t, <1>r DEF ReportDone
<1>2. ASSUME NEW o \in Ips, NEW w \in Fixed
      PROVE  ReportedBy(o, w)' /\ SoleFits(o, w)' /\ UdpFits(o, w)'
  <2>1. ReportedBy(o, w) /\ SoleFits(o, w) /\ UdpFits(o, w)
    BY DEF DevicesInv
  <2>2. CASE o # ip
    <3>1. o \in Attached(w)' <=> o \in Attached(w)
      BY <2>2
    <3> QED  BY <1>o, <2>1, <2>2, <3>1 DEF ReportedBy, SoleFits, UdpFits, Sole
  <2>3. CASE o = ip /\ w # who
    <3>1. ~Sole(o, w)'
      BY <1>o, <2>3 DEF Sole
    <3> QED  BY <1>o, <2>1, <2>3, <3>1 DEF ReportedBy, SoleFits, UdpFits
  <2>4. CASE o = ip /\ w = who
    <3>1. Sole(o, w)' => Sole(o, w)
      BY <1>o, <2>4 DEF Sole
    <3>2. ReportedBy(o, w)'
      BY <1>o, <2>4 DEF ReportedBy
    <3>3. CASE ~removed /\ Sole(o, w)'
      <4>1. dev[ip] = IF connected THEN None ELSE "local"
        BY <2>1, <2>4, <3>1, <3>3 DEF SoleFits
      <4>2. "telemetry" \in listeners => (ip \in dest.udp <=> dev[ip] = "local")
        BY <2>1, <2>4, <3>1, <3>3 DEF UdpFits
      <4>3. CASE connected
        <5>1. /\ dev'[ip] = Kind(FALSE)
              /\ ip \in dest'.udp <=> ip \in dest.udp \/ "telemetry" \in listeners
          BY <1>t, <3>3, <4>1, <4>3, <1>r DEF ReportDone
        <5> QED  BY <2>4, <3>2, <4>3, <5>1 DEF SoleFits, UdpFits, Kind
      <4>4. CASE ~connected
        <5>1. /\ dev'[ip] = None
              /\ ip \in dest'.udp <=> ip \in dest.udp /\ "telemetry" \notin listeners
          BY <1>t, <3>3, <4>1, <4>4, <1>r DEF None, ReportDone
        <5> QED  BY <2>4, <3>2, <4>4, <5>1 DEF SoleFits, UdpFits, None
      <4> QED  BY <4>3, <4>4
    <3> QED  BY <3>2, <3>3 DEF SoleFits, UdpFits
  <2> QED  BY <2>2, <2>3, <2>4
<1>3. ASSUME NEW c \in Clients PROVE ClientFits(c)'
  <2>1. ClientFits(c) /\ ClientIp[c] \in Ips /\ who # c
    BY NameFacts DEF DevicesInv, Fixed
  <2>2. ClientIp[c] = ip => ~Sole(ip, c)'
    BY <1>o, <2>1 DEF Sole
  <2>3. Served(c)' <=> Served(c)
    BY DEF Served
  <2> QED  BY <1>o, <2>1, <2>2, <2>3 DEF ClientFits, Sole
<1> QED  BY <1>1, <1>2, <1>3 DEF DevicesInv

\* The TCP server reports a client that has come or gone.
LEMMA ClientReports ==
  ASSUME DevicesInv, NEW c \in Clients, NEW connected \in BOOLEAN,
         on_new_external_device(c, ClientIp[c], TRUE, connected),
         \A o \in Clients \ {c} : tcp'[o] = tcp[o],
         Served(c)' => connected,
         ThreadsTyped', UNCHANGED << unit, main, removed, listeners, usb, eth >>
  PROVE  DevicesInv'
<1> DEFINE ip == ClientIp[c]
<1>t. DevTyped /\ owners \in [Ips -> SUBSET Watchers] /\ c \in Watchers /\ ip \in Ips /\ c \notin Fixed
  BY NameFacts DEF DevicesInv, DevTyped, Watchers
<1>r. ReportDone(c, ip, TRUE, connected)
  BY <1>t, Reported
<1>1. /\ DevTyped' /\ Registered'
      /\ ("video" \in listeners => \A o \in Ips : VideoFits(o))'
      /\ \A o \in Ips : HostFits(o)'
  BY <1>t, ReportShared
<1>o. /\ owners'[ip] = owners[ip] \cup {c} /\ \A o \in Ips \ {ip} : owners'[o] = owners[o]
      /\ \A o \in Ips \ {ip} : dev'[o] = dev[o] /\ (o \in dest'.udp <=> o \in dest.udp)
  BY <1>t, <1>r DEF ReportDone
<1>2. ASSUME NEW o \in Ips, NEW w \in Fixed
      PROVE  ReportedBy(o, w)' /\ SoleFits(o, w)' /\ UdpFits(o, w)'
  <2>1. ReportedBy(o, w) /\ SoleFits(o, w) /\ UdpFits(o, w)
    BY DEF DevicesInv
  <2>2. o \in Attached(w)' <=> o \in Attached(w)
    BY DEF Attached, Fixed
  <2>3. CASE o # ip
    BY <1>o, <2>1, <2>2, <2>3 DEF ReportedBy, SoleFits, UdpFits, Sole
  <2>4. CASE o = ip
    <3>1. ~Sole(o, w)'
      BY <1>o, <1>t, <2>4 DEF Sole
    <3> QED  BY <1>o, <2>1, <2>2, <2>4, <3>1 DEF ReportedBy, SoleFits, UdpFits
  <2> QED  BY <2>3, <2>4
<1>3. ASSUME NEW o \in Clients PROVE ClientFits(o)'
  <2>1. ClientFits(o) /\ ClientIp[o] \in Ips
    BY NameFacts DEF DevicesInv
  <2>2. CASE o # c
    <3>1. Served(o)' <=> Served(o)
      BY <2>2 DEF Served
    <3>2. ClientIp[o] = ip => ~Sole(ip, o)'
      BY <1>o, <2>2 DEF Sole
    <3> QED  BY <1>o, <2>1, <3>1, <3>2 DEF ClientFits, Sole
  <2>3. CASE o = c /\ connected /\ ~removed
    <3>1. dev'[ip] # None
      <4>1. CASE dev[ip] = None
        <5>1. dev'[ip] = Kind(TRUE)
          BY <1>t, <2>3, <4>1, <1>r DEF ReportDone
        <5> QED  BY <5>1 DEF Kind, None
      <4>2. CASE dev[ip] # None
        BY <1>t, <2>3, <4>2, <1>r DEF ReportDone
      <4> QED  BY <4>1, <4>2
    <3> QED  BY <1>o, <2>3, <3>1 DEF ClientFits
  <2>4. CASE o = c /\ connected /\ removed
    BY <1>o, <2>4 DEF ClientFits
  <2>5. CASE o = c /\ ~connected
    BY <2>5 DEF ClientFits
  <2> QED  BY <2>2, <2>3, <2>4, <2>5
<1> QED  BY <1>1, <1>2, <1>3 DEF DevicesInv
LEMMA DevicesInit == InterfaceInit => DevicesInv
<1> SUFFICES ASSUME InterfaceInit PROVE DevicesInv
  OBVIOUS
<1> USE DEF InterfaceInit, InitDevices, NoDest
<1>1. DevTyped
  BY DEF DevTyped, Before, Dests, Kinds, Watchers, Fixed
<1>2. ThreadsTyped
  BY DEF ThreadsTyped, Early, None
<1>3. Registered
  BY DEF Registered, Before, Ending, None
<1>4. ASSUME NEW ip \in Ips PROVE HostFits(ip)
  BY DEF HostFits, None
<1>5. ASSUME NEW ip \in Ips, NEW who \in Fixed
      PROVE  ReportedBy(ip, who) /\ SoleFits(ip, who) /\ UdpFits(ip, who)
  <2>1. ip \in Attached(who) <=> who = "manual" /\ ip \in Manual
    BY DEF Attached, Fixed, None
  <2>2. ReportedBy(ip, who) /\ UdpFits(ip, who)
    BY <2>1 DEF ReportedBy, UdpFits
  <2>3. Sole(ip, who) => (ip \in Manual => who = "manual")
    BY DEF Sole
  <2> QED  BY <2>1, <2>2, <2>3 DEF SoleFits
<1>6. ASSUME NEW c \in Clients PROVE ClientFits(c)
  BY DEF ClientFits, Served, None
<1> QED  BY <1>1, <1>2, <1>3, <1>4, <1>5, <1>6 DEF DevicesInv

\* A step after which the manager knows what it knew.
LEMMA DevicesSame ==
  ASSUME DevicesInv, UNCHANGED << unit, dev, removed, listeners, dest, owners >>,
         \A who \in Fixed : Attached(who)' = Attached(who),
         \A c \in Clients : Served(c)' => Served(c),
         ThreadsTyped',
         \/ main' = main \/ main' = "dead"
         \/ main \in Before /\ main' \in Before \ {"boot"} /\ (main = "boot" => unit.air)
         \/ main \in Ending /\ main' \in Ending
  PROVE  DevicesInv'
<1>1. DevTyped' /\ Registered'
  BY DEF DevicesInv, DevTyped, Registered, Before, Ending
<1>2. ("video" \in listeners => \A ip \in Ips : VideoFits(ip))' /\ (\A ip \in Ips : HostFits(ip)')
  BY DEF DevicesInv, VideoFits, HostFits, Shown
<1>3. ASSUME NEW ip \in Ips, NEW who \in Fixed
      PROVE  ReportedBy(ip, who)' /\ SoleFits(ip, who)' /\ UdpFits(ip, who)'
  BY DEF DevicesInv, ReportedBy, SoleFits, UdpFits, Sole
<1>4. ASSUME NEW c \in Clients PROVE ClientFits(c)'
  BY DEF DevicesInv, ClientFits, Sole
<1> QED  BY <1>1, <1>2, <1>3, <1>4 DEF DevicesInv

LEMMA UsbStep == DevicesInv /\ Usb => DevicesInv'
<1> SUFFICES ASSUME DevicesInv, Usb PROVE DevicesInv'
  OBVIOUS
<1>t. /\ ThreadsTyped /\ HostIps \subseteq Ips /\ None \notin Ips
  BY NameFacts DEF DevicesInv
<1>1. CASE usb_find
  <2>1. ThreadsTyped'
    BY <1>1, <1>t DEF usb_find, ThreadsTyped, Early, None
  <2>2. \A who \in Fixed : Attached(who)' = Attached(who)
    BY <1>1, <1>t DEF usb_find, ThreadsTyped, Attached, Fixed
  <2>3. \A c \in Clients : Served(c)' => Served(c)
    BY <1>1 DEF usb_find, Served
  <2> QED  BY <1>1, <2>1, <2>2, <2>3, DevicesSame DEF usb_find
<1>2. CASE usb_connect /\ UNCHANGED << dev, dest, owners >> /\ usb' = [usb EXCEPT !.pc = "find"]
  <2>1. ThreadsTyped'
    BY <1>2, <1>t DEF usb_connect, ThreadsTyped, Early, None
  <2>2. \A who \in Fixed : Attached(who)' = Attached(who)
    BY <1>2, <1>t DEF usb_connect, ThreadsTyped, Attached, Fixed
  <2>3. \A c \in Clients : Served(c)' => Served(c)
    BY <1>2 DEF usb_connect, Served
  <2> QED  BY <1>2, <2>1, <2>2, <2>3, DevicesSame DEF usb_connect
<1>3. CASE /\ usb_connect /\ usb.plugged # None
           /\ usb' = [usb EXCEPT !.pc = "watch", !.ip = usb.plugged]
           /\ on_new_external_device("usb", usb.plugged, FALSE, TRUE)
  <2>1. usb.plugged \in Ips \ HostIps
    BY <1>3, <1>t DEF ThreadsTyped
  <2>2. ThreadsTyped'
    BY <1>3, <1>t, <2>1 DEF usb_connect, ThreadsTyped, Early, None
  <2>3. Attached("usb") = {} /\ Attached("usb")' = {usb.plugged}
    BY <1>3, <1>t DEF usb_connect, ThreadsTyped, Attached
  <2>4. \A o \in Fixed \ {"usb"} : Attached(o)' = Attached(o)
    BY <1>3 DEF usb_connect, Attached, Fixed
  <2> QED  BY <1>3, <2>1, <2>2, <2>3, <2>4, WatcherReports DEF usb_connect
<1>4. CASE usb_watch
  <2>1. usb.ip \in Ips \ HostIps
    BY <1>4, <1>t DEF ThreadsTyped, usb_watch
  <2>2. ThreadsTyped'
    BY <1>4, <1>t DEF usb_watch, ThreadsTyped, Early, None
  <2>3. Attached("usb") = {usb.ip} /\ Attached("usb")' = {}
    BY <1>4, <1>t DEF usb_watch, ThreadsTyped, Attached
  <2>4. \A o \in Fixed \ {"usb"} : Attached(o)' = Attached(o)
    BY <1>4 DEF usb_watch, Attached, Fixed
  <2> QED  BY <1>4, <2>1, <2>2, <2>3, <2>4, WatcherReports DEF usb_watch
<1> QED  BY <1>1, <1>2, <1>3, <1>4 DEF Usb, usb_connect

LEMMA EthernetStep == DevicesInv /\ Ethernet => DevicesInv'
<1> SUFFICES ASSUME DevicesInv, Ethernet PROVE DevicesInv'
  OBVIOUS
<1>t. /\ ThreadsTyped /\ HostIps \subseteq Ips /\ None \notin Ips
  BY NameFacts DEF DevicesInv
<1>1. CASE eth_loop \/ eth_wait
  <2>1. ThreadsTyped'
    BY <1>1, <1>t DEF eth_loop, eth_wait, ThreadsTyped, Early, None
  <2>2. \A who \in Fixed : Attached(who)' = Attached(who)
    BY <1>1, <1>t DEF eth_loop, eth_wait, ThreadsTyped, Attached, Fixed
  <2>3. \A c \in Clients : Served(c)' => Served(c)
    BY <1>1 DEF eth_loop, eth_wait, Served
  <2> QED  BY <1>1, <2>1, <2>2, <2>3, DevicesSame DEF eth_loop, eth_wait
<1>2. CASE /\ eth_connect /\ UNCHANGED << dev, dest, owners >>
           /\ eth' = [eth EXCEPT !.pc = IF main = "leave" THEN "end" ELSE "wait"]
  <2>1. ThreadsTyped'
    BY <1>2, <1>t DEF eth_connect, ThreadsTyped, Early, None
  <2>2. \A who \in Fixed : Attached(who)' = Attached(who)
    BY <1>2, <1>t DEF eth_connect, ThreadsTyped, Attached, Fixed
  <2>3. \A c \in Clients : Served(c)' => Served(c)
    BY <1>2 DEF eth_connect, Served
  <2> QED  BY <1>2, <2>1, <2>2, <2>3, DevicesSame DEF eth_connect
<1>3. ASSUME eth_connect, NEW ip \in Ips \ HostIps, eth' = [eth EXCEPT !.pc = "watch", !.ip = ip],
             on_new_external_device("eth", ip, FALSE, TRUE)
      PROVE  DevicesInv'
  <2>2. ThreadsTyped'
    BY <1>3, <1>t DEF eth_connect, ThreadsTyped, Early, None
  <2>3. Attached("eth") = {} /\ Attached("eth")' = {ip}
    BY <1>3, <1>t DEF eth_connect, ThreadsTyped, Attached
  <2>4. \A o \in Fixed \ {"eth"} : Attached(o)' = Attached(o)
    BY <1>3 DEF eth_connect, Attached, Fixed
  <2> QED  BY <1>3, <2>2, <2>3, <2>4, WatcherReports DEF eth_connect
<1>4. CASE eth_watch
  <2>1. eth.ip \in Ips \ HostIps
    BY <1>4, <1>t DEF ThreadsTyped, eth_watch
  <2>2. ThreadsTyped'
    BY <1>4, <1>t DEF eth_watch, ThreadsTyped, Early, None
  <2>3. Attached("eth") = {eth.ip} /\ Attached("eth")' = {}
    BY <1>4, <1>t DEF eth_watch, ThreadsTyped, Attached
  <2>4. \A o \in Fixed \ {"eth"} : Attached(o)' = Attached(o)
    BY <1>4 DEF eth_watch, Attached, Fixed
  <2> QED  BY <1>4, <2>1, <2>2, <2>3, <2>4, WatcherReports DEF eth_watch
<1> QED  BY <1>1, <1>2, <1>3, <1>4 DEF Ethernet, eth_connect

LEMMA ClientStep == ASSUME DevicesInv, NEW c \in Clients, Client(c) PROVE DevicesInv'
<1>t. ThreadsTyped
  BY DEF DevicesInv
<1>1. CASE loop_accept(c)
  <2>1. ThreadsTyped' /\ (\A o \in Clients \ {c} : tcp'[o] = tcp[o])
    BY <1>1, <1>t DEF loop_accept, ThreadsTyped
  <2> QED  BY <1>1, <2>1, ClientReports DEF loop_accept
<1>2. CASE loop_rx(c)
  <2>1. /\ ThreadsTyped' /\ \A o \in Clients \ {c} : tcp'[o] = tcp[o]
        /\ tcp'[c].rx = "done"
    <3>1. /\ tcp' = [tcp EXCEPT ![c].rx = "done"] /\ UNCHANGED << usb, eth >>
          /\ main' = main \/ main' = "dead"
      BY <1>2 DEF loop_rx
    <3>2. /\ tcp' \in [Clients -> [accept : {None, "accepted", "reported"}, rx : {None, "reading", "done"},
                                  open : BOOLEAN]]
          /\ \A o \in Clients \ {c} : tcp'[o] = tcp[o]
          /\ tcp'[c].rx = "done"
      BY <1>t, <3>1, SMTT(30) DEF ThreadsTyped
    <3> QED  BY <1>t, <3>1, <3>2 DEF ThreadsTyped, Early
  <2>2. CASE on_new_external_device(c, ClientIp[c], TRUE, FALSE) /\ UNCHANGED main
    <3>1. ~Served(c)'
      BY <2>1 DEF Served
    <3> QED  BY <1>2, <2>1, <2>2, <3>1, ClientReports DEF loop_rx
  <2>3. CASE main' = "dead" /\ UNCHANGED << dev, dest, owners >>
    <3>1. \A who \in Fixed : Attached(who)' = Attached(who)
      BY <1>2 DEF loop_rx, Attached, Fixed
    <3>2. \A o \in Clients : Served(o)' => Served(o)
      BY <2>1 DEF Served
    <3> QED  BY <1>2, <2>1, <2>3, <3>1, <3>2, DevicesSame DEF loop_rx
  <2> QED  BY <1>2, <2>2, <2>3 DEF loop_rx
<1> QED  BY <1>1, <1>2 DEF Client

LEMMA EventStep == DevicesInv /\ DeviceEvents => DevicesInv'
<1> SUFFICES ASSUME DevicesInv, DeviceEvents PROVE DevicesInv'
  OBVIOUS
<1>t. ThreadsTyped
  BY DEF DevicesInv
<1>1. CASE usb_event
  <2>1. ThreadsTyped'
    BY <1>1, <1>t DEF usb_event, ThreadsTyped
  <2>2. \A who \in Fixed : Attached(who)' = Attached(who)
    BY <1>1, <1>t DEF usb_event, ThreadsTyped, Attached, Fixed
  <2>3. \A c \in Clients : Served(c)' => Served(c)
    BY <1>1 DEF usb_event, Served
  <2> QED  BY <1>1, <2>1, <2>2, <2>3, DevicesSame DEF usb_event
<1>2. CASE eth_event
  <2>1. ThreadsTyped'
    BY <1>2, <1>t DEF eth_event, ThreadsTyped
  <2>2. \A who \in Fixed : Attached(who)' = Attached(who)
    BY <1>2, <1>t DEF eth_event, ThreadsTyped, Attached, Fixed
  <2>3. \A c \in Clients : Served(c)' => Served(c)
    BY <1>2 DEF eth_event, Served
  <2> QED  BY <1>2, <2>1, <2>2, <2>3, DevicesSame DEF eth_event
<1>3. ASSUME NEW c \in Clients, accept(c) \/ client_leaves(c) PROVE DevicesInv'
  <2>1. ThreadsTyped'
    <3>1. tcp' \in [Clients -> [accept : {None, "accepted", "reported"}, rx : {None, "reading", "done"},
                               open : BOOLEAN]]
      <4>1. CASE accept(c)
        BY <4>1, <1>t DEF accept, ThreadsTyped
      <4>2. CASE client_leaves(c)
        BY <4>2, <1>t DEF client_leaves, ThreadsTyped
      <4> QED  BY <1>3, <4>1, <4>2
    <3> QED  BY <1>3, <1>t, <3>1 DEF accept, client_leaves, ThreadsTyped
  <2>2. \A who \in Fixed : Attached(who)' = Attached(who)
    BY <1>3 DEF accept, client_leaves, Attached, Fixed
  <2>3. \A o \in Clients : Served(o)' => Served(o)
    BY <1>3, <1>t DEF accept, client_leaves, Served, ThreadsTyped
  <2> QED  BY <1>3, <2>1, <2>2, <2>3, DevicesSame DEF accept, client_leaves
<1> QED  BY <1>1, <1>2, <1>3 DEF DeviceEvents

\* What a listener is given when it is registered: the devices that are known.
LEMMA ReplayFacts ==
  ASSUME DevTyped, NEW l \in {"telemetry", "video"}
  PROVE  /\ Replay(l, dest) \in Dests
         /\ l = "telemetry" => /\ Replay(l, dest).video = dest.video
                               /\ \A o \in Ips : o \in Replay(l, dest).udp <=>
                                                   o \in dest.udp \/ (dev[o] # None /\ dev[o] # "tcp")
         /\ l = "video" => /\ Replay(l, dest).udp = dest.udp
                           /\ \A o \in Ips : o \in Replay(l, dest).video <=> o \in dest.video \/ Shown(o)
<1> DEFINE told == {ip \in Ips : dev[ip] # None}
           each == [ip \in told |-> Notify(l, dest, ip, dev[ip] = "tcp", TRUE)]
           r == Replay(l, dest)
<1>t. dest \in Dests /\ unit.air \in BOOLEAN
  BY NameFacts DEF DevTyped
<1>1. /\ r.video = dest.video \cup UNION {each[ip].video : ip \in told}
      /\ r.audio = dest.audio \cup UNION {each[ip].audio : ip \in told}
      /\ r.udp = dest.udp \cup UNION {each[ip].udp : ip \in told}
      /\ r.fwd = (dest.fwd \/ \E ip \in told : each[ip].fwd)
      /\ r = [video |-> r.video, audio |-> r.audio, udp |-> r.udp, fwd |-> r.fwd]
  BY DEF Replay
<1>2. ASSUME NEW ip \in told
      PROVE  /\ each[ip] \in Dests
             /\ l = "telemetry" => /\ each[ip].video = dest.video
                                   /\ each[ip].udp = IF dev[ip] = "tcp" THEN dest.udp ELSE dest.udp \cup {ip}
             /\ l = "video" => /\ each[ip].udp = dest.udp
                               /\ each[ip].video = IF Shown(ip) THEN dest.video \cup {ip} ELSE dest.video
  <2>1. each[ip] = IF l = "video" THEN start_stop_forwarding_external_device(dest, ip, dev[ip] = "tcp", TRUE)
                   ELSE external_ground_station_ip(dest, ip, dev[ip] = "tcp", TRUE)
    BY DEF Notify
  <2> HIDE DEF each
  <2>2. CASE l = "video"
    <3>1. each[ip] = IF ~unit.air /\ dev[ip] = "tcp" /\ ip \in HostIps THEN dest
                     ELSE [dest EXCEPT !.video = @ \cup {ip}, !.audio = @ \cup {ip}, !.fwd = unit.air]
      BY <2>1, <2>2 DEF start_stop_forwarding_external_device
    <3>2. Shown(ip) <=> ~(~unit.air /\ dev[ip] = "tcp" /\ ip \in HostIps)
      BY <1>t DEF Shown
    <3>3. CASE Shown(ip)
      <4>1. each[ip] = [dest EXCEPT !.video = @ \cup {ip}, !.audio = @ \cup {ip}, !.fwd = unit.air]
        BY <3>1, <3>2, <3>3
      <4>2. each[ip] \in Dests /\ each[ip].udp = dest.udp /\ each[ip].video = dest.video \cup {ip}
        <5>1. /\ each[ip].video = dest.video \cup {ip} /\ each[ip].audio = dest.audio \cup {ip}
              /\ each[ip].udp = dest.udp /\ each[ip].fwd = unit.air
          BY <4>1, <1>t DEF Dests
        <5>2. each[ip] = [video |-> each[ip].video, audio |-> each[ip].audio, udp |-> each[ip].udp,
                          fwd |-> each[ip].fwd]
          BY <4>1, <1>t DEF Dests
        <5> QED  BY <5>1, <5>2, <1>t DEF Dests
      <4> QED  BY <2>2, <3>3, <4>2
    <3>4. CASE ~Shown(ip)
      BY <2>2, <3>1, <3>2, <3>4, <1>t DEF Dests
    <3> QED  BY <3>3, <3>4
  <2>3. CASE l = "telemetry"
    <3>1. each[ip] = IF dev[ip] = "tcp" THEN dest ELSE [dest EXCEPT !.udp = @ \cup {ip}]
      BY <2>1, <2>3 DEF external_ground_station_ip
    <3> QED  BY <2>3, <3>1, <1>t DEF Dests
  <2> QED  BY <2>2, <2>3
<1> HIDE DEF each, r
<1>3. r \in Dests
  <2>1. r.video \subseteq Ips /\ r.audio \subseteq Ips /\ r.udp \subseteq Ips
    <3>1. \A ip \in told : each[ip].video \subseteq Ips /\ each[ip].audio \subseteq Ips /\ each[ip].udp \subseteq Ips
      BY <1>2 DEF Dests
    <3>2. dest.video \subseteq Ips /\ dest.audio \subseteq Ips /\ dest.udp \subseteq Ips
      BY <1>t DEF Dests
    <3> HIDE DEF told
    <3>3. UNION {each[ip].video : ip \in told} \subseteq Ips
      BY <3>1
    <3>4. UNION {each[ip].audio : ip \in told} \subseteq Ips
      BY <3>1
    <3>5. UNION {each[ip].udp : ip \in told} \subseteq Ips
      BY <3>1
    <3> QED  BY <1>1, <3>2, <3>3, <3>4, <3>5
  <2>2. r.fwd \in BOOLEAN
    BY <1>1
  <2> QED  BY <1>1, <2>1, <2>2 DEF Dests
<1>4. ASSUME l = "telemetry"
      PROVE  /\ r.video = dest.video
             /\ \A o \in Ips : o \in r.udp <=> o \in dest.udp \/ (dev[o] # None /\ dev[o] # "tcp")
  <2>1. r.video = dest.video
    <3>1. \A ip \in told : each[ip].video = dest.video
      BY <1>2, <1>4
    <3> QED  BY <1>1, <3>1
  <2>2. ASSUME NEW o \in Ips
        PROVE  o \in r.udp <=> o \in dest.udp \/ (dev[o] # None /\ dev[o] # "tcp")
    <3>1. \A ip \in told : o \in each[ip].udp <=> o \in dest.udp \/ (o = ip /\ dev[ip] # "tcp")
      BY <1>2, <1>4
    <3>2. o \in r.udp <=> o \in dest.udp \/ \E ip \in told : o \in each[ip].udp
      BY <1>1
    <3> QED  BY <3>1, <3>2
  <2> QED  BY <2>1, <2>2
<1>5. ASSUME l = "video"
      PROVE  /\ r.udp = dest.udp
             /\ \A o \in Ips : o \in r.video <=> o \in dest.video \/ Shown(o)
  <2>1. r.udp = dest.udp
    <3>1. \A ip \in told : each[ip].udp = dest.udp
      BY <1>2, <1>5
    <3> QED  BY <1>1, <3>1
  <2>2. ASSUME NEW o \in Ips
        PROVE  o \in r.video <=> o \in dest.video \/ Shown(o)
    <3>1. \A ip \in told : o \in each[ip].video <=> o \in dest.video \/ (o = ip /\ Shown(ip))
      BY <1>2, <1>5
    <3>2. o \in r.video <=> o \in dest.video \/ \E ip \in told : o \in each[ip].video
      BY <1>1
    <3>3. Shown(o) => o \in told
      BY DEF Shown
    <3> QED  BY <3>1, <3>2, <3>3
  <2> QED  BY <2>1, <2>2
<1> QED  BY <1>3, <1>4, <1>5 DEF r

LEMMA DevicesMainStep == DevicesInv /\ Main => DevicesInv'
<1> SUFFICES ASSUME DevicesInv, Main PROVE DevicesInv'
  OBVIOUS
<1>t. DevTyped /\ ThreadsTyped /\ Registered /\ unit.air \in BOOLEAN
  BY NameFacts DEF DevicesInv, DevTyped
\* Neither the manager nor a thread is concerned.
<1>1. ASSUME UNCHANGED << unit, deviceVars >>,
             \/ main' = main
             \/ main \in Before /\ main' \in Before \ {"boot"} /\ (main = "boot" => unit.air)
             \/ main \in Ending /\ main' \in Ending,
             main' \in Early => main \in Early
      PROVE  DevicesInv'
  <2>1. ThreadsTyped'
    BY <1>1, <1>t DEF ThreadsTyped, deviceVars
  <2>2. \A who \in Fixed : Attached(who)' = Attached(who)
    BY <1>1 DEF Attached, deviceVars
  <2>3. \A c \in Clients : Served(c)' => Served(c)
    BY <1>1 DEF Served, deviceVars
  <2> QED  BY <1>1, <2>1, <2>2, <2>3, DevicesSame DEF deviceVars
<1>2. CASE \/ main_discover_an_process_wifi_cards \/ takeover_cards_monitor_mode \/ monitor_mode
           \/ first_operating_mode \/ created \/ destroy_video \/ destroy_telemetry \/ destroy_interface
  <2>1. CASE main_discover_an_process_wifi_cards
    BY <2>1, <1>1 DEF main_discover_an_process_wifi_cards, discover_emulated, wait_for_card, autodetect, Before, Early
  <2>2. CASE takeover_cards_monitor_mode \/ monitor_mode \/ first_operating_mode \/ created
    BY <2>2, <1>1 DEF takeover_cards_monitor_mode, monitor_mode, first_operating_mode, created, MainStep, Before, Early
  <2>3. CASE destroy_video \/ destroy_telemetry \/ destroy_interface
    BY <2>3, <1>1 DEF destroy_video, destroy_telemetry, destroy_interface, MainStep, Ending, Early
  <2> QED  BY <1>2, <2>1, <2>2, <2>3
<1>3. CASE create_telemetry /\ unit.air
  BY <1>1, <1>3 DEF create_telemetry, MainStep, Before, deviceVars, Early
<1>4. CASE create_telemetry /\ ~unit.air
  <2>1. /\ dest' = Replay("telemetry", dest) /\ listeners' = listeners \cup {"telemetry"}
        /\ main = "boot" /\ main' \in {"cards", "video"}
        /\ UNCHANGED << unit, dev, removed, owners, usb, eth, tcp >>
    BY <1>4 DEF create_telemetry, register_listener, MainStep
  <2>2. /\ dest' \in Dests /\ dest'.video = dest.video
        /\ \A o \in Ips : o \in dest'.udp <=> o \in dest.udp \/ (dev[o] # None /\ dev[o] # "tcp")
    BY <1>t, <2>1, ReplayFacts
  <2>3. "video" \notin listeners /\ "telemetry" \notin listeners /\ dest.udp = {} /\ dest.video = {}
    BY <1>t, <2>1 DEF Registered, Before
  <2>4. DevTyped' /\ Registered'
    BY <1>t, <2>1, <2>2, <2>3 DEF DevTyped, Registered, Before, Ending
  <2>5. ThreadsTyped'
    BY <1>t, <2>1 DEF ThreadsTyped, Early
  <2>6. ASSUME NEW ip \in Ips PROVE HostFits(ip)'
    BY <2>1 DEF HostFits, DevicesInv
  <2>7. ASSUME NEW ip \in Ips, NEW who \in Fixed
        PROVE  ReportedBy(ip, who)' /\ SoleFits(ip, who)' /\ UdpFits(ip, who)'
    <3>1. ReportedBy(ip, who) /\ SoleFits(ip, who)
      BY DEF DevicesInv
    <3>2. Attached(who)' = Attached(who)
      BY <2>1 DEF Attached
    <3>3. dev[ip] # None /\ dev[ip] # "tcp" <=> dev[ip] = "local"
      BY <1>t DEF DevTyped, Kinds, None
    <3> QED  BY <2>1, <2>2, <2>3, <3>1, <3>2, <3>3 DEF ReportedBy, SoleFits, UdpFits, Sole
  <2>8. ASSUME NEW c \in Clients PROVE ClientFits(c)'
    BY <2>1 DEF DevicesInv, ClientFits, Served, Sole
  <2> QED  BY <2>1, <2>3, <2>4, <2>5, <2>6, <2>7, <2>8 DEF DevicesInv
<1>5. CASE create_link
  <2>1. /\ main = "link" /\ main' = "mode"
        /\ usb' = IF unit.air THEN usb ELSE [usb EXCEPT !.pc = "find"]
        /\ eth' = IF unit.air THEN eth ELSE [eth EXCEPT !.pc = "loop"]
        /\ UNCHANGED << unit, dev, removed, listeners, dest, owners, tcp >>
    BY <1>5 DEF create_link, MainStep
  <2>2. ThreadsTyped'
    <3>1. usb' = [usb EXCEPT !.pc = usb'.pc] /\ usb'.pc \in {None, "find"}
      BY <1>t, <2>1 DEF ThreadsTyped, Early
    <3>2. eth' = [eth EXCEPT !.pc = eth'.pc] /\ eth'.pc \in {None, "loop"}
      BY <1>t, <2>1 DEF ThreadsTyped, Early
    <3> QED  BY <1>t, <2>1, <3>1, <3>2 DEF ThreadsTyped, Early, None
  <2>3. \A who \in Fixed : Attached(who)' = Attached(who)
    BY <1>t, <2>1 DEF Attached, ThreadsTyped, Early, Fixed, None
  <2>4. \A c \in Clients : Served(c)' => Served(c)
    BY <2>1 DEF Served
  <2> QED  BY <2>1, <2>2, <2>3, <2>4, DevicesSame DEF Before
<1>6. CASE create_video
  <2>1. /\ dest' = Replay("video", dest) /\ listeners' = listeners \cup {"video"}
        /\ main = "video" /\ main' = "run"
        /\ UNCHANGED << unit, dev, removed, owners, usb, eth, tcp >>
    BY <1>6 DEF create_video, register_listener, MainStep
  <2>2. /\ dest' \in Dests /\ dest'.udp = dest.udp
        /\ \A o \in Ips : o \in dest'.video <=> o \in dest.video \/ Shown(o)
    BY <1>t, <2>1, ReplayFacts
  <2>3. "video" \notin listeners /\ dest.video = {} /\ (~unit.air => "telemetry" \in listeners)
    BY <1>t, <2>1 DEF Registered, Before
  <2>4. DevTyped' /\ Registered'
    BY <1>t, <2>1, <2>2, <2>3 DEF DevTyped, Registered, Before, Ending
  <2>5. ThreadsTyped'
    BY <1>t, <2>1 DEF ThreadsTyped, Early
  <2>6. ASSUME NEW ip \in Ips PROVE HostFits(ip)' /\ VideoFits(ip)'
    BY <2>1, <2>2, <2>3 DEF HostFits, VideoFits, Shown, DevicesInv
  <2>7. ASSUME NEW ip \in Ips, NEW who \in Fixed
        PROVE  ReportedBy(ip, who)' /\ SoleFits(ip, who)' /\ UdpFits(ip, who)'
    <3>1. ReportedBy(ip, who) /\ SoleFits(ip, who) /\ UdpFits(ip, who)
      BY DEF DevicesInv
    <3>2. Attached(who)' = Attached(who)
      BY <2>1 DEF Attached
    <3> QED  BY <2>1, <2>2, <3>1, <3>2 DEF ReportedBy, SoleFits, UdpFits, Sole
  <2>8. ASSUME NEW c \in Clients PROVE ClientFits(c)'
    BY <2>1 DEF DevicesInv, ClientFits, Served, Sole
  <2> QED  BY <2>4, <2>5, <2>6, <2>7, <2>8 DEF DevicesInv
<1> QED  BY <1>2, <1>3, <1>4, <1>5, <1>6 DEF Main

LEMMA DevicesStep == DevicesInv /\ [InterfaceNext]_interfaceVars => DevicesInv'
<1> SUFFICES ASSUME DevicesInv, [InterfaceNext]_interfaceVars PROVE DevicesInv'
  OBVIOUS
<1>t. DevTyped /\ ThreadsTyped /\ Registered
  BY DEF DevicesInv
<1>1. ASSUME UNCHANGED << unit, deviceVars >>, main' \in {main, "dead"} PROVE DevicesInv'
  <2>1. ThreadsTyped'
    BY <1>1, <1>t DEF ThreadsTyped, deviceVars, Early
  <2>2. \A who \in Fixed : Attached(who)' = Attached(who)
    BY <1>1 DEF Attached, deviceVars
  <2>3. \A c \in Clients : Served(c)' => Served(c)
    BY <1>1 DEF Served, deviceVars
  <2> QED  BY <1>1, <2>1, <2>2, <2>3, DevicesSame DEF deviceVars
<1>2. CASE Main
  BY <1>2, DevicesMainStep
<1>3. CASE stop_communication
  <2>1. /\ main = "run" /\ main' = "removed" /\ removed' = TRUE /\ dev' = [ip \in Ips |-> None]
        /\ UNCHANGED << unit, listeners, owners, usb, eth, tcp >>
    BY <1>3 DEF stop_communication, MainStep, remove_all
  <2>2. "video" \in listeners
    BY <1>t, <2>1 DEF Registered
  <2>3. /\ dest' \in Dests
        /\ \A ip \in Ips : ip \in dest'.video => ip \in dest.video /\ ~Shown(ip)
        /\ dest'.udp \subseteq dest.udp
    <3> DEFINE there == {ip \in Ips : dev[ip] # None}
               video == {ip \in there : ~unit.air => ~(dev[ip] = "tcp" /\ ip \in HostIps)}
    <3>1. dest' = [video |-> dest.video \ video,
                   audio |-> IF unit.air THEN dest.audio \ video ELSE dest.audio,
                   udp   |-> dest.udp \ {ip \in there : dev[ip] = "local"},
                   fwd   |-> dest.fwd /\ video = {}]
      BY <1>3, <2>2 DEF stop_communication, remove_all
    <3>2. \A ip \in Ips : Shown(ip) <=> ip \in video
      BY DEF Shown
    <3> HIDE DEF video, there
    <3>3. dest \in Dests
      BY <1>t DEF DevTyped
    <3> QED  BY <3>1, <3>2, <3>3 DEF Dests
  <2>4. DevTyped'
    BY <1>t, <2>1, <2>3 DEF DevTyped, Kinds, Ending
  <2>5. Registered'
    BY <1>t, <2>1, <2>2, <2>3 DEF Registered, Before, Ending
  <2>6. ThreadsTyped'
    BY <1>t, <2>1 DEF ThreadsTyped, Early
  <2>7. ASSUME NEW ip \in Ips PROVE VideoFits(ip)' /\ HostFits(ip)'
    <3>1. VideoFits(ip)
      BY <2>2 DEF DevicesInv
    <3>2. dev'[ip] = None
      BY <2>1
    <3> QED  BY <2>3, <3>1, <3>2 DEF VideoFits, HostFits, Shown, None
  <2>8. ASSUME NEW ip \in Ips, NEW who \in Fixed
        PROVE  ReportedBy(ip, who)' /\ SoleFits(ip, who)' /\ UdpFits(ip, who)'
    <3>1. Attached(who)' = Attached(who)
      BY <2>1 DEF Attached
    <3> QED  BY <2>1, <3>1 DEF DevicesInv, ReportedBy, SoleFits, UdpFits
  <2>9. ASSUME NEW c \in Clients PROVE ClientFits(c)'
    BY <2>1 DEF DevicesInv, ClientFits, Served
  <2> QED  BY <2>4, <2>5, <2>6, <2>7, <2>8, <2>9 DEF DevicesInv
<1>4. CASE Parameter \/ Arming \/ Control \/ Commands
  BY <1>1, <1>4 DEF Parameter, Arming, Control, Commands, apply_parameter, arming_decides, arming_acts,
     apply_link_control, nmcli
<1>5. CASE Usb \/ Ethernet \/ \E c \in Clients : Client(c)
  BY <1>5, UsbStep, EthernetStep, ClientStep
<1>6. CASE link_worker \/ set_parameter \/ update_arming_state \/ control_request \/ card_event
  BY <1>1, <1>6 DEF link_worker, set_parameter, update_arming_state, control_request, card_event
<1>7. CASE DeviceEvents /\ UNCHANGED wifiVars
  BY <1>7, EventStep
<1>8. CASE UNCHANGED interfaceVars
  BY <1>1, <1>8 DEF interfaceVars
<1> QED  BY <1>2, <1>3, <1>4, <1>5, <1>6, <1>7, <1>8 DEF InterfaceNext

\* Video and telemetry go to the devices that are there and to no other, whatever
\* the threads that find devices and the clients of the TCP server do, and to
\* nobody once the program ends (ExternalDeviceManager).
THEOREM DevicesRight == InterfaceSpec => []DevicesServed
<1> QED  BY DevicesInit, DevicesStep, DevicesMeant, PTL DEF InterfaceSpec

(***************************************************************************)
(* What the cards are used for.                                            *)
(***************************************************************************)

CardOrNone == Cards \cup {None}
Wifis == [there : SUBSET Cards, polls : Nat, mon : SUBSET (Cards \cup {Emulated}), spare : CardOrNone,
          own : SUBSET Cards, mode : SUBSET Cards, wait : Seq(Cards)]

\* The cards on their way from NetworkManager to monitor mode and back.
CardsInv ==
  /\ unit \in Units /\ calm \in BOOLEAN
  /\ wifi \in Wifis
  /\ Emulated \in wifi.mon => wifi.mon = {Emulated}
  /\ wifi.own \subseteq wifi.mon
  /\ main \in {"boot", "cards", "monitor"} => wifi.own = {} /\ wifi.mode = {}
  /\ calm /\ main = "taken" => wifi.mon \cap wifi.there \subseteq wifi.own
  /\ calm /\ main # "off" => wifi.mode \subseteq wifi.own
  /\ main = "off" => wifi.own = {}

\* The hotspot, the client and NetworkManager's connections.
Hotspots == [id : Nat, card : CardOrNone, ssid : {"a", "b", None}, enabled : BOOLEAN, started : BOOLEAN]
Nets == [found : SUBSET Cards, hot : Hotspots, last : Nat, hs : [card : CardOrNone, up : BOOLEAN],
         cl : CardOrNone, client : CardOrNone]
NetFits(n) ==
  /\ n \in Nets
  /\ n.hot.id <= n.last /\ (n.hot.id = 0 => n.hot = NoHotspot /\ n.hs = NoProfile)
  /\ n.hot.id # 0 => n.hot.card # None
  /\ n.client = n.cl /\ (n.cl # None => n.hot.id = 0)
  /\ n.hs.card \notin wifi.mon /\ n.cl \notin wifi.mon

Params == {"WIFI_MODE", "WIFI_HOTSPOT_E", "WIFI_HS_IFACE", "WIFI_CL_IFACE", "WIFI_HS_SSID", "WIFI_CL_SSID"}
Unused == {"boot", "cards", "monitor", "taken", "link", "mode", "apply"}

JobsTyped(js, last) ==
  /\ js \in Seq([id : Nat, up : BOOLEAN])
  /\ \A i \in 1 .. Len(js) : js[i].id \in 1 .. last

RolesInv ==
  /\ set \in NetworkingSettings /\ par \in Params \cup {None}
  /\ arm \in [armed : BOOLEAN, cb : {None, "update", "act"}, on : BOOLEAN, id : Nat]
  /\ arm.cb = "act" => arm.id # 0 /\ arm.id <= net.last
  /\ JobsTyped(jobs, net.last)
  /\ NetFits(net)
  /\ par # "WIFI_MODE" => /\ set.mode = "client" => net.hot.id = 0
                          /\ set.mode = "hotspot" => net.cl = None
  /\ main \in Unused => /\ net.hot.id = 0 /\ net.cl = None
                        /\ jobs = << >> /\ par = None /\ arm.cb = None

\* The hotspot while no two changes overlap: a command that is under way tells what
\* the flag says; otherwise NetworkManager does.
JobsFit(n, js) ==
  /\ Len(js) <= 1
  /\ \A i \in 1 .. Len(js) : js[i].id = n.hot.id => js[i].up = n.hot.enabled
  /\ (\A i \in 1 .. Len(js) : js[i].id # n.hot.id) => n.hs.up = n.hot.enabled
  /\ n.hs.up => n.hot.started
  /\ n.hs.card = n.hot.card

HotspotCard == IF set.hsif # None THEN set.hsif ELSE wifi.spare
Present(n) == set.mode = "hotspot" /\ ~unit.noHotspot /\ get_configured_hotspot_card(n) # None
Wants == set.hs = "on" \/ (set.hs = "auto" /\ ~arm.armed)

SettleInv ==
  unit.link = "wifi" /\ calm /\ main \in {"video", "run"} =>
    /\ JobsFit(net, jobs)
    /\ par = None \/ arm.cb = None
    /\ par = "WIFI_HS_IFACE" => net.hot.id = 0
    /\ par # "WIFI_HS_IFACE" /\ net.hot.id # 0 => net.hot.card = HotspotCard
    /\ par \notin {"WIFI_MODE", "WIFI_HS_IFACE"} => (net.hot.id # 0 <=> Present(net))
    /\ par = None /\ arm.cb = None /\ net.hot.id # 0 => net.hot.enabled = Wants
    /\ arm.cb = "act" => arm.on = Wants

LEMMA CardFacts ==
  /\ None = "none" /\ Emulated = "emulated" /\ None \notin Cards /\ Emulated \notin Cards
  /\ MaxPolls \in Nat /\ CardOrder \in Seq(Cards)
  /\ \A u \in Units :
       /\ u.air \in BOOLEAN /\ u.noHotspot \in BOOLEAN /\ u.localnet \in BOOLEAN
       /\ u.cards \subseteq Cards /\ u.names \subseteq Cards /\ u.set \in NetworkingSettings
       /\ u.manual \in Seq(Cards) /\ u.manualSpare \in CardOrNone
  BY InterfaceAssumption DEF None, Emulated, CardOrNone

LEMMA SmallestNumber ==
  ASSUME NEW S \in SUBSET Nat, S # {}
  PROVE  \E m \in S : \A k \in S : m <= k
<1> DEFINE R == {ss \in Nat \X Nat : ss[1] < ss[2]}
<1>1. IsWellFoundedOn(R, Nat)
  BY NatLessThanWellFounded DEF OpToRel
<1>2. \E x \in S : \A y \in S : ~(<< y, x >> \in R)
  <2> HIDE DEF R
  <2> QED BY <1>1, WFMin
<1>3. \A x, y \in S : ~(<< y, x >> \in R) => x <= y
  OBVIOUS
<1> HIDE DEF R
<1> QED BY <1>2, <1>3

\* Of some cards one is the first that sysutils lists.
LEMMA FirstFacts == ASSUME NEW cards \in SUBSET Cards
                    PROVE  First(cards) \in IF cards = {} THEN {None} ELSE cards
<1>1. CASE cards = {}
  BY <1>1 DEF First
<1>2. CASE cards # {}
  <2> DEFINE S == {i \in 1 .. Len(CardOrder) : CardOrder[i] \in cards}
  <2>0. \A c \in cards : \E i \in S : CardOrder[i] = c
    <3>1. DOMAIN CardOrder = 1 .. Len(CardOrder) /\ Cards = {CardOrder[i] : i \in DOMAIN CardOrder}
      BY CardFacts DEF Cards, ToSet
    <3> QED  BY <3>1
  <2>1. S # {} /\ S \subseteq Nat
    BY <1>2, <2>0, CardFacts
  <2> HIDE DEF S
  <2>2. PICK m \in S : \A k \in S : m <= k
    BY <2>1, SmallestNumber
  <2>3. CardOrder[m] \in cards /\ m \in 1 .. Len(CardOrder)
    BY <2>2 DEF S
  <2>4. ASSUME NEW d \in cards \ {CardOrder[m]} PROVE Listed(CardOrder[m], d)
    <3>1. PICK k \in S : CardOrder[k] = d
      BY <2>0
    <3>2. m <= k /\ m # k /\ k \in 1 .. Len(CardOrder) /\ m \in Nat /\ k \in Nat
      BY <2>1, <2>2, <2>4, <3>1 DEF S
    <3>3. m < k
      BY <3>2
    <3> QED  BY <2>3, <3>1, <3>2, <3>3 DEF Listed
  <2>5. \E c \in cards : \A d \in cards \ {c} : Listed(c, d)
    BY <2>3, <2>4
  <2> QED  BY <1>2, <2>5 DEF First
<1> QED  BY <1>1, <1>2

\* What is found for monitor mode: cards, or an emulated one.
Found(r) ==
  /\ r.mon \subseteq Cards \/ r.mon = {Emulated}
  /\ r.spare \in CardOrNone

LEMMA FoundFacts ==
  ASSUME CardsInv
  PROVE  /\ \A a \in BOOLEAN : discover_connected_wifi_cards(a) \subseteq Cards
         /\ \A cards \in SUBSET Cards : Found(process_and_evaluate_cards(cards))
         /\ \A cards \in SUBSET Cards : First(cards) \in CardOrNone
         /\ Found(find_cards_from_manual_file)
<1>1. \A cards \in SUBSET Cards : First(cards) \in CardOrNone
  BY FirstFacts DEF CardOrNone
<1>2. ASSUME NEW cards \in SUBSET Cards PROVE Found(process_and_evaluate_cards(cards))
  <2> DEFINE wb == {c \in cards : supports_wifibroadcast(c)}
  <2>1. process_and_evaluate_cards(cards)
          = IF wb = {} THEN [mon |-> {Emulated}, spare |-> First(cards)]
            ELSE [mon |-> IF unit.air THEN {First(wb)} ELSE wb, spare |-> First(cards \ wb)]
    BY DEF process_and_evaluate_cards
  <2>2. wb \subseteq Cards /\ cards \ wb \subseteq Cards
    OBVIOUS
  <2> HIDE DEF wb
  <2>3. wb # {} => First(wb) \in Cards
    BY <2>2, FirstFacts
  <2> QED  BY <1>1, <2>1, <2>2, <2>3 DEF Found
<1>3. Found(find_cards_from_manual_file)
  <2>1. unit.manual \in Seq(Cards) /\ unit.manualSpare \in CardOrNone
    BY CardFacts DEF CardsInv
  <2>2. ToSet(unit.manual) \subseteq Cards
    BY <2>1 DEF ToSet
  <2>3. Len(unit.manual) > 1 => unit.manual[1] \in Cards
    BY <2>1
  <2> QED  BY <2>1, <2>2, <2>3 DEF find_cards_from_manual_file, Found
<1>4. \A a \in BOOLEAN : discover_connected_wifi_cards(a) \subseteq Cards
  BY DEF discover_connected_wifi_cards, CardsInv, Wifis
<1> QED  BY <1>1, <1>2, <1>3, <1>4

LEMMA DiscoverStep ==
  ASSUME CardsInv, main_discover_an_process_wifi_cards
  PROVE  CardsInv' /\ main' \in {"cards", "monitor"}
<1> USE DEF CardsInv, Wifis
<1>0. main = "cards" /\ UNCHANGED << unit, calm >>
  BY DEF main_discover_an_process_wifi_cards
<1>1. ASSUME NEW r, Found(r), Discovered(r), main' = "monitor" PROVE CardsInv'
  BY <1>0, <1>1, CardFacts DEF Discovered, Found
<1>2. CASE discover_emulated
  <2>1. PICK f \in {discover_connected_wifi_cards(a) : a \in BOOLEAN} :
          Discovered([mon |-> {Emulated}, spare |-> IF unit.hotspotOnly THEN First(f) ELSE None])
    BY <1>2 DEF discover_emulated
  <2>2. First(f) \in CardOrNone
    BY FoundFacts
  <2>3. Found([mon |-> {Emulated}, spare |-> IF unit.hotspotOnly THEN First(f) ELSE None])
    BY <2>2 DEF Found, CardOrNone
  <2> QED  BY <1>1, <1>2, <2>1, <2>3 DEF discover_emulated
<1>3. CASE wait_for_card
  <2>1. CASE wifi.wait = << >>
    <3>1. Found(find_cards_from_manual_file)
      BY FoundFacts
    <3> QED  BY <1>1, <1>3, <2>1, <3>1 DEF wait_for_card
  <2>2. CASE wifi.wait # << >>
    BY <1>0, <1>3, <2>2 DEF wait_for_card
  <2> QED  BY <2>1, <2>2
<1>4. CASE autodetect
  <2>1. PICK f \in {discover_connected_wifi_cards(a) : a \in BOOLEAN} :
          \/ Discovered(process_and_evaluate_cards(f)) /\ main' = "monitor"
          \/ wifi' = [wifi EXCEPT !.polls = @ + 1] /\ UNCHANGED main
    BY <1>4 DEF autodetect
  <2>2. Found(process_and_evaluate_cards(f))
    BY FoundFacts
  <2> QED  BY <1>0, <1>1, <2>1, <2>2
<1> QED  BY <1>0, <1>2, <1>3, <1>4
         DEF main_discover_an_process_wifi_cards, discover_emulated, wait_for_card, autodetect

LEMMA CardsInit == InterfaceInit => CardsInv
<1> SUFFICES ASSUME InterfaceInit PROVE CardsInv
  OBVIOUS
<1>1. unit.manual \in Seq(Cards) /\ unit.manualSpare \in CardOrNone /\ unit.cards \subseteq Cards
  BY CardFacts DEF InterfaceInit
<1>2. wifi.wait \in Seq(Cards)
  BY <1>1 DEF InterfaceInit, CardOrNone
<1> QED  BY <1>1, <1>2 DEF InterfaceInit, CardsInv, Wifis, CardOrNone

\* The cards that are taken over are NetworkManager's before, and given back.
LEMMA CardsStep == CardsInv /\ [InterfaceNext]_interfaceVars => CardsInv'
<1> SUFFICES ASSUME CardsInv, [InterfaceNext]_interfaceVars PROVE CardsInv'
  OBVIOUS
<1>t. CardsInv /\ None \notin Cards /\ Emulated \notin Cards
  BY CardFacts
<1> USE DEF CardsInv
\* Steps that have nothing to do with the cards for monitor mode.
<1>1. ASSUME UNCHANGED << unit, wifi >>, calm' \in {calm, FALSE},
             \/ main' = main \/ (main # "off" /\ main' = "dead")
             \/ main \notin {"boot", "cards", "monitor", "off"} /\ main' \notin {"boot", "cards", "monitor", "taken", "off"}
             \/ main = "boot" /\ main' \in {"cards", "video"}
      PROVE  CardsInv'
  <2>1. unit' = unit /\ wifi' = wifi /\ calm' \in BOOLEAN /\ (calm' => calm)
    <3>1. calm \in BOOLEAN
      OBVIOUS
    <3> HIDE DEF CardsInv
    <3>2. CASE calm' = calm
      BY <1>1, <3>1, <3>2
    <3>3. CASE calm' = FALSE
      BY <1>1, <3>3
    <3> QED  BY <1>1, <3>2, <3>3
  <2>2. CASE main' = main
    BY <2>1, <2>2
  <2>3. CASE main # "off" /\ main' = "dead"
    BY <2>1, <2>3
  <2>4. CASE main \notin {"boot", "cards", "monitor", "off"} /\ main' \notin {"boot", "cards", "monitor", "taken", "off"}
    BY <2>1, <2>4
  <2>5. CASE main = "boot" /\ main' \in {"cards", "video"}
    BY <2>1, <2>5
  <2> QED  BY <1>1, <2>2, <2>3, <2>4, <2>5
<1>2. CASE main_discover_an_process_wifi_cards
  BY <1>2, DiscoverStep
<1>3. CASE takeover_cards_monitor_mode
  <2> DEFINE Q == UpToQualcomm
  <2>1. /\ main = "monitor" /\ main' = IF Qualcomm = {} /\ Emulated \notin wifi.mon THEN "taken" ELSE "link"
        /\ wifi' = [wifi EXCEPT !.own = @ \cup (Q \cap wifi.there)] /\ UNCHANGED << unit, calm >>
    BY <1>3 DEF takeover_cards_monitor_mode, MainStep, nmcli_set_device_managed_status
  <2>2. Q \subseteq wifi.mon \ {Emulated} /\ (Qualcomm = {} => Q = wifi.mon \ {Emulated})
    BY DEF UpToQualcomm
  <2> HIDE DEF Q
  <2>3. /\ wifi'.mon = wifi.mon /\ wifi'.there = wifi.there /\ wifi'.mode = wifi.mode
        /\ wifi'.own = wifi.own \cup (Q \cap wifi.there) /\ wifi' \in Wifis
    BY <2>1, <2>2 DEF Wifis
  <2> QED  BY <2>1, <2>2, <2>3
<1>4. CASE monitor_mode
  <2>1. /\ main = "taken" /\ main' = "link"
        /\ wifi' = [wifi EXCEPT !.mode = @ \cup (wifi.mon \cap wifi.there)] /\ UNCHANGED << unit, calm >>
    BY <1>4 DEF monitor_mode, MainStep, iw_enable_monitor_mode
  <2>2. /\ wifi'.mon = wifi.mon /\ wifi'.there = wifi.there /\ wifi'.own = wifi.own
        /\ wifi'.mode = wifi.mode \cup (wifi.mon \cap wifi.there) /\ wifi' \in Wifis
    BY <2>1 DEF Wifis
  <2> QED  BY <2>1, <2>2
<1>5. CASE destroy_interface
  <2>1. /\ main = "leave" /\ main' = "off" /\ UNCHANGED << unit, calm >>
        /\ wifi' = IF Emulated \in wifi.mon THEN wifi ELSE [wifi EXCEPT !.own = @ \ wifi.mon]
    BY <1>5 DEF destroy_interface, MainStep, giveback_cards_monitor_mode, nmcli_set_device_managed_status
  <2>2. CASE Emulated \in wifi.mon
    BY <2>1, <2>2, <1>t DEF Wifis
  <2>3. CASE Emulated \notin wifi.mon
    <3>1. /\ wifi'.mon = wifi.mon /\ wifi'.own = {} /\ wifi' \in Wifis
      BY <2>1, <2>3 DEF Wifis
    <3> QED  BY <2>1, <2>3, <3>1
  <2> QED  BY <2>2, <2>3
<1>6. CASE card_event
  <2>1. unit.cards \cup unit.names \subseteq Cards
    BY CardFacts
  <2>2. PICK c \in Cards :
          wifi' = [wifi EXCEPT !.there = IF c \in @ THEN @ \ {c} ELSE @ \cup {c},
                               !.own = @ \ {c}, !.mode = @ \ {c}]
    BY <1>6, <2>1 DEF card_event
  <2>3. main \notin {"boot", "off"} /\ main' = main /\ unit' = unit /\ calm' = (calm /\ main # "taken")
    BY <1>6 DEF card_event
  <2>4. /\ wifi'.mon = wifi.mon /\ wifi'.own = wifi.own \ {c} /\ wifi'.mode = wifi.mode \ {c}
        /\ wifi' \in Wifis
    BY <2>2 DEF Wifis
  <2> QED  BY <2>3, <2>4
<1>7. CASE \/ create_telemetry \/ create_link \/ first_operating_mode \/ create_video
           \/ destroy_video \/ destroy_telemetry \/ stop_communication
  BY <1>1, <1>7 DEF create_telemetry, create_link, first_operating_mode, create_video, destroy_video,
     destroy_telemetry, stop_communication, MainStep, wifiVars
<1>12. CASE created
  <2>1. calm' \in {calm, FALSE}
    BY <1>12 DEF created, apply_wifi_operating_mode, set_enabled_async
  <2> QED  BY <1>1, <1>12, <2>1 DEF created, MainStep
<1>8. CASE Parameter \/ Arming \/ Control \/ Commands
  <2>1. calm' \in {calm, FALSE}
    BY <1>8 DEF Parameter, Arming, Control, Commands, apply_parameter, apply_wifi_operating_mode,
       arming_decides, arming_acts, apply_link_control, nmcli, set_enabled_async
  <2> QED  BY <1>1, <1>8, <2>1 DEF Parameter, Arming, Control, Commands, apply_parameter, arming_decides,
           arming_acts, apply_link_control, nmcli, Alive
<1>9. CASE Usb \/ Ethernet \/ (\E c \in Clients : Client(c)) \/ (DeviceEvents /\ UNCHANGED wifiVars)
  BY <1>1, <1>9 DEF Usb, usb_find, usb_connect, usb_watch, Ethernet, eth_loop, eth_wait, eth_connect, eth_watch,
     Client, loop_accept, loop_rx, DeviceEvents, usb_event, eth_event, accept, client_leaves, wifiVars, Alive
<1>10. CASE link_worker \/ set_parameter \/ update_arming_state \/ control_request
  BY <1>1, <1>10 DEF link_worker, set_parameter, update_arming_state, control_request
<1>11. CASE UNCHANGED interfaceVars
  BY <1>1, <1>11 DEF interfaceVars
<1> QED  BY <1>2, <1>3, <1>4, <1>5, <1>6, <1>7, <1>8, <1>9, <1>10, <1>11, <1>12 DEF InterfaceNext, Main

---------------------------------------------------------------------------
\* What each operation makes of the hotspot and the client.

LEMMA NetFacts ==
  ASSUME NEW n, NetFits(n)
  PROVE  /\ n \in Nets /\ n.hot \in Hotspots /\ n.hs \in [card : CardOrNone, up : BOOLEAN]
         /\ n.hot = NoHotspot <=> n.hot.id = 0
  BY DEF NetFits, Nets, Hotspots, NoHotspot

LEMMA Stopped ==
  ASSUME NEW n, NetFits(n), CardsInv
  PROVE  LET m == stop_wifi_client(n) IN
         /\ NetFits(m) /\ m.cl = None
         /\ m.hot = n.hot /\ m.hs = n.hs /\ m.last = n.last /\ m.found = n.found
<1> DEFINE m == stop_wifi_client(n)
<1>0. n \in Nets /\ None \in CardOrNone /\ None \notin wifi.mon
  BY CardFacts DEF NetFits, CardOrNone, CardsInv, Wifis
<1>1. CASE n.client = None
  BY <1>1 DEF NetFits, stop_wifi_client
<1>2. CASE n.client # None
  <2>1. m = [n EXCEPT !.client = None, !.cl = None]
    BY <1>2 DEF stop_wifi_client
  <2> HIDE DEF m
  <2>2. /\ m.cl = None /\ m.client = None /\ m.hot = n.hot /\ m.hs = n.hs
        /\ m.last = n.last /\ m.found = n.found /\ m \in Nets
    BY <1>0, <2>1 DEF Nets
  <2>3. NetFits(m)
    BY <1>0, <2>2 DEF NetFits
  <2> QED  BY <2>2, <2>3 DEF m
<1> QED  BY <1>1, <1>2

LEMMA Destroyed ==
  ASSUME NEW n, NetFits(n), CardsInv
  PROVE  LET m == destroy_hotspot(n) IN
         /\ NetFits(m) /\ m.hot = NoHotspot /\ m.hs = NoProfile
         /\ m.cl = n.cl /\ m.last = n.last /\ m.found = n.found
<1> DEFINE m == destroy_hotspot(n)
<1>0. n \in Nets /\ None \in CardOrNone /\ None \notin wifi.mon
  BY CardFacts DEF NetFits, CardOrNone, CardsInv, Wifis
<1>1. CASE n.hot = NoHotspot
  BY <1>1 DEF NetFits, destroy_hotspot, NoHotspot
<1>2. CASE n.hot # NoHotspot
  <2>1. m = [n EXCEPT !.hot = NoHotspot, !.hs = NoProfile]
    BY <1>2 DEF destroy_hotspot
  <2> HIDE DEF m
  <2>2. NoHotspot \in Hotspots /\ NoProfile \in [card : CardOrNone, up : BOOLEAN]
    BY <1>0 DEF NoHotspot, Hotspots, NoProfile
  <2>3. /\ m.cl = n.cl /\ m.client = n.client /\ m.hot = NoHotspot /\ m.hs = NoProfile
        /\ m.last = n.last /\ m.found = n.found /\ m \in Nets
    BY <1>0, <2>1, <2>2 DEF Nets
  <2>4. NetFits(m)
    BY <1>0, <2>3 DEF NetFits, NoHotspot, NoProfile, Nets
  <2> QED  BY <2>3, <2>4 DEF m
<1> QED  BY <1>1, <1>2

LEMMA ConfiguredFacts ==
  ASSUME NEW n, CardsInv, set \in NetworkingSettings
  PROVE  /\ LET c == get_configured_hotspot_card(n) IN
               c # None => c = HotspotCard /\ c \in Cards /\ c \notin wifi.mon
         /\ LET c == get_configured_client_card(n) IN
               c # None => c \in Cards /\ c \notin wifi.mon
<1>1. set.hsif \in CardOrNone /\ set.clif \in CardOrNone /\ wifi.spare \in CardOrNone
  BY DEF NetworkingSettings, CardOrNone, CardsInv, Wifis
<1>2. ASSUME NEW c \in CardOrNone, Usable(n, c) # None
      PROVE  Usable(n, c) = c /\ c \in Cards /\ c \notin wifi.mon
  BY <1>2 DEF Usable, CardOrNone, is_monitor_mode_card
<1> QED  BY <1>1, <1>2 DEF get_configured_hotspot_card, get_configured_client_card, HotspotCard

LEMMA Recreated ==
  ASSUME NEW n, NetFits(n), n.cl = None, CardsInv, set \in NetworkingSettings
  PROVE  LET m == recreate_wifi_hotspot_if_needed(n) IN
         /\ NetFits(m) /\ m.cl = None /\ m.last >= n.last /\ m.last \in Nat /\ m.found = n.found
         /\ m.hot.id # 0 <=> ~unit.noHotspot /\ get_configured_hotspot_card(n) # None
         /\ m.hot.id # 0 => m.hot.card = HotspotCard
         /\ \A js : /\ JobsTyped(js, n.last) /\ JobsFit(n, js)
                    /\ n.hot.id # 0 => n.hot.card = HotspotCard
                    => JobsFit(m, js)
<1> DEFINE m == recreate_wifi_hotspot_if_needed(n)
           c == get_configured_hotspot_card(n)
           hot == [id |-> n.last + 1, card |-> c, ssid |-> set.ssid, enabled |-> FALSE, started |-> FALSE]
<1>0. n \in Nets /\ n.last \in Nat /\ None \in CardOrNone /\ None \notin wifi.mon /\ (n.hot = NoHotspot <=> n.hot.id = 0)
  BY CardFacts, NetFacts DEF NetFits, CardOrNone, CardsInv, Wifis, Nets
<1>c. c # None => c = HotspotCard /\ c \in Cards /\ c \notin wifi.mon
  BY ConfiguredFacts
<1>1. CASE unit.noHotspot \/ c = None
  <2>1. m = destroy_hotspot(n)
    BY <1>1 DEF recreate_wifi_hotspot_if_needed
  <2> HIDE DEF m
  <2>2. NetFits(m) /\ m.hot = NoHotspot /\ m.hs = NoProfile /\ m.cl = n.cl /\ m.last = n.last /\ m.found = n.found
    BY <2>1, Destroyed
  <2>3. ASSUME NEW js, JobsTyped(js, n.last), JobsFit(n, js) PROVE JobsFit(m, js)
    <3>1. \A i \in 1 .. Len(js) : js[i].id # 0
      BY <1>0, <2>3 DEF JobsTyped
    <3>2. m.hot.id = 0 /\ m.hot.enabled = FALSE /\ m.hs.up = FALSE /\ m.hs.card = m.hot.card
      BY <2>2 DEF NoHotspot, NoProfile
    <3> QED  BY <2>3, <3>1, <3>2 DEF JobsFit
  <2> QED  BY <1>0, <1>1, <2>2, <2>3 DEF NoHotspot, m
<1>2. CASE ~(unit.noHotspot \/ c = None) /\ n.hot.ssid = set.ssid /\ n.hot.card = c
  <2>1. m = n
    BY <1>2 DEF recreate_wifi_hotspot_if_needed
  <2>2. n.hot.id # 0
    BY <1>0, <1>2 DEF NoHotspot
  <2> HIDE DEF m, c
  <2> QED  BY <1>0, <1>c, <1>2, <2>1, <2>2 DEF m, c
<1>3. CASE ~(unit.noHotspot \/ c = None) /\ ~(n.hot.ssid = set.ssid /\ n.hot.card = c)
  <2> DEFINE hs == IF n.hot # NoHotspot /\ n.hot.ssid = set.ssid THEN NoProfile ELSE [card |-> c, up |-> FALSE]
  <2>1. m = [n EXCEPT !.hot = hot, !.last = @ + 1, !.hs = hs]
    BY <1>3 DEF recreate_wifi_hotspot_if_needed
  <2>2. /\ hot \in Hotspots /\ hot.id = n.last + 1 /\ hot.card = c /\ hot.enabled = FALSE
    BY <1>0, <1>c, <1>3 DEF Hotspots, CardOrNone, NetworkingSettings
  <2>3. hs \in {NoProfile, [card |-> c, up |-> FALSE]} /\ hs \in [card : CardOrNone, up : BOOLEAN] /\ hs.card \notin wifi.mon
    BY <1>0, <1>c, <1>3 DEF CardOrNone, NoProfile
  <2>4. (n.hot.id # 0 => n.hot.card = HotspotCard) => hs = [card |-> c, up |-> FALSE]
    BY <1>0, <1>c, <1>3
  <2> HIDE DEF m, c, hot, hs
  <2>5. /\ m.hot = hot /\ m.hs = hs /\ m.last = n.last + 1 /\ m.cl = n.cl /\ m.client = n.client
        /\ m.found = n.found /\ m \in Nets
    <3>1. /\ m.hot = hot /\ m.hs = hs /\ m.last = n.last + 1 /\ m.cl = n.cl /\ m.client = n.client
          /\ m.found = n.found
          /\ m = [found |-> m.found, hot |-> m.hot, last |-> m.last, hs |-> m.hs, cl |-> m.cl, client |-> m.client]
      BY <1>0, <2>1 DEF Nets
    <3>2. /\ m.found \in SUBSET Cards /\ m.cl \in CardOrNone /\ m.client \in CardOrNone
          /\ m.last \in Nat
      BY <1>0, <3>1 DEF Nets
    <3> QED  BY <2>2, <2>3, <3>1, <3>2 DEF Nets
  <2>6. NetFits(m)
    BY <1>0, <1>3, <2>2, <2>3, <2>5 DEF NetFits
  <2>7. ASSUME NEW js, JobsTyped(js, n.last), JobsFit(n, js), n.hot.id # 0 => n.hot.card = HotspotCard
        PROVE  JobsFit(m, js)
    <3>1. \A i \in 1 .. Len(js) : js[i].id # hot.id
      BY <1>0, <2>2, <2>7 DEF JobsTyped
    <3>2. m.hs.up = FALSE /\ m.hs.card = m.hot.card /\ m.hot.enabled = FALSE /\ m.hot.id = hot.id
      BY <2>2, <2>4, <2>5, <2>7
    <3> QED  BY <2>7, <3>1, <3>2 DEF JobsFit
  <2> QED  BY <1>0, <1>c, <1>3, <2>2, <2>5, <2>6, <2>7 DEF m, c
<1> QED  BY <1>1, <1>2, <1>3

LEMMA Started ==
  ASSUME NEW n, NetFits(n), n.cl = None, n.hot.id = 0, CardsInv, set \in NetworkingSettings, NEW connects \in BOOLEAN
  PROVE  LET m == start_wifi_client(n, connects) IN
         NetFits(m) /\ m.hot = n.hot /\ m.hs = n.hs /\ m.last = n.last /\ m.found = n.found
<1> DEFINE m == start_wifi_client(n, connects)
           c == get_configured_client_card(n)
<1>0. n \in Nets /\ None \in CardOrNone /\ None \notin wifi.mon /\ n.hs = NoProfile
  BY CardFacts DEF NetFits, CardOrNone, CardsInv, Wifis
<1>c. c # None => c \in Cards /\ c \notin wifi.mon
  BY ConfiguredFacts
<1>1. CASE c # None /\ set.cred /\ connects
  <2>1. m = [n EXCEPT !.client = c, !.cl = c, !.hs.up = @ /\ n.hs.card # c]
    BY <1>1 DEF start_wifi_client
  <2> HIDE DEF m, c
  <2>2. /\ m.hot = n.hot /\ m.last = n.last /\ m.found = n.found /\ m.cl = c /\ m.client = c
        /\ m.hs = [n.hs EXCEPT !.up = @ /\ n.hs.card # c]
        /\ m = [found |-> m.found, hot |-> m.hot, last |-> m.last, hs |-> m.hs, cl |-> m.cl, client |-> m.client]
    BY <1>0, <2>1 DEF Nets
  <2>3. m.hs = NoProfile
    <3>1. (n.hs.up /\ n.hs.card # c) = FALSE
      BY <1>0 DEF NoProfile
    <3>2. m.hs = [NoProfile EXCEPT !.up = FALSE]
      BY <1>0, <2>2, <3>1
    <3> QED  BY <3>2 DEF NoProfile
  <2> QED  BY <1>0, <1>c, <1>1, <2>2, <2>3 DEF NetFits, Nets, CardOrNone, m
<1>2. CASE ~(c # None /\ set.cred /\ connects)
  <2>1. m = [n EXCEPT !.client = None]
    BY <1>2 DEF start_wifi_client
  <2>2. m = n
    BY <1>0, <2>1 DEF Nets, NetFits
  <2> QED  BY <2>2
<1> QED  BY <1>1, <1>2

\* What the hotspot is wanted to be.
LEMMA WantedFacts ==
  ASSUME NEW n, NetFits(n), set \in NetworkingSettings
  PROVE  LET want == update_wifi_hotspot_enable(n) IN
         /\ want \in {None, "enable", "disable"}
         /\ want # None => n.hot.id # 0
         /\ n.hot.id # 0 /\ set.mode = "hotspot" /\ ~unit.noHotspot => want = IF Wants THEN "enable" ELSE "disable"
<1>1. n.hot = NoHotspot <=> n.hot.id = 0
  BY NetFacts
<1> QED  BY <1>1 DEF update_wifi_hotspot_enable, Wants, None

\* A command is started, and the flag changes, or nothing does.
LEMMA Enabled ==
  ASSUME NEW n, NetFits(n), JobsTyped(jobs, n.last), calm \in BOOLEAN,
         NEW want \in {None, "enable", "disable"}, want # None => n.hot.id # 0,
         set_enabled_async(n, want)
  PROVE  /\ NetFits(net') /\ JobsTyped(jobs, net.last)'
         /\ net'.hot.id = n.hot.id /\ net'.hot.card = n.hot.card
         /\ net'.cl = n.cl /\ net'.found = n.found /\ net'.last = n.last
         /\ want # None => net'.hot.enabled = (want = "enable")
         /\ calm' \in {calm, FALSE}
         /\ calm' /\ JobsFit(n, jobs) => JobsFit(net, jobs)'
<1> DEFINE b == want = "enable"
           j == [id |-> n.hot.id, up |-> b]
<1>0. n \in Nets /\ n.last \in Nat /\ n.hot.id \in Nat /\ n.hot.id <= n.last
  BY DEF NetFits, Nets, Hotspots
<1>1. CASE want = None \/ n.hot.enabled = b
  BY <1>1 DEF set_enabled_async
<1>2. CASE ~(want = None \/ n.hot.enabled = b)
  <2>1. /\ net' = [n EXCEPT !.hot.enabled = b] /\ jobs' = Append(jobs, j)
        /\ calm' = (calm /\ jobs = << >>)
    BY <1>2 DEF set_enabled_async
  <2>b. b \in BOOLEAN
    OBVIOUS
  <2> HIDE DEF b
  <2>2. /\ net'.hot = [n.hot EXCEPT !.enabled = b]
        /\ net'.cl = n.cl /\ net'.client = n.client /\ net'.hs = n.hs /\ net'.last = n.last
        /\ net'.found = n.found
        /\ net' = [found |-> net'.found, hot |-> net'.hot, last |-> net'.last, hs |-> net'.hs, cl |-> net'.cl,
                   client |-> net'.client]
    BY <1>0, <2>1 DEF Nets
  <2>3. /\ net'.hot \in Hotspots /\ net'.hot.id = n.hot.id /\ net'.hot.card = n.hot.card
        /\ net'.hot.started = n.hot.started /\ net'.hot.enabled = b
    BY <1>0, <2>2, <2>b DEF Nets, Hotspots
  <2>4. net' \in Nets
    BY <1>0, <2>2, <2>3 DEF Nets
  <2>5. NetFits(net')
    BY <1>0, <1>2, <2>2, <2>3, <2>4 DEF NetFits
  <2>6. JobsTyped(jobs, net.last)'
    BY <1>0, <1>2, <2>1, <2>2, <2>b DEF JobsTyped
  <2>7. ASSUME calm', JobsFit(n, jobs) PROVE JobsFit(net, jobs)'
    <3>1. jobs = << >> /\ jobs' = << j >>
      <4>1. jobs = << >>
        BY <2>1, <2>7, Zenon
      <4> HIDE DEF j
      <4> QED  BY <2>1, <4>1
    <3>2. n.hs.up = n.hot.enabled
      BY <2>7, <3>1 DEF JobsFit
    <3>3. /\ Len(jobs') = 1 /\ jobs'[1].id = n.hot.id /\ jobs'[1].up = b
      BY <3>1
    <3> HIDE DEF j
    <3> QED  BY <2>2, <2>3, <2>7, <3>3 DEF JobsFit
  <2>8. calm' \in {calm, FALSE}
    BY <2>1
  <2> QED  BY <1>2, <2>2, <2>3, <2>5, <2>6, <2>7, <2>8 DEF b
<1> QED  BY <1>1, <1>2

\* The settings are applied to the hotspot and the client.
LEMMA Applied ==
  ASSUME CardsInv, set \in NetworkingSettings, NetFits(net), JobsTyped(jobs, net.last),
         NEW answered \in BOOLEAN, NEW connects \in BOOLEAN, apply_wifi_operating_mode(answered, connects)
  PROVE  /\ NetFits(net') /\ JobsTyped(jobs, net.last)' /\ net'.last >= net.last
         /\ set.mode = "client" => net'.hot.id = 0
         /\ set.mode = "hotspot" => net'.cl = None
         /\ net'.hot.id # 0 <=> Present(net')
         /\ net'.hot.id # 0 => net'.hot.card = HotspotCard /\ net'.hot.enabled = Wants
         /\ calm' \in {calm, FALSE}
         /\ calm' /\ JobsFit(net, jobs) /\ (net.hot.id # 0 => net.hot.card = HotspotCard) => JobsFit(net, jobs)'
<1> DEFINE n == [net EXCEPT !.found = discover_connected_wifi_cards(answered)]
           m == CASE set.mode = "client" -> start_wifi_client(stop_wifi_client(destroy_hotspot(n)), connects)
                  [] set.mode = "hotspot" -> recreate_wifi_hotspot_if_needed(stop_wifi_client(n))
                  [] set.mode = "off" -> destroy_hotspot(stop_wifi_client(n))
<1>1. set_enabled_async(m, update_wifi_hotspot_enable(m))
  BY DEF apply_wifi_operating_mode
<1>2. /\ n.hot = net.hot /\ n.hs = net.hs /\ n.last = net.last /\ n.cl = net.cl
      /\ NetFits(n)
  <2>1. discover_connected_wifi_cards(answered) \subseteq Cards /\ net \in Nets
    BY FoundFacts DEF NetFits
  <2>2. /\ n.hot = net.hot /\ n.hs = net.hs /\ n.last = net.last /\ n.cl = net.cl /\ n.client = net.client
        /\ n \in Nets
    BY <2>1 DEF Nets
  <2> HIDE DEF n
  <2> QED  BY <2>2 DEF NetFits
<1>3. JobsTyped(jobs, n.last) /\ (JobsFit(net, jobs) => JobsFit(n, jobs)) /\ n.last \in Nat
  BY <1>2 DEF JobsFit, NetFits, Nets
<1> HIDE DEF n
<1>4. /\ NetFits(m) /\ m.last >= n.last /\ m.last \in Nat
      /\ set.mode = "client" => m.hot.id = 0
      /\ set.mode = "hotspot" => m.cl = None
      /\ m.hot.id # 0 <=> Present(m)
      /\ m.hot.id # 0 => m.hot.card = HotspotCard
      /\ JobsFit(n, jobs) /\ (n.hot.id # 0 => n.hot.card = HotspotCard) => JobsFit(m, jobs)
  <2>0. ASSUME NEW d, d.hot = NoHotspot, d.hs = NoProfile, JobsFit(n, jobs) PROVE JobsFit(d, jobs)
    <3>1. Len(jobs) <= 1 /\ \A i \in 1 .. Len(jobs) : jobs[i].id # 0
      BY <1>3, <2>0 DEF JobsTyped, JobsFit
    <3>2. d.hot.id = 0 /\ d.hot.enabled = FALSE /\ d.hs.up = FALSE /\ d.hs.card = d.hot.card
      BY <2>0 DEF NoHotspot, NoProfile
    <3> QED  BY <3>1, <3>2 DEF JobsFit
  <2>1. CASE set.mode = "client"
    <3> DEFINE d == destroy_hotspot(n)
               e == stop_wifi_client(d)
    <3>1. /\ NetFits(d) /\ d.hot = NoHotspot /\ d.hs = NoProfile /\ d.last = n.last
      BY <1>2, Destroyed
    <3> HIDE DEF d
    <3>2. /\ NetFits(e) /\ e.cl = None /\ e.hot = NoHotspot /\ e.hs = NoProfile /\ e.last = n.last
      BY <3>1, Stopped
    <3>3. m = start_wifi_client(e, connects)
      BY <2>1 DEF d
    <3> HIDE DEF e, m
    <3>4. NetFits(m) /\ m.hot = NoHotspot /\ m.hs = NoProfile /\ m.last = n.last
      BY <3>2, <3>3, Started DEF NoHotspot
    <3> QED  BY <1>3, <2>0, <2>1, <3>4 DEF Present, NoHotspot
  <2>2. CASE set.mode = "hotspot"
    <3> DEFINE e == stop_wifi_client(n)
    <3>1. /\ NetFits(e) /\ e.cl = None /\ e.hot = n.hot /\ e.hs = n.hs /\ e.last = n.last
      BY <1>2, Stopped
    <3>2. m = recreate_wifi_hotspot_if_needed(e)
      BY <2>2
    <3> HIDE DEF e, m
    <3>3. /\ NetFits(m) /\ m.cl = None /\ m.last >= n.last /\ m.last \in Nat /\ m.found = e.found
          /\ m.hot.id # 0 <=> ~unit.noHotspot /\ get_configured_hotspot_card(e) # None
          /\ m.hot.id # 0 => m.hot.card = HotspotCard
          /\ JobsFit(e, jobs) /\ (e.hot.id # 0 => e.hot.card = HotspotCard) => JobsFit(m, jobs)
      BY <1>3, <3>1, <3>2, Recreated
    <3>4. get_configured_hotspot_card(m) = get_configured_hotspot_card(e)
      BY <3>3 DEF get_configured_hotspot_card, Usable
    <3>5. JobsFit(n, jobs) => JobsFit(e, jobs)
      BY <3>1 DEF JobsFit
    <3> QED  BY <2>2, <3>1, <3>3, <3>4, <3>5 DEF Present
  <2>3. CASE set.mode = "off"
    <3> DEFINE e == stop_wifi_client(n)
    <3>1. /\ NetFits(e) /\ e.cl = None /\ e.last = n.last
      BY <1>2, Stopped
    <3>2. m = destroy_hotspot(e)
      BY <2>3
    <3> HIDE DEF e, m
    <3>3. NetFits(m) /\ m.hot = NoHotspot /\ m.hs = NoProfile /\ m.last = n.last
      BY <3>1, <3>2, Destroyed
    <3> QED  BY <1>3, <2>0, <2>3, <3>3 DEF Present, NoHotspot
  <2> QED  BY <2>1, <2>2, <2>3 DEF NetworkingSettings
<1> HIDE DEF m
<1> DEFINE want == update_wifi_hotspot_enable(m)
<1>5. /\ want \in {None, "enable", "disable"} /\ (want # None => m.hot.id # 0)
      /\ m.hot.id # 0 /\ set.mode = "hotspot" /\ ~unit.noHotspot => want = IF Wants THEN "enable" ELSE "disable"
  BY <1>4, WantedFacts
<1>6. JobsTyped(jobs, m.last)
  BY <1>3, <1>4 DEF JobsTyped
<1> HIDE DEF want
<1>7. /\ NetFits(net') /\ JobsTyped(jobs, net.last)'
      /\ net'.hot.id = m.hot.id /\ net'.hot.card = m.hot.card
      /\ net'.cl = m.cl /\ net'.found = m.found /\ net'.last = m.last
      /\ want # None => net'.hot.enabled = (want = "enable")
      /\ calm' \in {calm, FALSE}
      /\ calm' /\ JobsFit(m, jobs) => JobsFit(net, jobs)'
  <2>1. set_enabled_async(m, want) /\ calm \in BOOLEAN
    BY <1>1 DEF want, CardsInv
  <2> QED  BY <1>4, <1>5, <1>6, <2>1, Enabled
<1>8. Present(net') <=> Present(m)
  BY <1>7 DEF Present, get_configured_hotspot_card, Usable
<1>9. ASSUME net'.hot.id # 0 PROVE net'.hot.card = HotspotCard /\ net'.hot.enabled = Wants
  <2>1. set.mode = "hotspot" /\ ~unit.noHotspot /\ m.hot.id # 0
    BY <1>4, <1>7, <1>9 DEF Present
  <2>2. want = IF Wants THEN "enable" ELSE "disable"
    BY <1>5, <2>1
  <2>3. Wants \in BOOLEAN
    BY DEF Wants
  <2> QED  BY <1>4, <1>7, <2>1, <2>2, <2>3, CardFacts
<1> QED  BY <1>2, <1>3, <1>4, <1>7, <1>8, <1>9

---------------------------------------------------------------------------
\* The steps.

LEMMA RolesInit == InterfaceInit => RolesInv /\ SettleInv
<1> SUFFICES ASSUME InterfaceInit PROVE RolesInv /\ SettleInv
  OBVIOUS
<1>1. set \in NetworkingSettings /\ None \in CardOrNone
  BY CardFacts DEF InterfaceInit, CardOrNone
<1>2. NetFits(net)
  <2>1. net \in Nets
    BY <1>1 DEF InterfaceInit, Nets, Hotspots, NoHotspot, NoProfile
  <2> QED  BY <2>1 DEF InterfaceInit, NetFits, NoHotspot, NoProfile
<1>3. JobsTyped(jobs, net.last)
  BY DEF InterfaceInit, JobsTyped
<1>4. RolesInv
  BY <1>1, <1>2, <1>3 DEF InterfaceInit, RolesInv, NoHotspot, None
<1> QED  BY <1>4 DEF InterfaceInit, SettleInv

\* Steps after which the settings, the hotspot, the client and the commands are as before.
LEMMA SameRoles ==
  ASSUME CardsInv, RolesInv, SettleInv, UNCHANGED << unit, set, net, jobs, arm, par >>,
         wifi'.mon = wifi.mon, wifi'.spare = wifi.spare, calm' => calm,
         main' \in Unused => main \in Unused,
         unit.link = "wifi" /\ main' \in {"video", "run"} => main \in {"video", "run"}
  PROVE  RolesInv' /\ SettleInv'
<1>1. NetFits(net)'
  BY DEF RolesInv, NetFits
<1>2. RolesInv'
  BY <1>1 DEF RolesInv
<1>3. HotspotCard' = HotspotCard /\ (Present(net))' = Present(net) /\ Wants' = Wants
  BY DEF HotspotCard, Present, get_configured_hotspot_card, Usable, is_monitor_mode_card, Wants
<1>4. JobsFit(net, jobs)' = JobsFit(net, jobs)
  BY DEF JobsFit
<1> QED  BY <1>2, <1>3, <1>4 DEF SettleInv

LEMMA ParameterStep == ASSUME CardsInv, RolesInv, SettleInv, apply_parameter PROVE RolesInv' /\ SettleInv'
<1>0. /\ par # None /\ par' = None /\ par \in Params /\ UNCHANGED << unit, main, wifi, set, arm >>
      /\ set \in NetworkingSettings /\ NetFits(net) /\ JobsTyped(jobs, net.last) /\ calm \in BOOLEAN
      /\ main \notin Unused
  BY DEF apply_parameter, RolesInv, CardsInv
<1>s. HotspotCard' = HotspotCard /\ Wants' = Wants /\ Present(net)' = Present(net')
      /\ JobsFit(net, jobs)' = JobsFit(net', jobs')
  BY <1>0 DEF HotspotCard, Present, get_configured_hotspot_card, Usable, is_monitor_mode_card, Wants, JobsFit
\* What the two invariants ask of the new state.
<1>g. ASSUME NetFits(net'), JobsTyped(jobs, net.last)', net'.last >= net.last,
             set.mode = "client" => net'.hot.id = 0, set.mode = "hotspot" => net'.cl = None, calm' => calm,
             ASSUME calm', unit.link = "wifi", main \in {"video", "run"}
             PROVE  /\ JobsFit(net', jobs') /\ (net'.hot.id # 0 <=> Present(net'))
                    /\ net'.hot.id # 0 => net'.hot.card = HotspotCard /\ net'.hot.enabled = Wants
      PROVE  RolesInv' /\ SettleInv'
  <2>1. NetFits(net)'
    BY <1>0, <1>g DEF NetFits
  <2>2. arm.id <= net'.last \/ arm.cb # "act"
    BY <1>0, <1>g DEF RolesInv, NetFits, Nets
  <2>3. RolesInv'
    BY <1>0, <1>g, <2>1, <2>2 DEF RolesInv
  <2>4. calm /\ unit.link = "wifi" /\ main \in {"video", "run"} => arm.cb = None
    BY <1>0 DEF SettleInv
  <2>5. SettleInv'
    BY <1>0, <1>s, <1>g, <2>4, CardFacts DEF SettleInv
  <2> QED  BY <2>3, <2>5
<1>1. ASSUME par \notin {"WIFI_HOTSPOT_E", "WIFI_HS_SSID"}, NEW answered \in BOOLEAN, NEW connects \in BOOLEAN,
             apply_wifi_operating_mode(answered, connects)
      PROVE  RolesInv' /\ SettleInv'
  <2>1. /\ NetFits(net') /\ JobsTyped(jobs, net.last)' /\ net'.last >= net.last
        /\ set.mode = "client" => net'.hot.id = 0
        /\ set.mode = "hotspot" => net'.cl = None
        /\ net'.hot.id # 0 <=> Present(net')
        /\ net'.hot.id # 0 => net'.hot.card = HotspotCard /\ net'.hot.enabled = Wants
        /\ calm' \in {calm, FALSE}
        /\ calm' /\ JobsFit(net, jobs) /\ (net.hot.id # 0 => net.hot.card = HotspotCard) => JobsFit(net, jobs)'
    BY <1>0, <1>1, Applied
  <2>2. calm' => calm
    BY <1>0, <2>1
  <2>3. ASSUME calm', unit.link = "wifi", main \in {"video", "run"} PROVE JobsFit(net', jobs')
    <3>1. JobsFit(net, jobs) /\ (net.hot.id # 0 => net.hot.card = HotspotCard)
      BY <2>2, <2>3 DEF SettleInv
    <3> QED  BY <1>s, <2>1, <2>3, <3>1
  <2> QED  BY <1>g, <2>1, <2>2, <2>3
<1>2. CASE /\ par = "WIFI_HOTSPOT_E" \/ (par = "WIFI_HS_SSID" /\ set.mode = "hotspot")
           /\ LET n == IF par = "WIFI_HS_SSID" THEN recreate_wifi_hotspot_if_needed(net) ELSE net
              IN  set_enabled_async(n, update_wifi_hotspot_enable(n))
  <2> DEFINE n == IF par = "WIFI_HS_SSID" THEN recreate_wifi_hotspot_if_needed(net) ELSE net
             want == update_wifi_hotspot_enable(n)
  <2>1. set_enabled_async(n, want)
    BY <1>2
  <2>2. /\ NetFits(n) /\ n.last >= net.last /\ n.last \in Nat /\ n.found = net.found
        /\ set.mode = "client" => n.hot.id = 0
        /\ set.mode = "hotspot" => n.cl = None
        /\ calm /\ unit.link = "wifi" /\ main \in {"video", "run"} =>
             /\ JobsFit(n, jobs) /\ (n.hot.id # 0 <=> Present(n))
             /\ n.hot.id # 0 => n.hot.card = HotspotCard
    <3>1. CASE par = "WIFI_HOTSPOT_E"
      <4>1. n = net
        BY <3>1
      <4>2. net.last \in Nat
        BY <1>0 DEF NetFits, Nets
      <4> HIDE DEF n
      <4> QED  BY <1>0, <3>1, <4>1, <4>2 DEF RolesInv, SettleInv
    <3>2. CASE par = "WIFI_HS_SSID" /\ set.mode = "hotspot"
      <4>1. n = recreate_wifi_hotspot_if_needed(net) /\ net.cl = None
        BY <3>2 DEF RolesInv
      <4> HIDE DEF n
      <4>2. /\ NetFits(n) /\ n.cl = None /\ n.last >= net.last /\ n.last \in Nat /\ n.found = net.found
            /\ n.hot.id # 0 <=> ~unit.noHotspot /\ get_configured_hotspot_card(net) # None
            /\ n.hot.id # 0 => n.hot.card = HotspotCard
            /\ JobsFit(net, jobs) /\ (net.hot.id # 0 => net.hot.card = HotspotCard) => JobsFit(n, jobs)
        BY <1>0, <4>1, Recreated
      <4>3. get_configured_hotspot_card(n) = get_configured_hotspot_card(net)
        BY <4>2 DEF get_configured_hotspot_card, Usable
      <4>4. calm /\ unit.link = "wifi" /\ main \in {"video", "run"} =>
              JobsFit(net, jobs) /\ (net.hot.id # 0 => net.hot.card = HotspotCard)
        BY <3>2 DEF SettleInv
      <4> QED  BY <3>2, <4>2, <4>3, <4>4 DEF Present
    <3> QED  BY <1>2, <3>1, <3>2
  <2> HIDE DEF n
  <2>3. /\ want \in {None, "enable", "disable"} /\ (want # None => n.hot.id # 0)
        /\ n.hot.id # 0 /\ set.mode = "hotspot" /\ ~unit.noHotspot => want = IF Wants THEN "enable" ELSE "disable"
    BY <1>0, <2>2, WantedFacts
  <2>4. JobsTyped(jobs, n.last)
    BY <1>0, <2>2 DEF JobsTyped, NetFits, Nets
  <2> HIDE DEF want
  <2>5. /\ NetFits(net') /\ JobsTyped(jobs, net.last)'
        /\ net'.hot.id = n.hot.id /\ net'.hot.card = n.hot.card
        /\ net'.cl = n.cl /\ net'.found = n.found /\ net'.last = n.last
        /\ want # None => net'.hot.enabled = (want = "enable")
        /\ calm' \in {calm, FALSE}
        /\ calm' /\ JobsFit(n, jobs) => JobsFit(net, jobs)'
    BY <1>0, <2>1, <2>2, <2>3, <2>4, Enabled
  <2>6. calm' => calm
    BY <1>0, <2>5
  <2>7. Present(net') <=> Present(n)
    BY <2>5 DEF Present, get_configured_hotspot_card, Usable
  <2>8. ASSUME calm', unit.link = "wifi", main \in {"video", "run"}
        PROVE  /\ JobsFit(net', jobs') /\ (net'.hot.id # 0 <=> Present(net'))
               /\ net'.hot.id # 0 => net'.hot.card = HotspotCard /\ net'.hot.enabled = Wants
    <3>1. JobsFit(n, jobs) /\ (n.hot.id # 0 <=> Present(n)) /\ (n.hot.id # 0 => n.hot.card = HotspotCard)
      BY <2>2, <2>6, <2>8
    <3>2. ASSUME net'.hot.id # 0 PROVE net'.hot.enabled = Wants
      <4>1. want = IF Wants THEN "enable" ELSE "disable"
        BY <2>3, <2>5, <3>1, <3>2 DEF Present
      <4>2. Wants \in BOOLEAN
        BY DEF Wants
      <4> QED  BY <2>5, <4>1, <4>2, CardFacts
    <3> QED  BY <1>s, <2>5, <2>7, <2>8, <3>1, <3>2
  <2> QED  BY <1>g, <2>2, <2>5, <2>6, <2>8
<1>3. CASE par = "WIFI_HS_SSID" /\ set.mode # "hotspot" /\ UNCHANGED << net, jobs, calm >>
  <2>1. /\ set.mode = "client" => net.hot.id = 0
        /\ calm /\ unit.link = "wifi" /\ main \in {"video", "run"} =>
             JobsFit(net, jobs) /\ (net.hot.id # 0 <=> Present(net)) /\ net.hot.id = 0
    BY <1>3 DEF RolesInv, SettleInv, Present
  <2>2. net.last \in Nat
    BY <1>0 DEF NetFits, Nets
  <2>3. NetFits(net') /\ JobsTyped(jobs, net.last)' /\ JobsFit(net', jobs') = JobsFit(net, jobs)
        /\ Present(net') = Present(net) /\ net'.hot.id = net.hot.id /\ net'.last = net.last
    BY <1>0, <1>3
  <2>4. ASSUME calm', unit.link = "wifi", main \in {"video", "run"}
        PROVE  /\ JobsFit(net', jobs') /\ (net'.hot.id # 0 <=> Present(net'))
               /\ net'.hot.id # 0 => net'.hot.card = HotspotCard /\ net'.hot.enabled = Wants
    <3>1. calm
      BY <1>3, <2>4
    <3> QED  BY <2>1, <2>3, <2>4, <3>1
  <2>5. (calm' => calm) /\ net'.last >= net.last
    BY <1>3, <2>2, <2>3
  <2> QED  BY <1>g, <1>3, <2>1, <2>3, <2>4, <2>5
<1> QED  BY <1>1, <1>2, <1>3 DEF apply_parameter

LEMMA SetStep == ASSUME CardsInv, RolesInv, SettleInv, set_parameter PROVE RolesInv' /\ SettleInv'
<1>0. /\ main = "run" /\ par = None /\ UNCHANGED << unit, main, wifi, net, jobs, arm >>
      /\ set \in NetworkingSettings /\ NetFits(net) /\ JobsTyped(jobs, net.last) /\ calm \in BOOLEAN
      /\ unit.names \cup {None} \subseteq CardOrNone
  BY CardFacts DEF set_parameter, RolesInv, CardsInv, CardOrNone
<1>1. /\ par' \in Params /\ set' \in NetworkingSettings
      /\ par' # "WIFI_MODE" => set'.mode = set.mode
      /\ par' # "WIFI_HS_IFACE" => set'.hsif = set.hsif
  BY <1>0 DEF set_parameter, NetworkingSettings, Params, CardOrNone
<1>2. /\ calm' => calm /\ arm.cb = None /\ (par' = "WIFI_HS_IFACE" => net.hot = NoHotspot)
  BY <1>0 DEF set_parameter
<1>3. NetFits(net)' /\ JobsTyped(jobs, net.last)' /\ (JobsFit(net, jobs)' <=> JobsFit(net, jobs))
  BY <1>0 DEF NetFits, JobsTyped, JobsFit
<1>4. RolesInv'
  BY <1>0, <1>1, <1>3, CardFacts DEF RolesInv, Unused, Params
<1>5. ASSUME calm', unit.link = "wifi" PROVE SettleInv'
  <2>1. JobsFit(net, jobs) /\ arm.cb = None /\ calm
    BY <1>0, <1>2, <1>5 DEF SettleInv
  <2>2. par' = "WIFI_HS_IFACE" => net.hot.id = 0
    BY <1>2, <1>5 DEF NoHotspot
  <2>3. par' # "WIFI_HS_IFACE" => HotspotCard' = HotspotCard
    BY <1>0, <1>1 DEF HotspotCard
  <2>4. par' \notin {"WIFI_MODE", "WIFI_HS_IFACE"} => Present(net)' = Present(net)
    BY <1>0, <1>1 DEF Present, get_configured_hotspot_card, Usable, is_monitor_mode_card
  <2>5. /\ net.hot.id # 0 => net.hot.card = HotspotCard
        /\ net.hot.id # 0 <=> Present(net)
    BY <1>0, <1>5, <2>1, CardFacts DEF SettleInv
  <2>6. par' # None /\ arm'.cb = None
    BY <1>0, <1>1, <2>1, CardFacts DEF Params
  <2> QED  BY <1>0, <1>3, <2>1, <2>2, <2>3, <2>4, <2>5, <2>6, CardFacts DEF SettleInv
<1>6. ~(calm' /\ unit.link = "wifi") => SettleInv'
  BY <1>0 DEF SettleInv
<1> QED  BY <1>4, <1>5, <1>6

LEMMA ArmingStep ==
  ASSUME CardsInv, RolesInv, SettleInv, update_arming_state \/ arming_decides \/ arming_acts
  PROVE  RolesInv' /\ SettleInv'
<1>0. /\ UNCHANGED << unit, wifi, set, par >>
      /\ set \in NetworkingSettings /\ NetFits(net) /\ JobsTyped(jobs, net.last) /\ calm \in BOOLEAN
      /\ arm \in [armed : BOOLEAN, cb : {None, "update", "act"}, on : BOOLEAN, id : Nat]
      /\ net.hot.id \in Nat /\ net.last \in Nat /\ net.hot.id <= net.last
      /\ HotspotCard' = HotspotCard
      /\ (net'.found = net.found => Present(net)' = Present(net))
  BY DEF update_arming_state, arming_decides, arming_acts, RolesInv, CardsInv, NetFits, Nets, Hotspots,
     HotspotCard, Present, get_configured_hotspot_card, Usable, is_monitor_mode_card
<1>1. CASE update_arming_state
  <2>1. /\ main = "run" /\ arm.cb = None /\ UNCHANGED << main, net, jobs >>
        /\ arm' = [arm EXCEPT !.armed = ~@, !.cb = IF unit.link = "wifi" THEN "update" ELSE None]
        /\ calm' = (calm /\ par = None)
    BY <1>1 DEF update_arming_state
  <2>2. NetFits(net)' /\ JobsTyped(jobs, net.last)' /\ JobsFit(net, jobs)' = JobsFit(net, jobs)
    BY <1>0, <2>1 DEF NetFits, JobsTyped, JobsFit
  <2>3. /\ arm' \in [armed : BOOLEAN, cb : {None, "update", "act"}, on : BOOLEAN, id : Nat]
        /\ arm'.cb # "act" /\ (unit.link = "wifi" => arm'.cb = "update")
    BY <1>0, <2>1, CardFacts
  <2>4. RolesInv'
    BY <1>0, <2>1, <2>2, <2>3 DEF RolesInv, Unused
  <2>5. SettleInv'
    BY <1>0, <2>1, <2>2, <2>3, CardFacts DEF SettleInv
  <2> QED  BY <2>4, <2>5
<1>2. CASE arming_decides
  <2> DEFINE want == update_wifi_hotspot_enable(net)
  <2>1. /\ arm.cb = "update" /\ UNCHANGED << main, net, jobs, calm >>
        /\ arm' = IF want = None THEN [arm EXCEPT !.cb = None]
                  ELSE [arm EXCEPT !.cb = "act", !.on = (want = "enable"), !.id = net.hot.id]
    BY <1>2 DEF arming_decides
  <2>2. NetFits(net)' /\ JobsTyped(jobs, net.last)' /\ JobsFit(net, jobs)' = JobsFit(net, jobs)
    BY <1>0, <2>1 DEF NetFits, JobsTyped, JobsFit
  <2>3. /\ want \in {None, "enable", "disable"} /\ (want # None => net.hot.id # 0)
        /\ net.hot.id # 0 /\ set.mode = "hotspot" /\ ~unit.noHotspot => want = IF Wants THEN "enable" ELSE "disable"
    BY <1>0, WantedFacts
  <2> HIDE DEF want
  <2>4. /\ arm' \in [armed : BOOLEAN, cb : {None, "update", "act"}, on : BOOLEAN, id : Nat]
        /\ arm'.armed = arm.armed /\ arm'.cb = IF want = None THEN None ELSE "act"
        /\ arm'.cb = "act" => arm'.on = (want = "enable") /\ arm'.id = net.hot.id
    BY <1>0, <2>1, CardFacts
  <2>5. RolesInv'
    BY <1>0, <2>1, <2>2, <2>3, <2>4, CardFacts DEF RolesInv
  <2>6. ASSUME calm, unit.link = "wifi", main \in {"video", "run"} PROVE SettleInv'
    <3>1. /\ JobsFit(net, jobs) /\ par = None
          /\ net.hot.id # 0 => net.hot.card = HotspotCard
          /\ net.hot.id # 0 <=> Present(net)
      BY <2>1, <2>6, CardFacts DEF SettleInv
    <3>2. net.hot.id # 0 => want = IF Wants THEN "enable" ELSE "disable"
      BY <2>3, <3>1 DEF Present
    <3>3. Wants' = Wants /\ Wants \in BOOLEAN
      BY <1>0, <2>4 DEF Wants
    <3>4. arm'.cb = "act" => arm'.on = Wants
      BY <2>3, <2>4, <3>2, <3>3, CardFacts
    <3>5. arm'.cb = None => net.hot.id = 0
      BY <2>4, <3>2, CardFacts
    <3> QED  BY <1>0, <2>1, <2>2, <3>1, <3>3, <3>4, <3>5, CardFacts DEF SettleInv
  <2>7. ~(calm /\ unit.link = "wifi" /\ main \in {"video", "run"}) => SettleInv'
    BY <1>0, <2>1 DEF SettleInv
  <2> QED  BY <2>5, <2>6, <2>7
<1>3. CASE arming_acts
  <2>1. arm.cb = "act" /\ arm' = [arm EXCEPT !.cb = None] /\ arm.id # 0 /\ arm.id <= net.last
    BY <1>3 DEF arming_acts, RolesInv
  <2>2. /\ arm' \in [armed : BOOLEAN, cb : {None, "update", "act"}, on : BOOLEAN, id : Nat]
        /\ arm'.armed = arm.armed /\ arm'.cb = None
    BY <1>0, <2>1
  <2>3. Wants' = Wants /\ Wants \in BOOLEAN /\ main \notin Unused
    BY <1>0, <2>1, <2>2, CardFacts DEF Wants, RolesInv
  <2>4. CASE arm.id = net.hot.id /\ UNCHANGED main /\ set_enabled_async(net, IF arm.on THEN "enable" ELSE "disable")
    <3> DEFINE want == IF arm.on THEN "enable" ELSE "disable"
    <3>1. want \in {None, "enable", "disable"} /\ want # None /\ (want = "enable") = arm.on
      BY <1>0, CardFacts
    <3> HIDE DEF want
    <3>2. set_enabled_async(net, want) /\ net.hot.id # 0
      BY <2>1, <2>4 DEF want
    <3>3. /\ NetFits(net') /\ JobsTyped(jobs, net.last)'
          /\ net'.hot.id = net.hot.id /\ net'.hot.card = net.hot.card
          /\ net'.cl = net.cl /\ net'.found = net.found /\ net'.last = net.last
          /\ net'.hot.enabled = arm.on
          /\ calm' \in {calm, FALSE}
          /\ calm' /\ JobsFit(net, jobs) => JobsFit(net, jobs)'
      BY <1>0, <3>1, <3>2, Enabled
    <3>4. NetFits(net)'
      BY <1>0, <3>3 DEF NetFits
    <3>5. RolesInv'
      BY <1>0, <2>2, <2>3, <2>4, <3>3, <3>4, CardFacts DEF RolesInv
    <3>6. ASSUME calm', unit.link = "wifi", main \in {"video", "run"} PROVE SettleInv'
      <4>1. calm
        BY <1>0, <3>3, <3>6
      <4>2. /\ JobsFit(net, jobs) /\ par = None /\ arm.on = Wants
            /\ net.hot.id # 0 => net.hot.card = HotspotCard
            /\ net.hot.id # 0 <=> Present(net)
        BY <2>1, <3>6, <4>1, CardFacts DEF SettleInv
      <4>3. JobsFit(net, jobs)' /\ Present(net)' = Present(net)
        BY <1>0, <3>3, <3>6, <4>2
      <4> QED  BY <1>0, <2>2, <2>3, <2>4, <3>3, <4>2, <4>3, CardFacts DEF SettleInv
    <3>7. ~(calm' /\ unit.link = "wifi" /\ main \in {"video", "run"}) => SettleInv'
      BY <1>0, <2>4 DEF SettleInv
    <3> QED  BY <3>5, <3>6, <3>7
  <2>5. CASE /\ main' \in {main, "dead"} /\ jobs' \in {jobs, Append(jobs, [id |-> arm.id, up |-> arm.on])}
             /\ calm' = FALSE /\ UNCHANGED net
    <3>1. JobsTyped(jobs, net.last)'
      <4> DEFINE j == [id |-> arm.id, up |-> arm.on]
      <4>1. j \in [id : Nat, up : BOOLEAN] /\ j.id \in 1 .. net.last
        BY <1>0, <2>1
      <4> HIDE DEF j
      <4>2. jobs' \in {jobs, Append(jobs, j)} /\ net' = net
        BY <2>5 DEF j
      <4>3. jobs \in Seq([id : Nat, up : BOOLEAN]) /\ \A i \in 1 .. Len(jobs) : jobs[i].id \in 1 .. net.last
        BY <1>0 DEF JobsTyped
      <4>4. CASE jobs' = Append(jobs, j)
        <5>1. jobs' \in Seq([id : Nat, up : BOOLEAN])
          BY <4>1, <4>3, <4>4
        <5>2. Len(jobs') = Len(jobs) + 1 /\ \A i \in 1 .. Len(jobs') : jobs'[i] = IF i <= Len(jobs) THEN jobs[i] ELSE j
          BY <4>1, <4>3, <4>4
        <5>3. \A i \in 1 .. Len(jobs') : jobs'[i].id \in 1 .. net.last
          BY <4>1, <4>3, <5>2
        <5> QED  BY <4>2, <5>1, <5>3 DEF JobsTyped
      <4> QED  BY <1>0, <4>2, <4>4 DEF JobsTyped
    <3>2. NetFits(net)'
      BY <1>0, <2>5 DEF NetFits
    <3>3. main' \notin Unused
      BY <2>3, <2>5 DEF Unused
    <3>4. RolesInv'
      BY <1>0, <2>2, <2>5, <3>1, <3>2, <3>3, CardFacts DEF RolesInv
    <3> QED  BY <2>5, <3>4 DEF SettleInv
  <2> QED  BY <1>3, <2>4, <2>5 DEF arming_acts
<1> QED  BY <1>1, <1>2, <1>3

LEMMA Removed ==
  ASSUME NEW S, NEW s \in Seq(S), NEW i \in 1 .. Len(s)
  PROVE  /\ RemoveAt(s, i) \in Seq(S) /\ Len(RemoveAt(s, i)) = Len(s) - 1
         /\ \A k \in 1 .. Len(RemoveAt(s, i)) : \E l \in 1 .. Len(s) : RemoveAt(s, i)[k] = s[l]
<1> DEFINE a == SubSeq(s, 1, i - 1)
           b == SubSeq(s, i + 1, Len(s))
<1>1. RemoveAt(s, i) = a \o b
  BY DEF RemoveAt
<1>2. /\ a \in Seq(S) /\ Len(a) = i - 1 /\ \A k \in 1 .. Len(a) : a[k] = s[k]
  OBVIOUS
<1>3. /\ b \in Seq(S) /\ Len(b) = Len(s) - i /\ \A k \in 1 .. Len(b) : b[k] = s[i + k]
  OBVIOUS
<1> HIDE DEF a, b
<1>4. a \o b \in Seq(S) /\ Len(a \o b) = Len(s) - 1
  <2>1. a \o b \in Seq(S) /\ Len(a \o b) = Len(a) + Len(b)
    <3>1. a \in Seq(S) /\ b \in Seq(S)
      BY <1>2, <1>3
    <3> QED  BY <3>1
  <2>2. Len(a) + Len(b) = Len(s) - 1
    BY <1>2, <1>3
  <2> QED  BY <2>1, <2>2
<1>5. ASSUME NEW k \in 1 .. Len(a \o b) PROVE \E l \in 1 .. Len(s) : (a \o b)[k] = s[l]
  <2>1. (a \o b)[k] = IF k <= Len(a) THEN a[k] ELSE b[k - Len(a)]
    BY <1>2, <1>3
  <2>2. CASE k <= Len(a)
    BY <1>2, <2>1, <2>2
  <2>3. CASE k > Len(a)
    <3>1. k - Len(a) \in 1 .. Len(b) /\ i + (k - Len(a)) = k + 1 /\ k + 1 \in 1 .. Len(s)
      BY <1>2, <1>3, <1>4, <2>3
    <3>2. b[k - Len(a)] = s[k + 1]
      BY <1>3, <3>1
    <3>3. (a \o b)[k] = b[k - Len(a)]
      BY <1>2, <2>1, <2>3
    <3> QED  BY <3>1, <3>2, <3>3
  <2>4. k <= Len(a) \/ k > Len(a)
    BY <1>2
  <2> QED  BY <2>2, <2>3, <2>4
<1> QED  BY <1>1, <1>4, <1>5

LEMMA CommandStep ==
  ASSUME CardsInv, RolesInv, SettleInv, NEW i \in 1 .. Len(jobs), nmcli(i)
  PROVE  RolesInv' /\ SettleInv'
<1> DEFINE j == jobs[i]
<1>0. /\ UNCHANGED << unit, wifi, set, arm, par >> /\ jobs' = RemoveAt(jobs, i)
      /\ set \in NetworkingSettings /\ NetFits(net) /\ JobsTyped(jobs, net.last) /\ calm \in BOOLEAN
      /\ HotspotCard' = HotspotCard /\ Wants' = Wants /\ (net'.found = net.found => Present(net)' = Present(net))
  BY DEF nmcli, RolesInv, CardsInv, HotspotCard, Wants, Present, get_configured_hotspot_card, Usable,
     is_monitor_mode_card
<1>1. j \in [id : Nat, up : BOOLEAN] /\ j.id \in 1 .. net.last /\ jobs \in Seq([id : Nat, up : BOOLEAN])
  <2>1. jobs \in Seq([id : Nat, up : BOOLEAN]) /\ jobs[i].id \in 1 .. net.last
    BY <1>0 DEF JobsTyped
  <2>2. jobs[i] \in [id : Nat, up : BOOLEAN]
    <3> DEFINE T == [id : Nat, up : BOOLEAN]
    <3> HIDE DEF T
    <3>1. jobs \in Seq(T)
      BY <2>1 DEF T
    <3>2. jobs[i] \in T
      BY <3>1
    <3> QED  BY <3>2 DEF T
  <2> QED  BY <2>1, <2>2
<1>2. /\ jobs' \in Seq([id : Nat, up : BOOLEAN]) /\ Len(jobs') = Len(jobs) - 1
      /\ \A k \in 1 .. Len(jobs') : \E l \in 1 .. Len(jobs) : jobs'[k] = jobs[l]
  <2> DEFINE T == [id : Nat, up : BOOLEAN]
  <2> HIDE DEF T
  <2>1. jobs \in Seq(T) /\ jobs' = RemoveAt(jobs, i)
    BY <1>0, <1>1 DEF T
  <2>2. /\ RemoveAt(jobs, i) \in Seq(T) /\ Len(RemoveAt(jobs, i)) = Len(jobs) - 1
        /\ \A k \in 1 .. Len(RemoveAt(jobs, i)) : \E l \in 1 .. Len(jobs) : RemoveAt(jobs, i)[k] = jobs[l]
    BY <2>1, Removed, SMTT(30)
  <2> QED  BY <2>1, <2>2 DEF T
<1>3. JobsTyped(jobs', net.last)
  <2>1. \A k \in 1 .. Len(jobs') : jobs'[k].id \in 1 .. net.last
    BY <1>0, <1>2 DEF JobsTyped
  <2> QED  BY <1>2, <2>1 DEF JobsTyped
<1>4. net \in Nets /\ net.hs \in [card : CardOrNone, up : BOOLEAN] /\ net.hot \in Hotspots /\ main \notin Unused
  <2>1. jobs # << >>
    BY <1>1
  <2> QED  BY <1>0, <2>1 DEF RolesInv, NetFits, Nets
<1> HIDE DEF j
<1>5. ASSUME j.id = net.hot.id, UNCHANGED << main, calm >>,
             net' = IF j.up THEN [net EXCEPT !.hs.up = net.hs # NoProfile, !.hot.started = TRUE]
                    ELSE [net EXCEPT !.hs.up = @ /\ ~net.hot.started]
      PROVE  RolesInv' /\ SettleInv'
  <2> DEFINE up == IF j.up THEN net.hs # NoProfile ELSE net.hs.up /\ ~net.hot.started
  <2>1. up \in BOOLEAN
    BY <1>4 DEF Hotspots
  <2>2. /\ net'.hs = [net.hs EXCEPT !.up = up]
        /\ net'.hot = IF j.up THEN [net.hot EXCEPT !.started = TRUE] ELSE net.hot
        /\ net'.last = net.last /\ net'.found = net.found /\ net'.cl = net.cl /\ net'.client = net.client
        /\ net' = [found |-> net'.found, hot |-> net'.hot, last |-> net'.last, hs |-> net'.hs, cl |-> net'.cl,
                   client |-> net'.client]
    BY <1>4, <1>5 DEF Nets
  <2> HIDE DEF up
  <2>3. /\ net'.hot \in Hotspots /\ net'.hot.id = net.hot.id /\ net'.hot.card = net.hot.card
        /\ net'.hot.enabled = net.hot.enabled /\ net'.hot.started = (j.up \/ net.hot.started)
        /\ net'.hs \in [card : CardOrNone, up : BOOLEAN] /\ net'.hs.card = net.hs.card /\ net'.hs.up = up
    BY <1>1, <1>4, <2>1, <2>2 DEF Hotspots
  <2>4. net' \in Nets
    BY <1>4, <2>2, <2>3 DEF Nets
  <2>5. net.hot.id # 0
    BY <1>1, <1>5
  <2>6. NetFits(net)'
    BY <1>0, <2>2, <2>3, <2>4, <2>5 DEF NetFits
  <2>7. RolesInv'
    BY <1>0, <1>3, <1>4, <1>5, <2>2, <2>3, <2>6 DEF RolesInv
  <2>8. ASSUME calm, unit.link = "wifi", main \in {"video", "run"} PROVE SettleInv'
    <3>1. JobsFit(net, jobs)
      BY <2>8 DEF SettleInv
    <3>2. Len(jobs) = 1 /\ Len(jobs') = 0 /\ j.up = net.hot.enabled
      BY <1>1, <1>2, <1>5, <3>1 DEF JobsFit, j
    <3>3. up = j.up
      <4>1. net.hs # NoProfile
        BY <1>0, <2>5, <3>1 DEF JobsFit, NetFits, NoProfile
      <4>2. net.hs.up => net.hot.started
        BY <3>1 DEF JobsFit
      <4>3. CASE j.up
        BY <1>1, <4>1, <4>3 DEF up
      <4>4. CASE ~j.up
        BY <1>1, <1>4, <4>2, <4>4 DEF up, Hotspots
      <4> QED  BY <4>3, <4>4
    <3>4. JobsFit(net, jobs)'
      BY <2>3, <3>1, <3>2, <3>3 DEF JobsFit
    <3> QED  BY <1>0, <1>5, <2>2, <2>3, <2>8, <3>4 DEF SettleInv
  <2>9. ~(calm /\ unit.link = "wifi" /\ main \in {"video", "run"}) => SettleInv'
    BY <1>0, <1>5 DEF SettleInv
  <2> QED  BY <2>7, <2>8, <2>9
<1>6. ASSUME main' \in {main, "dead"}, calm' = FALSE,
             net' \in {net, [net EXCEPT !.hs.up = j.up /\ net.hs # NoProfile]}
      PROVE  RolesInv' /\ SettleInv'
  <2> DEFINE up == j.up /\ net.hs # NoProfile
  <2>1. NetFits(net)' /\ net'.last = net.last /\ net'.hot = net.hot /\ net'.cl = net.cl
    <3>1. CASE net' = net
      BY <1>0, <3>1 DEF NetFits
    <3>2. CASE net' = [net EXCEPT !.hs.up = up]
      <4>1. up \in BOOLEAN
        BY <1>1
      <4>2. net.hs = NoProfile => up = FALSE
        OBVIOUS
      <4> HIDE DEF up
      <4>3. /\ net'.hs = [net.hs EXCEPT !.up = up] /\ net'.hot = net.hot
            /\ net'.last = net.last /\ net'.found = net.found /\ net'.cl = net.cl /\ net'.client = net.client
            /\ net' = [found |-> net'.found, hot |-> net'.hot, last |-> net'.last, hs |-> net'.hs, cl |-> net'.cl,
                       client |-> net'.client]
        BY <1>4, <3>2 DEF Nets
      <4>4. net'.hs \in [card : CardOrNone, up : BOOLEAN] /\ net'.hs.card = net.hs.card
        BY <1>4, <4>1, <4>3
      <4>5. ASSUME net.hs = NoProfile PROVE net'.hs = NoProfile
        <5>1. net'.hs = [NoProfile EXCEPT !.up = FALSE]
          BY <4>2, <4>3, <4>5
        <5> QED  BY <5>1 DEF NoProfile
      <4>6. net' \in Nets
        BY <1>4, <4>3, <4>4 DEF Nets
      <4> QED  BY <1>0, <4>3, <4>4, <4>5, <4>6 DEF NetFits
    <3> QED  BY <1>6, <3>1, <3>2
  <2>2. main' \notin Unused
    BY <1>4, <1>6 DEF Unused
  <2>3. RolesInv'
    BY <1>0, <1>3, <2>1, <2>2 DEF RolesInv
  <2> QED  BY <1>6, <2>3 DEF SettleInv
<1> QED  BY <1>5, <1>6 DEF nmcli, j

\* Main's steps, and the theorem.
LEMMA RolesMainStep == ASSUME CardsInv, RolesInv, SettleInv, Main \/ stop_communication PROVE RolesInv' /\ SettleInv'
<1>0. /\ set \in NetworkingSettings /\ NetFits(net) /\ JobsTyped(jobs, net.last) /\ calm \in BOOLEAN
      /\ None \in CardOrNone /\ None \notin wifi.mon /\ wifi.spare \in CardOrNone
  BY CardFacts DEF RolesInv, CardsInv, CardOrNone, Wifis
<1>1. CASE \/ create_telemetry \/ takeover_cards_monitor_mode \/ monitor_mode \/ create_link \/ create_video
           \/ stop_communication \/ destroy_video \/ destroy_telemetry
  <2>1. /\ UNCHANGED << unit, set, net, jobs, arm, par, calm >>
        /\ main' \in Unused => main \in Unused
        /\ unit.link = "wifi" /\ main' \in {"video", "run"} => main \in {"video", "run"}
    <3>1. CASE create_telemetry \/ create_link \/ create_video \/ stop_communication \/ destroy_video \/ destroy_telemetry
      BY <3>1 DEF create_telemetry, create_link, create_video, stop_communication, destroy_video,
         destroy_telemetry, MainStep, wifiVars, Unused
    <3>2. CASE takeover_cards_monitor_mode \/ monitor_mode
      BY <3>2 DEF takeover_cards_monitor_mode, monitor_mode, MainStep, Unused
    <3> QED  BY <1>1, <3>1, <3>2
  <2>2. wifi'.mon = wifi.mon /\ wifi'.spare = wifi.spare
    <3>1. CASE takeover_cards_monitor_mode \/ monitor_mode
      BY <3>1 DEF takeover_cards_monitor_mode, monitor_mode, nmcli_set_device_managed_status,
         iw_enable_monitor_mode, CardsInv, Wifis
    <3>2. CASE \/ create_telemetry \/ create_link \/ create_video \/ stop_communication \/ destroy_video
               \/ destroy_telemetry
      BY <3>2 DEF create_telemetry, create_link, create_video, stop_communication, destroy_video,
         destroy_telemetry, wifiVars
    <3> QED  BY <1>1, <3>1, <3>2
  <2> QED  BY <2>1, <2>2, SameRoles
<1>2. CASE main_discover_an_process_wifi_cards
  <2>1. CardsInv' /\ main' \in {"cards", "monitor"}
    BY <1>2, DiscoverStep
  <2>2. main = "cards" /\ UNCHANGED << set, net, jobs, arm, par >>
    BY <1>2 DEF main_discover_an_process_wifi_cards
  <2>3. net.hot.id = 0 /\ net.cl = None /\ net.hs = NoProfile
    BY <2>2 DEF RolesInv, Unused, NetFits
  <2>4. None \notin wifi'.mon
    BY <2>1, CardFacts DEF CardsInv, Wifis
  <2>5. NetFits(net)'
    BY <1>0, <2>2, <2>3, <2>4 DEF NetFits, NoProfile
  <2>6. RolesInv'
    BY <2>1, <2>2, <2>5 DEF RolesInv, Unused
  <2>7. SettleInv'
    BY <2>1 DEF SettleInv
  <2> QED  BY <2>6, <2>7
<1>3. CASE first_operating_mode
  <2>1. /\ main = "mode" /\ main' = "apply" /\ set' = use_local_network
        /\ UNCHANGED << wifi, net, jobs, arm, par >>
    BY <1>3 DEF first_operating_mode, MainStep
  <2>2. set' \in NetworkingSettings
    BY <1>0, <2>1 DEF use_local_network, NetworkingSettings, CardOrNone
  <2>3. NetFits(net)'
    BY <1>0, <2>1 DEF NetFits
  <2>4. RolesInv'
    BY <2>1, <2>2, <2>3 DEF RolesInv, Unused
  <2>5. SettleInv'
    BY <2>1 DEF SettleInv
  <2> QED  BY <2>4, <2>5
<1>4. CASE created
  <2>1. main = "apply" /\ main' = "video" /\ UNCHANGED << unit, wifi, set, arm, par >>
    BY <1>4 DEF created, MainStep
  <2>2. /\ net.hot.id = 0 /\ net.cl = None /\ jobs = << >> /\ par = None /\ arm.cb = None
    BY <2>1 DEF RolesInv, Unused
  <2>3. JobsFit(net, jobs)
    <3>1. /\ Len(jobs) = 0 /\ net.hot.enabled = FALSE /\ net.hs.up = FALSE /\ net.hs.card = net.hot.card
      BY <1>0, <2>2 DEF NetFits, NoHotspot, NoProfile
    <3>2. Len(jobs) <= 1 /\ 1 .. Len(jobs) = {}
      BY <3>1
    <3> QED  BY <3>1, <3>2, Zenon DEF JobsFit
  <2>4. PICK answered \in BOOLEAN, connects \in BOOLEAN : apply_wifi_operating_mode(answered, connects)
    BY <1>4 DEF created
  <2>5. /\ NetFits(net') /\ JobsTyped(jobs, net.last)' /\ net'.last >= net.last
        /\ set.mode = "client" => net'.hot.id = 0
        /\ set.mode = "hotspot" => net'.cl = None
        /\ net'.hot.id # 0 <=> Present(net')
        /\ net'.hot.id # 0 => net'.hot.card = HotspotCard /\ net'.hot.enabled = Wants
        /\ calm' => JobsFit(net, jobs)'
    BY <1>0, <2>2, <2>3, <2>4, Applied
  <2>6. NetFits(net)'
    BY <2>1, <2>5 DEF NetFits
  <2>7. RolesInv'
    BY <1>0, <2>1, <2>2, <2>5, <2>6 DEF RolesInv, Unused, None
  <2>8. HotspotCard' = HotspotCard /\ Wants' = Wants /\ Present(net)' = Present(net')
    BY <2>1 DEF HotspotCard, Wants, Present, get_configured_hotspot_card, Usable, is_monitor_mode_card
  <2>9. SettleInv'
    BY <2>1, <2>2, <2>5, <2>8 DEF SettleInv, None
  <2> QED  BY <2>7, <2>9
<1>5. CASE destroy_interface
  <2>1. /\ main = "leave" /\ main' = "off" /\ UNCHANGED << unit, set, jobs, arm, par >>
        /\ net' = destroy_hotspot(stop_wifi_client(net)) /\ wifi'.mon = wifi.mon
    BY <1>5 DEF destroy_interface, MainStep, giveback_cards_monitor_mode, nmcli_set_device_managed_status,
       CardsInv, Wifis
  <2> DEFINE e == stop_wifi_client(net)
  <2>2. NetFits(e) /\ e.cl = None /\ e.last = net.last
    BY <1>0, Stopped
  <2>3. net' = destroy_hotspot(e)
    BY <2>1
  <2> HIDE DEF e
  <2>4. NetFits(net') /\ net'.hot = NoHotspot /\ net'.cl = None /\ net'.last = net.last
    BY <2>2, <2>3, Destroyed
  <2>5. NetFits(net)'
    BY <2>1, <2>4 DEF NetFits
  <2>6. JobsTyped(jobs, net.last)'
    BY <1>0, <2>1, <2>4 DEF JobsTyped
  <2>7. RolesInv'
    BY <2>1, <2>4, <2>5, <2>6 DEF RolesInv, Unused, NoHotspot
  <2>8. SettleInv'
    BY <2>1 DEF SettleInv
  <2> QED  BY <2>7, <2>8
<1> QED  BY <1>1, <1>2, <1>3, <1>4, <1>5 DEF Main

LEMMA RolesStep ==
  ASSUME CardsInv, RolesInv, SettleInv, [InterfaceNext]_interfaceVars
  PROVE  RolesInv' /\ SettleInv'
<1>1. ASSUME UNCHANGED << unit, set, net, jobs, arm, par >>, wifi'.mon = wifi.mon, wifi'.spare = wifi.spare,
             calm' => calm, main' \in {main, "dead"}
      PROVE  RolesInv' /\ SettleInv'
  BY <1>1, SameRoles DEF Unused
<1>2. CASE Main \/ stop_communication
  BY <1>2, RolesMainStep
<1>3. CASE Parameter
  BY <1>3, ParameterStep DEF Parameter
<1>4. CASE Arming \/ update_arming_state
  BY <1>4, ArmingStep DEF Arming
<1>5. CASE Commands
  BY <1>5, CommandStep DEF Commands
<1>6. CASE set_parameter
  BY <1>6, SetStep
<1>7. CASE Control \/ link_worker \/ control_request
  BY <1>1, <1>7 DEF Control, apply_link_control, link_worker, control_request
<1>8. CASE card_event
  <2>1. wifi'.mon = wifi.mon /\ wifi'.spare = wifi.spare
    BY <1>8 DEF card_event, CardsInv, Wifis
  <2>2. calm' => calm
    BY <1>8 DEF card_event
  <2> QED  BY <1>1, <1>8, <2>1, <2>2 DEF card_event
<1>9. CASE Usb \/ Ethernet \/ (\E c \in Clients : Client(c)) \/ (DeviceEvents /\ UNCHANGED wifiVars)
  BY <1>1, <1>9 DEF Usb, usb_find, usb_connect, usb_watch, Ethernet, eth_loop, eth_wait, eth_connect, eth_watch,
     Client, loop_accept, loop_rx, DeviceEvents, usb_event, eth_event, accept, client_leaves, wifiVars
<1>10. CASE UNCHANGED interfaceVars
  BY <1>1, <1>10 DEF interfaceVars
<1> QED  BY <1>2, <1>3, <1>4, <1>5, <1>6, <1>7, <1>8, <1>9, <1>10 DEF InterfaceNext

LEMMA RolesMeant == CardsInv /\ RolesInv /\ SettleInv => RolesSettle
<1> SUFFICES ASSUME CardsInv, RolesInv, SettleInv PROVE RolesSettle
  OBVIOUS
<1>1. HotspotSettles
  <2> SUFFICES ASSUME main \in {"video", "run"}, unit.link = "wifi", calm, jobs = << >>, par = None, arm.cb = None
               PROVE  net.hs.up <=> HotspotWanted
    BY DEF HotspotSettles
  <2>1. /\ JobsFit(net, jobs) /\ (net.hot.id # 0 <=> Present(net))
        /\ net.hot.id # 0 => net.hot.enabled = Wants
    BY CardFacts DEF SettleInv
  <2>2. net.hs.up = net.hot.enabled
    BY <2>1 DEF JobsFit
  <2>3. net.hot.id = 0 => net.hs.up = FALSE
    BY DEF RolesInv, NetFits, NoProfile
  <2>4. HotspotWanted <=> Present(net) /\ Wants
    BY DEF HotspotWanted, Present, Wants
  <2> QED  BY <2>1, <2>2, <2>3, <2>4
<1>2. RolesApart
  <2>1. net.hot.id = 0 => net.hs = NoProfile /\ net.hs.up = FALSE
    BY DEF RolesInv, NetFits, NoProfile
  <2> QED  BY <2>1, CardFacts DEF RolesApart, RolesInv, NetFits
<1>3. CardsGivenBack
  BY DEF CardsGivenBack, CardsInv
<1> QED  BY <1>1, <1>2, <1>3 DEF RolesSettle

\* The hotspot, the client and monitor mode never share a card or exist against the
\* settings, and the cards are given back, whatever threads and commands overlap;
\* when none have, the hotspot is up exactly if it is wanted
\* (apply_wifi_operating_mode, takeover_cards_monitor_mode, giveback_cards_monitor_mode).
THEOREM RolesRight == InterfaceSpec => []RolesSettle
<1> DEFINE Inv == CardsInv /\ RolesInv /\ SettleInv
<1>1. InterfaceInit => Inv
  BY CardsInit, RolesInit
<1>2. Inv /\ [InterfaceNext]_interfaceVars => Inv'
  BY CardsStep, RolesStep
<1>3. Inv => RolesSettle
  BY RolesMeant
<1> HIDE DEF Inv
<1> QED  BY <1>1, <1>2, <1>3, PTL DEF InterfaceSpec

(***************************************************************************)
(* The settings file.                                                      *)
(***************************************************************************)

Pcs == {"idle", "changed", "serialized", "opened"}

Types ==
  /\ settings \in Struct
  /\ file \in Struct \cup {NoFile, Broken}
  /\ running \in BOOLEAN
  /\ pc \in [All -> Pcs]
  /\ field \in [All -> Fields \cup {Nothing}]
  /\ content \in [All -> Struct]
  /\ saved \in Struct
  /\ unsaved \subseteq Fields
  /\ alone \in BOOLEAN /\ clean \in BOOLEAN

Counters ==
  /\ changes \in 0 .. MaxChanges /\ reboots \in 0 .. MaxReboots /\ failures \in 0 .. MaxFailures

\* A program that does not run has no thread in persist.
OffIsIdle == ~running => Idle

\* While a persist is alone no other is under way, ...
AloneIsOne == alone => \A t, u \in All : pc[t] # "idle" /\ pc[u] # "idle" => t = u

\* ... what it has serialized are still the settings in use, ...
AloneIsCurrent ==
  alone => \A t \in All : pc[t] \in {"serialized", "opened"} => content[t] = settings

\* ... and nobody has written to the file since it was truncated.
AloneIsEmpty == alone => \A t \in All : pc[t] = "opened" => file = Broken

\* A complete file whose last writer met no other has what was last written
\* out of every field that has not been changed since.
CleanFile == clean /\ readable => \A f \in Fields \ unsaved : file[f] = saved[f]

IndInv ==
  /\ Types
  /\ OffIsIdle /\ AloneIsOne /\ AloneIsCurrent /\ AloneIsEmpty
  /\ CleanPersistRepairs /\ CleanFile

-----------------------------------------------------------------------------
\* The defaults are a struct, init is one of the threads.
LEMMA ConstantFacts == create_default \in Struct /\ "init" \in All
  BY ConstAssumption DEF create_default, Struct, All

\* Before the program's first start.
LEMMA InitInv == Init => IndInv
  BY ConstantFacts, FileAssumption
     DEF Init, IndInv, Types, Pcs, OffIsIdle, Idle, AloneIsOne, AloneIsCurrent, AloneIsEmpty,
         CleanPersistRepairs, Booted, CleanFile, readable

\* Reading the file, or creating the defaults (init).
LEMMA InitStep == ASSUME IndInv, init PROVE IndInv'
<1> USE DEF IndInv, Types, OffIsIdle, Idle, AloneIsOne, AloneIsCurrent, AloneIsEmpty,
        CleanPersistRepairs, Booted, CleanFile, readable, init, init_settings, init_defaults
<1>1. CASE readable
  <2>1. settings' = file /\ file \in Struct /\ pc' = pc
    BY <1>1
  <2>2. \A t \in All : pc[t] = "idle"
    OBVIOUS
  <2>3. \A f \in Fields : file'[f] = saved'[f]
    BY <2>1
  <2> QED BY <2>1, <2>2, <2>3
<1>2. CASE ~readable
  <2>1. settings' = create_default /\ pc' = [pc EXCEPT !["init"] = "changed"]
    BY <1>2
  <2>2. \A t \in All : pc[t] = "idle"
    OBVIOUS
  <2>3. pc' \in [All -> Pcs] /\ \A t \in All : pc'[t] = IF t = "init" THEN "changed" ELSE "idle"
    BY <2>1, <2>2, ConstantFacts DEF Pcs
  <2>4. ~readable'
    BY <1>2
  <2> QED BY <2>1, <2>3, <2>4, ConstantFacts
<1> QED BY <1>1, <1>2

\* A thread changes a field: it is alone if no other is in persist (change).
LEMMA ChangeStep ==
  ASSUME IndInv, NEW t \in Threads, NEW f \in Fields, NEW v \in Values, change(t, f, v)
  PROVE  IndInv'
<1> USE DEF IndInv, Types
<1>1. /\ t \in All /\ pc[t] = "idle"
      /\ pc' \in [All -> Pcs]
      /\ pc'[t] = "changed" /\ \A u \in All \ {t} : pc'[u] = pc[u]
  BY DEF change, All, Pcs
<1>2. settings' \in Struct
  BY DEF change, Struct
<1>3. Types'
  BY <1>1, <1>2 DEF change, Idle
<1>4. ~Idle'
  BY <1>1 DEF Idle
<1>5. running'
  BY DEF change, Booted
<1>6. alone' => \A u \in All \ {t} : pc'[u] = "idle"
  BY <1>1 DEF change, Idle
<1>7. AloneIsOne' /\ AloneIsCurrent' /\ AloneIsEmpty'
  BY <1>1, <1>6 DEF AloneIsOne, AloneIsCurrent, AloneIsEmpty
<1>8. CleanFile'
  BY DEF CleanFile, change, readable
<1> QED BY <1>3, <1>4, <1>5, <1>7, <1>8 DEF OffIsIdle, CleanPersistRepairs

\* The struct is serialized (persist_settings).
LEMMA SerializeStep == ASSUME IndInv, NEW t \in All, serialize(t) PROVE IndInv'
<1> USE DEF IndInv, Types
<1>1. /\ pc[t] = "changed"
      /\ pc' \in [All -> Pcs]
      /\ pc'[t] = "serialized" /\ \A u \in All \ {t} : pc'[u] = pc[u]
  BY DEF serialize, Pcs
<1>2. content' \in [All -> Struct] /\ content'[t] = settings
        /\ \A u \in All \ {t} : content'[u] = content[u]
  BY DEF serialize
<1>3. UNCHANGED <<settings, file, running, field, saved, unsaved, alone, clean>>
  BY DEF serialize
<1>4. Types'
  BY <1>1, <1>2, <1>3
<1>5. ~Idle /\ ~Idle'
  BY <1>1 DEF Idle
<1>6. OffIsIdle' /\ CleanPersistRepairs'
  BY <1>3, <1>5 DEF OffIsIdle, CleanPersistRepairs
<1>7. AloneIsOne' /\ AloneIsCurrent' /\ AloneIsEmpty'
  BY <1>1, <1>2, <1>3 DEF AloneIsOne, AloneIsCurrent, AloneIsEmpty
<1>8. CleanFile'
  BY <1>3 DEF CleanFile, readable
<1> QED BY <1>4, <1>6, <1>7, <1>8

\* The file is truncated (write_file).
LEMMA OpenStep == ASSUME IndInv, NEW t \in All, open(t) PROVE IndInv'
<1> USE DEF IndInv, Types
<1>1. /\ pc[t] = "serialized"
      /\ pc' \in [All -> Pcs]
      /\ pc'[t] = "opened" /\ \A u \in All \ {t} : pc'[u] = pc[u]
  BY DEF open, Pcs
<1>2. file' = Broken /\ UNCHANGED <<settings, running, field, content, saved, unsaved, alone, clean>>
  BY DEF open
<1>3. Types'
  BY <1>1, <1>2
<1>4. ~Idle /\ ~Idle'
  BY <1>1 DEF Idle
<1>5. OffIsIdle' /\ CleanPersistRepairs'
  BY <1>2, <1>4 DEF OffIsIdle, CleanPersistRepairs
<1>6. AloneIsOne' /\ AloneIsCurrent' /\ AloneIsEmpty'
  BY <1>1, <1>2 DEF AloneIsOne, AloneIsCurrent, AloneIsEmpty
<1>7. CleanFile'
  BY <1>2 DEF CleanFile, readable
<1> QED BY <1>3, <1>5, <1>6, <1>7

\* The text is written; if the persist was alone it is that of the settings
\* in use, and complete (write_file).
LEMMA WriteStep == ASSUME IndInv, NEW t \in All, write(t) PROVE IndInv'
<1> USE DEF IndInv, Types
<1>1. /\ pc[t] = "opened"
      /\ pc' \in [All -> Pcs]
      /\ pc'[t] = "idle" /\ \A u \in All \ {t} : pc'[u] = pc[u]
  BY DEF write, Return, Pcs
<1>2. file' \in {content[t], Broken}
  BY DEF write, Written
<1>3. UNCHANGED <<settings, running, content, alone>> /\ clean' = alone
  BY DEF write
<1>4. field' \in [All -> Fields \cup {Nothing}]
  BY DEF write, Return
<1>5. saved' \in Struct /\ unsaved' \subseteq Fields
  BY DEF write, Struct
<1>6. Types'
  BY <1>1, <1>2, <1>3, <1>4, <1>5
<1>7. OffIsIdle'
  BY <1>1, <1>3 DEF OffIsIdle, Idle
<1>8. CASE ~alone
  BY <1>3, <1>6, <1>7, <1>8
     DEF AloneIsOne, AloneIsCurrent, AloneIsEmpty, CleanPersistRepairs, CleanFile
<1>9. CASE alone
  <2>1. \A u \in All : pc'[u] = "idle"
    BY <1>1, <1>9 DEF AloneIsOne
  <2>2. content[t] = settings /\ file = Broken
    BY <1>1, <1>9 DEF AloneIsCurrent, AloneIsEmpty
  <2>3. file' = content[t]
    BY <2>2 DEF write, Written
  <2>4. AloneIsOne' /\ AloneIsCurrent' /\ AloneIsEmpty'
    BY <2>1 DEF AloneIsOne, AloneIsCurrent, AloneIsEmpty
  <2>5. CleanPersistRepairs'
    BY <1>3, <2>2, <2>3 DEF CleanPersistRepairs
  <2>6. \A f \in Fields : saved'[f] = content[t][f]
    BY <1>9 DEF write
  <2>7. CleanFile'
    BY <2>3, <2>6 DEF CleanFile
  <2> QED BY <1>6, <1>7, <2>4, <2>5, <2>7
<1> QED BY <1>8, <1>9

\* The file system refuses (write_file).
LEMMA CannotWriteStep == ASSUME IndInv, NEW t \in All, cannot_write(t) PROVE IndInv'
<1> USE DEF IndInv, Types
<1>1. /\ pc' \in [All -> Pcs]
      /\ pc'[t] = "idle" /\ \A u \in All \ {t} : pc'[u] = pc[u]
  BY DEF cannot_write, Return, Pcs
<1>2. UNCHANGED <<settings, file, running, content, saved, unsaved, alone>> /\ clean' = FALSE
  BY DEF cannot_write
<1>3. field' \in [All -> Fields \cup {Nothing}]
  BY DEF cannot_write, Return
<1>4. Types'
  BY <1>1, <1>2, <1>3
<1>5. OffIsIdle' /\ AloneIsOne' /\ AloneIsCurrent' /\ AloneIsEmpty'
  BY <1>1, <1>2 DEF OffIsIdle, Idle, AloneIsOne, AloneIsCurrent, AloneIsEmpty
<1> QED BY <1>2, <1>4, <1>5 DEF CleanPersistRepairs, CleanFile

\* The program ends.
LEMMA RebootStep == ASSUME IndInv, reboot PROVE IndInv'
<1> USE DEF IndInv, Types
<1>1. pc' \in [All -> Pcs] /\ \A u \in All : pc'[u] = "idle"
  BY DEF reboot, Pcs
<1>2. field' \in [All -> Fields \cup {Nothing}]
  BY DEF reboot
<1>3. UNCHANGED <<settings, file, content, saved, unsaved, alone, clean>> /\ running' = FALSE
  BY DEF reboot
<1>4. Types'
  BY <1>1, <1>2, <1>3
<1>5. OffIsIdle' /\ AloneIsOne' /\ AloneIsCurrent' /\ AloneIsEmpty' /\ CleanPersistRepairs'
  BY <1>1, <1>3 DEF OffIsIdle, Idle, AloneIsOne, AloneIsCurrent, AloneIsEmpty,
     CleanPersistRepairs, Booted
<1>6. CleanFile'
  BY <1>3 DEF CleanFile, readable
<1> QED BY <1>4, <1>5, <1>6

\* Every step, and stuttering, keeps the invariant.
LEMMA NextInv == IndInv /\ [Next]_vars => IndInv'
<1> SUFFICES ASSUME IndInv, [Next]_vars PROVE IndInv'
  OBVIOUS
<1>1. CASE Next
  BY <1>1, InitStep, ChangeStep, SerializeStep, OpenStep, WriteStep, CannotWriteStep, RebootStep
     DEF Next, persist
<1>2. CASE UNCHANGED vars
  BY <1>2 DEF IndInv, Types, OffIsIdle, Idle, AloneIsOne, AloneIsCurrent, AloneIsEmpty,
     CleanPersistRepairs, Booted, CleanFile, readable, vars
<1> QED BY <1>1, <1>2

\* The inductive invariant holds in every reachable state.
THEOREM Invariance == Spec => []IndInv
  BY InitInv, NextInv, PTL DEF Spec

\* The bounded counters stay within their bounds.
LEMMA CountersBounded == Spec => []Counters
<1>1. Init => Counters
  BY BoundAssumption DEF Init, Counters
<1>2. Counters /\ [Next]_vars => Counters'
  BY BoundAssumption DEF Counters, Next, persist, init, change, serialize, open, write,
     cannot_write, reboot, vars
<1> QED BY <1>1, <1>2, PTL DEF Spec

\* Type correctness: init never takes a broken file for settings
\* (read_last_settings, impl_deserialize).
THEOREM TypeCorrect == Spec => []TypeOK
<1>1. IndInv /\ Counters => TypeOK
  BY DEF IndInv, Types, Pcs, Counters, TypeOK
<1> QED BY <1>1, Invariance, CountersBounded, PTL

\* After a persist that met no other and no failure the file holds the
\* settings in use, whatever was in it before (persist_settings, init).
THEOREM CleanPersistCompletes == Spec => []CleanPersistRepairs
<1>1. IndInv => CleanPersistRepairs
  BY DEF IndInv
<1> QED BY <1>1, Invariance, PTL

\* A restart from a complete file of such a persist brings back what was last
\* written out of every field that was not being changed (init).
THEOREM RestartIsFaithful == Spec => RestartRestores
<1>1. IndInv /\ [Next]_vars => [init /\ readable /\ clean => Restored]_vars
  <2> SUFFICES ASSUME IndInv, init, readable, clean PROVE Restored
    OBVIOUS
  <2>1. settings' = file
    BY DEF init, init_settings
  <2> QED BY <2>1 DEF IndInv, CleanFile, Restored
<1> QED BY <1>1, Invariance, PTL DEF Spec, RestartRestores
=============================================================================
