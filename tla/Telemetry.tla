----------------------------- MODULE Telemetry -----------------------------
(***************************************************************************)
(* The routing of mavlink messages through an air and a ground unit        *)
(* (AirTelemetry, GroundTelemetry), their links and their threads.         *)
(*                                                                         *)
(* A thread reads an endpoint and runs the handler of what it read:        *)
(*   wb       the wifibroadcast link, both units                           *)
(*   ohd      the "OpenHD UART", both units                                *)
(*   fc       air: the UART of the flight controller                       *)
(*   tcp      air: the TCP server;  net: ground: UDP and TCP clients       *)
(*   tracker  ground: the antenna tracker's UART                           *)
(*   joy      ground: RcJoystickSender;  loop: loop_infinite, both units   *)
(* A handler forwards the message, then takes m_components_lock and gives  *)
(* it to the components. A parameter callback runs inside: it may stop a   *)
(* serial endpoint, which joins its thread while both m_components_lock    *)
(* and the mutex of the SerialEndpointManager are held.                    *)
(*                                                                         *)
(* The wb link is external: it may lose a copy of an injected message, and *)
(* gives each message once. Every message is a different one.              *)
(***************************************************************************)
EXTENDS Integers, FiniteSets

CONSTANTS
  Loads,        \* sets of messages that enter the system together, each message once
  Start,        \* [unit -> endpoints that are configured at the start]
  Wires,        \* whether the two OpenHD UARTs are wired together: {TRUE, FALSE}
  Lossy,        \* units that may miss injections of the wb link
  MaxLosses,    \* injections of the wb link that are lost at most
  Faulty,       \* << unit, serial >> whose device may disappear
  MaxUnplugs    \* how often that happens

VARIABLES
  wired,     \* the OpenHD UART of the air unit is connected to the ground's
  unsent,    \* messages their source has not sent yet
  made,      \* messages that exist
  io,        \* wb: message and copies under way to a unit; wire: messages on its
             \* OpenHD UART; got: deliveries; twice: those made a second time
  seen,      \* m_uart_deduplicator.m_recent_messages of each unit
  holder,    \* m_components_lock of each unit
  port,      \* endpoint of each unit: none, closed (no fd), open
  pc,        \* where each thread is
  fcid,      \* m_configured_fc_sys_id is the id of the flight controller
  joy,       \* RcJoystickSender exists
  crashed, losses, unplugs

vars == << wired, unsent, made, io, seen, holder, port, pc, fcid, joy, crashed,
           losses, unplugs >>

Units == {"air", "gnd"}
Other(u) == IF u = "air" THEN "gnd" ELSE "air"
Serials(u) == IF u = "air" THEN {"fc", "ohd"} ELSE {"tracker", "ohd"}
Threads == {<< "air", n >> : n \in {"wb", "ohd", "fc", "tcp"}}
             \cup {<< "gnd", n >> : n \in {"wb", "ohd", "net", "tracker", "joy"}}
Loops == {<< u, "loop" >> : u \in Units}
Consumers == {"gcs", "tcp", "tracker", "fc", "air", "gnd", "armAir", "armGnd"}

\* A message: its source, its kind, its target system ("none": broadcast) and, for a
\* parameter, what is set. A reply names its request in "re".
Msg(from, kind, to, what) == 
  [from |-> from, kind |-> kind, to |-> to, what |-> what, re |-> {}]
Reply(u, m) == [Msg(u, "reply", "none", "none") EXCEPT !.re = {m}]

\* get_target_from_message_if_available: only these kinds carry a target.
HasTarget(m) == m.kind \in {"set", "command", "scan"} /\ m.to /= "none"
\* split_into_generic_and_local_only
LocalTo(m, u) == HasTarget(m) /\ m.to = u

\* The parameters of a unit: get_all_settings of GroundTelemetry and AirTelemetry.
AirSerialParam == {"fc", "ohd"}
GroundSerialParam == {"tracker", "ohd"}
SerialParam(u) == IF u = "air" THEN AirSerialParam ELSE GroundSerialParam
FcSysIdParam(u) == {"fc_sys_id"}
JoystickParam(u) == IF u = "gnd" THEN {"joy_on", "joy_off"} ELSE {}

\* handle_timesync_message: any unit answers any request.
TimesyncReplies(m, u) == IF m.kind = "timesync" THEN {Reply(u, m)} ELSE {}

\* process_command_self and the parameter provider: only the ground unit scans.
SelfReplies(m, u) ==
  IF LocalTo(m, u) /\ (m.kind \in {"set", "command"} \/ (m.kind = "scan" /\ u = "gnd"))
  THEN {Reply(u, m)} ELSE {}

\* process_mavlink_messages of the components: the reply of unit u to m.
Replies(m, u) == SelfReplies(m, u) \cup TimesyncReplies(m, u)

Traffic == UNION Loads

\* What enters is no reply, and what carries a target comes from outside the two units
\* and their flight controller.
ASSUME TrafficAssumption ==
  /\ Wires \subseteq BOOLEAN
  /\ \A m \in Traffic : m.re = {} /\ (HasTarget(m) => m.from \notin {"fc", "air", "gnd", "joy"})

Messages == Traffic \cup UNION {Replies(m, u) : m \in Traffic, u \in Units}

\* Which unit must have been given what before a reply exists.
Cause(r) == {<< r.from, m >> : m \in r.re}

\* Mutant: only a heartbeat is sent once.
MutRequestInjections(m) == IF m.kind = "heartbeat" THEN 1 ELSE 2

\* recommended_n_injections
RequestInjections(m) == IF m.kind \in {"set", "command", "scan"} THEN 4
                        ELSE IF m.kind = "heartbeat" THEN 1 ELSE 2
ReplyInjections(m) == IF \E q \in m.re : q.kind = "set" THEN 2 ELSE 1

Give(s, c, m) ==
  IF << c, m >> \in s.got THEN [s EXCEPT !.twice = @ \cup {<< c, m >>}]
  ELSE [s EXCEPT !.got = @ \cup {<< c, m >>}]
GiveIf(cond, s, c, m) == IF cond THEN Give(s, c, m) ELSE s

\* SerialEndpointManager::send_messages_if_enabled; without an fd the data is dropped.
ToUart(u, s, m) ==
  IF wired /\ port[u].ohd = "open" THEN [s EXCEPT !.wire[Other(u)] = @ \cup {m}] ELSE s

ToWb(u, s, m, n) ==
  [s EXCEPT !.wb[u] = {e \in @ : e[1] /= m} \cup (IF n = 0 THEN {} ELSE {<< m, n >>})]

\* send_messages_ground_unit
ToGround(s, m) == ToUart("air", Give(ToWb("gnd", s, m, ReplyInjections(m)), "tcp", m), m)
\* send_messages_ground_station_clients
ToClients(s, m) == ToUart("gnd", Give(s, "gcs", m), m)
\* send_messages_tracker
ToTracker(s, m) == GiveIf(port["gnd"].tracker = "open", s, "tracker", m)
\* send_messages_fc
ToFc(s, m) == GiveIf(~LocalTo(m, "air") /\ port["air"].fc = "open", s, "fc", m)

\* check_fc_messages_for_actions: the arming state follows the FC's heartbeat.
ActOn(u, s, m) == GiveIf(m.from = "fc" /\ m.kind = "heartbeat" /\ fcid[u], s,
                         IF u = "air" THEN "armAir" ELSE "armGnd", m)

Idle == [at |-> "idle", msg |-> {}, join |-> "none"]
At(t, place, m) == [at |-> place, msg |-> {m}, join |-> "none"]

\* A manager's mutex is taken for as long as its endpoint is being replaced.
Free(u, s) == \A t \in Threads : t[1] = u /\ pc[t].at \in {"join", "register"} => pc[t].join /= s

Init ==
  /\ wired \in Wires
  /\ unsent \in Loads /\ made = {}
  /\ io = [wb |-> [u \in Units |-> {}], wire |-> [u \in Units |-> {}], got |-> {}, twice |-> {}]
  /\ seen = [u \in Units |-> {}]
  /\ holder = [u \in Units |-> {}]
  /\ port = [u \in Units |-> [s \in Serials(u) |-> IF s \in Start[u] THEN "open" ELSE "none"]]
  /\ pc = [t \in Threads |-> Idle]
  /\ fcid = [u \in Units |-> TRUE]
  /\ joy = ("joy" \in Start["gnd"])
  /\ crashed = FALSE /\ losses = 0 /\ unplugs = 0

---------------------------------------------------------------------------
(* Reading an endpoint.                                                    *)

\* Mutant: nothing is taken for a copy.
MutFresh(u, m) == TRUE

\* UartDeduplicator::filter_and_mark. Nothing is forgotten: a copy that is under way
\* for longer than the window of 1.5 s is not modelled.
Fresh(u, m) == m \notin seen[u]
Mark(u, m) == seen' = [seen EXCEPT ![u] = @ \cup {m}]

Read(t, m) == pc' = [pc EXCEPT ![t] = At(t, "forward", m)]

\* wb endpoint -> parseNewData -> callback with deduplication
wb_receive(u) ==
  LET t == << u, "wb" >> IN
  /\ pc[t].at = "idle"
  /\ \E m \in {e[1] : e \in io.wb[u]} :
       /\ io' = ToWb(u, io, m, 0)
       /\ Mark(u, m)
       /\ IF Fresh(u, m) THEN Read(t, m) ELSE UNCHANGED pc
  /\ UNCHANGED << wired, unsent, made, holder, port, fcid, joy, crashed, losses, unplugs >>

\* receive_data_until_error of the OpenHD UART; a message read before
\* registerCallback has run is dropped.
uart_receive(u) ==
  LET t == << u, "ohd" >> IN
  /\ pc[t].at = "idle" /\ port[u].ohd = "open"
  /\ \E m \in io.wire[u] :
       /\ io' = [io EXCEPT !.wire[u] = @ \ {m}]
       /\ IF Fresh(u, m) /\ \A o \in Threads : ~(o[1] = u /\ pc[o].at = "register" /\ pc[o].join = "ohd")
          THEN Mark(u, m) /\ Read(t, m)
          ELSE UNCHANGED << seen, pc >>
  /\ UNCHANGED << wired, unsent, made, holder, port, fcid, joy, crashed, losses, unplugs >>

\* The sources outside: flight controller, ground control station, TCP client of the
\* air unit, device at the tracker's UART, joystick.
SourceOf(t) == IF t[2] = "net" THEN "gcs" ELSE t[2]
Connected(t) == /\ t[2] \in Serials(t[1]) => port[t[1]][t[2]] = "open"
                /\ t[2] = "joy" => joy

outside_receive(t) ==
  /\ t[2] \in {"fc", "net", "tcp", "tracker", "joy"}
  /\ pc[t].at = "idle" /\ Connected(t)
  /\ \E m \in unsent :
       /\ m.from = SourceOf(t)
       /\ unsent' = unsent \ {m} /\ made' = made \cup {m}
       /\ IF t[2] \in Serials(t[1]) /\ \E o \in Threads : o[1] = t[1] /\ pc[o].at = "register" /\ pc[o].join = t[2]
          THEN UNCHANGED pc ELSE Read(t, m)
  /\ UNCHANGED << wired, io, seen, holder, port, fcid, joy, crashed, losses, unplugs >>

---------------------------------------------------------------------------
(* The first half of a handler: forwarding, without m_components_lock.     *)

forward(t, from, free, s, next) ==
  /\ pc[t].at = "forward"
  /\ from
  /\ \A p \in free : Free(t[1], p)
  /\ io' = s
  /\ pc' = [pc EXCEPT ![t] = next]
  /\ UNCHANGED << wired, unsent, made, seen, holder, port, fcid, joy, crashed, losses, unplugs >>

ThenComponents(t, m) == At(t, "process", m)

\* GroundTelemetry::on_messages_air_unit
on_messages_air_unit(t) ==
  \E m \in pc[t].msg :
    LET s == ToClients(io, m)
        r == IF m.from = "fc" /\ fcid["gnd"] THEN ToTracker(s, m) ELSE s
    IN forward(t, t = << "gnd", "wb" >>, {"ohd", "tracker"}, ActOn("gnd", r, m), Idle)

\* GroundTelemetry::on_messages_ground_station_clients (and on_messages_tracker)
on_messages_ground_station_clients(t) ==
  \E m \in pc[t].msg :
    forward(t, t[1] = "gnd" /\ t[2] \in {"net", "tracker", "ohd"}, {},
            IF LocalTo(m, "gnd") THEN io ELSE ToWb("air", io, m, RequestInjections(m)),
            ThenComponents(t, m))

\* AirTelemetry::on_messages_ground_unit
on_messages_ground_unit(t) ==
  \E m \in pc[t].msg :
    forward(t, t[1] = "air" /\ t[2] \in {"wb", "tcp", "ohd"}, {"fc"},
            IF m.kind = "heartbeat" /\ m.from = "gnd" THEN io ELSE ToFc(io, m),
            ThenComponents(t, m))

on_messages_fc(t) ==
  \E m \in pc[t].msg :
    forward(t, t = << "air", "fc" >>, {"ohd"}, ActOn("air", ToGround(io, m), m), Idle)

\* The joystick's callback sends the channels to the air unit and, as another message
\* with another sender, to the clients: two messages of this source, in any order.
joystick(t) ==
  \E m \in pc[t].msg :
    forward(t, t = << "gnd", "joy" >>, {"ohd"},
            IF m.what = "clients" THEN ToClients(io, m) ELSE ToWb("air", io, m, 1), Idle)

---------------------------------------------------------------------------
(* The second half: the components, under m_components_lock.               *)

Respond(u, s, replies) ==
  IF replies = {} THEN s
  ELSE LET r == CHOOSE x \in replies : TRUE
       IN IF u = "air" THEN ToGround(s, r) ELSE ToTracker(ToClients(s, r), r)

\* What a set does: nothing to join, or the thread of an endpoint.
Joins(u, m) == IF ~(LocalTo(m, u) /\ m.kind = "set") THEN {}
               ELSE (SerialParam(u) \cap {m.what}) \cup (IF u = "gnd" /\ m.what = "joy_off" /\ joy
                                                         THEN {"joy"} ELSE {})

process(t) ==
  LET u == t[1] IN
  /\ pc[t].at = "process" /\ holder[u] = {}
  /\ \E m \in pc[t].msg :
       /\ Joins(u, m) = {}
       /\ io' = Respond(u, Give(io, u, m), Replies(m, u))
       /\ made' = made \cup Replies(m, u)
       /\ fcid' = IF LocalTo(m, u) /\ m.kind = "set" /\ m.what \in FcSysIdParam(u)
                  THEN [fcid EXCEPT ![u] = ~@] ELSE fcid
       /\ joy' = (joy \/ (LocalTo(m, u) /\ m.what = "joy_on" /\ m.what \in JoystickParam(u)))
  /\ pc' = [pc EXCEPT ![t] = Idle]
  /\ UNCHANGED << wired, unsent, seen, holder, port, crashed, losses, unplugs >>

\* A parameter callback calls setup_uart, setup_openhd_uart_telemetry or disable_joystick:
\* the lock stays taken, and the manager's mutex with it.
process_begin(t) ==
  LET u == t[1] IN
  /\ pc[t].at = "process" /\ holder[u] = {}
  /\ \E m \in pc[t].msg : \E s \in Joins(u, m) :
       /\ holder' = [holder EXCEPT ![u] = {t}]
       /\ pc' = [pc EXCEPT ![t] = [@ EXCEPT !.at = "join", !.join = s]]
       /\ io' = Give(io, u, m)
  /\ UNCHANGED << wired, unsent, made, seen, port, fcid, joy, crashed, losses, unplugs >>

\* SerialEndpoint::stop joins the receive thread: it must come back from its handler. A
\* thread that joins itself gets std::system_error, which nobody catches. The endpoint is
\* then created anew (configure) or not (disable); the joystick's sender is destroyed.
join(t) ==
  LET u == t[1]
      s == pc[t].join
  IN
  /\ pc[t].at = "join"
  /\ IF t = << u, s >>
     THEN crashed' = TRUE /\ UNCHANGED << pc, port, joy >>
     ELSE /\ pc[<< u, s >>].at = "idle"
          /\ IF s = "joy" THEN joy' = FALSE /\ UNCHANGED port
             ELSE /\ \E now \in {"none", "closed"} : port' = [port EXCEPT ![u][s] = now]
                  /\ UNCHANGED joy
          /\ pc' = [pc EXCEPT ![t].at = "register"]
          /\ UNCHANGED crashed
  /\ UNCHANGED << wired, unsent, made, io, seen, holder, fcid, losses, unplugs >>

\* registerCallback, the rest of the components, the reply, and both locks are released.
register(t) ==
  LET u == t[1] IN
  /\ pc[t].at = "register"
  /\ \E m \in pc[t].msg : /\ io' = Respond(u, io, Replies(m, u))
                          /\ made' = made \cup Replies(m, u)
  /\ holder' = [holder EXCEPT ![u] = {}]
  /\ pc' = [pc EXCEPT ![t] = Idle]
  /\ UNCHANGED << wired, unsent, seen, port, fcid, joy, crashed, losses, unplugs >>

\* generate_mavlink_messages of the components of unit u
Generated(u) == {m \in unsent : m.from = u}

AirTurn(m) == ToGround(io, m)

\* Messages of the ground unit's own components are not for the air unit, but for the
\* timesync.
GroundTurn(m) ==
  LET s == ToTracker(ToClients(io, m), m)
  IN  IF m.kind = "timesync" THEN ToWb("air", s, m, 1) ELSE s

\* One turn of loop_infinite in which a component generates something.
loop_infinite(u) ==
  /\ holder[u] = {}
  /\ \E m \in Generated(u) :
       /\ unsent' = unsent \ {m} /\ made' = made \cup {m}
       /\ io' = IF u = "air" THEN AirTurn(m) ELSE GroundTurn(m)
  /\ UNCHANGED << wired, seen, holder, port, pc, fcid, joy, crashed, losses, unplugs >>

---------------------------------------------------------------------------
(* The endpoints' surroundings.                                            *)

lose(u) ==
  /\ u \in Lossy /\ losses < MaxLosses /\ losses' = losses + 1
  /\ \E e \in io.wb[u] : io' = ToWb(u, io, e[1], e[2] - 1)
  /\ UNCHANGED << wired, unsent, made, seen, holder, port, pc, fcid, joy, crashed, unplugs >>

\* The device vanishes (is_serial_fd_still_connected) and the thread closes the fd.
unplug(u, s) ==
  /\ << u, s >> \in Faulty /\ unplugs < MaxUnplugs /\ unplugs' = unplugs + 1
  /\ port[u][s] = "open" /\ pc[<< u, s >>].at = "idle"
  /\ port' = [port EXCEPT ![u][s] = "closed"]
  /\ UNCHANGED << wired, unsent, made, io, seen, holder, pc, fcid, joy, crashed, losses >>

\* connect_and_read_loop: the device exists and setup_port succeeds.
connect(u, s) ==
  /\ port[u][s] = "closed"
  /\ port' = [port EXCEPT ![u][s] = "open"]
  /\ UNCHANGED << wired, unsent, made, io, seen, holder, pc, fcid, joy, crashed, losses, unplugs >>

Handler(t) ==
  \/ on_messages_air_unit(t) \/ on_messages_ground_station_clients(t)
  \/ on_messages_ground_unit(t) \/ on_messages_fc(t) \/ joystick(t)
  \/ process(t) \/ process_begin(t) \/ join(t) \/ register(t)

Receive(t) == \/ t[2] = "wb" /\ wb_receive(t[1])
              \/ t[2] = "ohd" /\ uart_receive(t[1])
              \/ outside_receive(t)

Next == /\ ~crashed
        /\ \/ \E t \in Threads : Handler(t) \/ Receive(t)
           \/ \E u \in Units : \/ loop_infinite(u) \/ lose(u)
                               \/ \E s \in Serials(u) : unplug(u, s) \/ connect(u, s)

\* The scheduler runs every thread that can go on; the radio and the devices owe nothing.
\* The traffic is finite and no step repeats, so weak fairness of all threads together is
\* weak fairness of each.
Threads_run == \E t \in Threads : Handler(t) \/ (t[2] = "wb" /\ wb_receive(t[1]))
Fairness == WF_vars(~crashed /\ Threads_run)

Spec == Init /\ [][Next]_vars /\ Fairness

---------------------------------------------------------------------------
(* Properties.                                                             *)

\* The routing policy. Messages for one unit alone stay there, OpenHD's own messages and
\* those of the FC do not go to the FC (unless the wired UART echoes them), the GCS gets
\* nothing of its own back, and only a heartbeat of the FC arms or disarms.
Allowed(m, c, echo) ==
  CASE c = "gcs"     -> m.from \in {"air", "gnd", "fc", "joy"} /\ ~HasTarget(m)
    [] c = "tcp"     -> m.from \in {"air", "fc"} /\ ~HasTarget(m)
    [] c = "tracker" -> m.from \in {"fc", "gnd"}
    [] c = "fc"      -> /\ ~LocalTo(m, "air")
                        /\ LocalTo(m, "gnd") => m.from = "tcp"
                        /\ m.kind = "heartbeat" => m.from /= "gnd"
                        /\ ~echo => m.from \notin {"fc", "air"}
    [] c = "air"     -> LocalTo(m, "gnd") => m.from = "tcp"
    [] c = "gnd"     -> m.from = "fc" => echo
    [] c = "armAir"  -> m.from = "fc" /\ m.kind = "heartbeat"
    [] c = "armGnd"  -> m.from = "fc" /\ m.kind = "heartbeat"

Bus == INSTANCE MessageBus WITH published <- made, given <- io.got, again <- io.twice, echo <- wired

\* The two units with all their links and threads are one message bus: every consumer is
\* given a message at most once, over however many links it came, and only what the
\* routing allows; a unit answers a request only after its components were given it.
RoutesLikeABus == Bus!Spec

\* A serial endpoint is set over which something may arrive that its thread gives to the
\* components: the OpenHD UART of either unit when the two are wired, and the tracker's
\* when the device there sends. (The flight controller's messages are only forwarded.)
SetWhileInUse ==
  \E m \in unsent : /\ m.kind = "set"
                    /\ \/ m.what = "ohd" /\ wired
                       \/ m.what = "tracker" /\ \E n \in unsent : n.from = "tracker"

AllFinish == <>[](~crashed /\ \A t \in Threads : pc[t].at = "idle")

\* A handler that has begun ends: reconfiguring an endpoint from a parameter callback
\* does not leave two threads waiting for each other (or one for itself). Not so for a
\* UART whose own thread may be waiting for the lock under which it is joined: without
\* the premise, AllFinish, it does not hold.
HandlersFinish == ~SetWhileInUse => AllFinish

\* Four injections get a request of the GCS to the air unit's components although three
\* of them are lost, whatever else the two units do.
RequestReachesAir ==
  \A m \in {n \in Traffic : n.from = "gcs" /\ LocalTo(n, "air")} :
    (m \in made) ~> (<< "air", m >> \in io.got)

\* Every request is served and every handler ends (on_messages_ground_station_clients,
\* on_messages_ground_unit, process_mavlink_messages, setup_uart).
RequestsServed == RequestReachesAir /\ HandlersFinish
=============================================================================
