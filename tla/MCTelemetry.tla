---- MODULE MCTelemetry ----
EXTENDS Telemetry
FcHeartbeat == Msg("fc", "heartbeat", "none", "none")
GndHeartbeat == Msg("gnd", "heartbeat", "none", "none")
Channels == Msg("joy", "rc", "none", "none")
ChannelsForClients == Msg("joy", "rc", "none", "clients")
Tracker(to) == Msg("tracker", "command", to, "none")
SetAir(what) == Msg("gcs", "set", "air", what)
SetGnd(what) == Msg("gcs", "set", "gnd", what)
Timesync(from) == Msg(from, "timesync", "none", "none")

\* Loads that interact: a UART that is replaced while its FC talks, an FC id that changes,
\* a joystick that is switched off while it sends, clients of both units at once, an
\* OpenHD UART or the tracker's that is replaced (if its other end sends, two threads may
\* end up waiting for each other) or that is only written to meanwhile.
MCLoads == {{FcHeartbeat, SetAir("fc")}, {FcHeartbeat, SetAir("fc_sys_id")},
            {FcHeartbeat, SetGnd("fc_sys_id")},
            {Channels, SetGnd("joy_off"), SetGnd("joy_on")}, {ChannelsForClients, SetGnd("joy_off")}, {GndHeartbeat},
            {Msg("gcs", "command", "gnd", "none"), Msg("tcp", "scan", "gnd", "none")},
            {Timesync("tcp"), Channels}, {Tracker("air"), FcHeartbeat},
            {SetAir("ohd"), FcHeartbeat},
            {SetGnd("tracker"), FcHeartbeat}, {SetGnd("tracker"), Tracker("air")}}
MCStart == [u \in {"air", "gnd"} |-> {"fc", "ohd", "tracker", "joy"}]
MCFaulty == {<< "air", "fc" >>}
====
