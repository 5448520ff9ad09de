------------------------------ MODULE Startup ------------------------------
(***************************************************************************)
(* main(): from the first report to sysutils through the creation of the   *)
(* modules to their destruction, with what runs beside it: the sysutils    *)
(* daemon, the control server's thread and its client, and the threads of  *)
(* modules that call other modules.                                        *)
(*                                                                         *)
(* A module is in "alive" from the end of its constructor to the end of    *)
(* its destructor; a call of one module into another is in "calls" while   *)
(* it runs.                                                                *)
(***************************************************************************)
EXTENDS Integers, FiniteSets, Sequences

CONSTANTS
    CommandLines,   \* sequences of the options "a", "g", "r", "c", "t"
    Hardware,       \* [card, link, camera: BOOLEAN]: what is plugged in
    EnableAir,      \* BOOLEAN: ENABLE_AIR, compiled with air support
    MaxBoots,       \* how often the program is started
    MaxClients,     \* connections to the control socket
    MaxChanges      \* settings changed by the user, reset requests

ASSUME StartupAssumption ==
    /\ \A c \in CommandLines : c \in Seq({"a", "g", "r", "c", "t"})
    /\ Hardware \subseteq [card: BOOLEAN, link: BOOLEAN, camera: BOOLEAN]
    /\ EnableAir \in BOOLEAN
    /\ MaxBoots \in Nat /\ MaxClients \in Nat /\ MaxChanges \in Nat

VARIABLES
    boot,     \* what is left of the command line and the hardware of this start
    main,     \* where main() is
    opt,      \* OHDRunOptions
    su,       \* sysutils: whether it answers, its settings, updates it has not yet applied
    disk,     \* settings (older than the last reset request, none, younger; "crossed":
              \* older, but the request crossed the answer to an earlier one), caches
    alive,    \* modules that exist
    calls,    \* << caller, callee >> of calls that are running
    ctl,      \* OpenhdControlServer: its thread, m_stop, its client
    rep,      \* Reporter: m_status, and what main() is sending
    quit,     \* a signal, the run time or the TerminateHelper asks main() to end
    links,    \* callbacks registered with the LinkActionHandler
    count     \* bounds: starts, clients, changes

vars == << boot, main, opt, su, disk, alive, calls, ctl, rep, quit, links, count >>

None == "none"
Off == {"off"}
NoOptions == [air |-> None, reset |-> FALSE, from_sysutil |-> FALSE, record |-> FALSE,
              performed |-> FALSE]

---------------------------------------------------------------------------
(* Command line and sysutils settings.                                     *)

\* One option; a contradiction ends the program. "r" may follow "a", not the
\* other way round.
MutParseOption(o, c) ==
    CASE c = "a" -> [o EXCEPT !.air = IF o.air = None THEN "air" ELSE "error"]
      [] c = "g" -> [o EXCEPT !.air = IF o.air = None THEN "gnd" ELSE "error"]
      [] c = "r" -> [o EXCEPT !.record = TRUE]
      [] c = "c" -> [o EXCEPT !.reset = TRUE]
      [] c = "t" -> o
ParseOption(o, c) ==
    CASE c = "a" -> [o EXCEPT !.air = IF o.air = None THEN "air" ELSE "error"]
      [] c = "g" -> [o EXCEPT !.air = IF o.air = None THEN "gnd" ELSE "error"]
      [] c = "r" -> [o EXCEPT !.air = IF o.air = "gnd" THEN "error" ELSE "air", !.record = TRUE]
      [] c = "c" -> [o EXCEPT !.reset = TRUE]
      [] c = "t" -> o

\* What request_sysutil_settings makes of the answer: a reset flag or a run
\* mode that is not there counts as not set.
request_sysutil_settings(answered) ==
    [reset |-> answered /\ su.reset,
     mode  |-> IF answered /\ su.mode \in {"air", "ground", "record"} THEN su.mode ELSE None]

\* Without -a, -g or -r, sysutils says which unit this is.
RunOptions(o, settings) ==
    LET chosen == IF o.air # None THEN [air |-> o.air, record |-> o.record]
                  ELSE [air    |-> IF settings.mode \in {"air", "record"} THEN "air" ELSE "gnd",
                        record |-> settings.mode = "record"]
    IN  [air |-> IF EnableAir THEN chosen.air ELSE "gnd", record |-> chosen.record,
         reset |-> o.reset \/ settings.reset, from_sysutil |-> settings.reset,
         performed |-> FALSE]

\* Where update_sysutil_settings stores the mode of the command line.
ModeUpdate(o) ==
    IF o.air = None THEN {} ELSE {<< "mode", IF o.record THEN "record"
                                             ELSE IF o.air = "air" THEN "air" ELSE "ground" >>}

Apply(s, u) == IF u[1] = "mode" THEN [s EXCEPT !.mode = u[2]] ELSE [s EXCEPT !.reset = FALSE]

\* An update is refused, applied before the answer comes, or applied after main()
\* has given up waiting: nobody looks at the result.
Update(s, us) ==
    IF us = {} THEN {s}
    ELSE LET u == CHOOSE x \in us : TRUE
         IN  {s} \cup (IF s.up THEN {Apply(s, u), [s EXCEPT !.owed = @ \cup {u}]} ELSE {})

---------------------------------------------------------------------------
Idle == [th |-> None, stop |-> FALSE, client |-> None]
NoReport == [status |-> None, out |-> None]

Init ==
    /\ boot = [line |-> << >>, hw |-> CHOOSE h \in Hardware : TRUE]
    /\ main = "off" /\ opt = NoOptions
    /\ su \in [up: BOOLEAN, reset: BOOLEAN, mode: {None, "air"}, owed: {{}}]
    /\ disk = [settings |-> "before", platform |-> FALSE, running |-> FALSE]
    /\ alive = {} /\ calls = {} /\ ctl = Idle /\ rep = NoReport
    /\ quit = FALSE /\ links = FALSE
    /\ count = [boots |-> 0, clients |-> 0, changes |-> 0]

\* Reporter::report: unless it is known already, the status is stored and the
\* caller itself sends it before it goes on.
report(s) ==
    rep' = IF rep.status = s THEN rep
           ELSE [status |-> s, out |-> s]

MainAt(from, to) == main = from /\ rep.out = None /\ main' = to

\* send_pending_now, on main()'s thread: connect and send block until sysutils
\* takes the message or refuses it.
send_pending_now ==
    /\ rep.out # None
    /\ rep' = [rep EXCEPT !.out = None]
    /\ UNCHANGED << boot, main, opt, su, disk, alive, calls, ctl, quit, links, count >>

---------------------------------------------------------------------------
(* main(), until the modules run.                                          *)

main_begin ==
    /\ main = "off" /\ count.boots < MaxBoots
    /\ count' = [count EXCEPT !.boots = @ + 1]
    /\ boot' \in [line: CommandLines, hw: Hardware]
    /\ report("BOOTING") /\ main' = "wait"
    /\ UNCHANGED << opt, su, disk, alive, calls, ctl, quit, links >>

\* wait_for_sysutils: 30 s at most
wait_for_sysutils ==
    /\ MainAt("wait", "parse")
    /\ UNCHANGED << boot, opt, su, disk, alive, calls, ctl, rep, quit, links, count >>

\* parse_run_parameters: one turn of its loop over the options ...
parse_option ==
    LET o == ParseOption(opt, Head(boot.line)) IN
    /\ main = "parse" /\ boot.line # << >>
    /\ boot' = [boot EXCEPT !.line = Tail(@)]
    /\ IF o.air = "error" THEN main' = "off" /\ opt' = NoOptions
       ELSE UNCHANGED main /\ opt' = o
    /\ UNCHANGED << su, disk, alive, calls, ctl, rep, quit, links, count >>

\* ... and what follows the loop.
parse_run_parameters ==
    /\ MainAt("parse", "platform") /\ boot.line = << >>
    /\ \E answered \in {su.up, FALSE} :
          opt' = RunOptions(opt, request_sysutil_settings(answered))
    /\ su' \in Update(su, ModeUpdate(opt))
    /\ UNCHANGED << boot, disk, alive, calls, ctl, rep, quit, links, count >>

\* OHDPlatform::instance(): from the cache, else from sysutils, else unknown.
discover_platform ==
    /\ MainAt("platform", "clean")
    /\ \E answered \in {su.up, FALSE} :
          disk' = [disk EXCEPT !.platform = @ \/ answered, !.running = TRUE]
    /\ report("STARTING")
    /\ UNCHANGED << boot, opt, su, alive, calls, ctl, quit, links, count >>

\* clean_all_settings(), because of -c, sysutils or the reset button; the platform
\* cache is removed with the rest.
clean_all_settings ==
    /\ MainAt("clean", "clear_flag")
    /\ \E button \in BOOLEAN :
         IF opt.reset \/ button
         THEN /\ disk' = [disk EXCEPT !.settings = "clean", !.platform = FALSE]
              /\ opt' = [opt EXCEPT !.performed = TRUE]
         ELSE UNCHANGED << disk, opt >>
    /\ UNCHANGED << boot, su, alive, calls, ctl, rep, quit, links, count >>

\* Mutant: the flag is cleared whether or not settings were removed.
MutClearResetFlag ==
    /\ MainAt("clear_flag", "telemetry")
    /\ su' \in Update(su, {<< "reset" >>})
    /\ UNCHANGED << boot, opt, disk, alive, calls, ctl, rep, quit, links, count >>

\* This request is made inside the try of main(): an answer with a value of the
\* wrong type is thrown and caught there, whatever sysutils has done.
clear_reset_flag ==
    LET carried_out == opt.from_sysutil /\ opt.performed IN
    /\ \/ MainAt("clear_flag", "telemetry")
       \/ carried_out /\ su.up /\ MainAt("clear_flag", "unwind")
    /\ su' \in Update(su, IF carried_out THEN {<< "reset" >>} ELSE {})
    /\ UNCHANGED << boot, opt, disk, alive, calls, ctl, rep, quit, links, count >>

create_telemetry ==
    /\ MainAt("telemetry", "interface")
    /\ alive' = alive \cup (IF opt.record THEN {} ELSE {"telemetry"})
    /\ UNCHANGED << boot, opt, su, disk, calls, ctl, rep, quit, links, count >>

\* OHDInterface, then the control server, which keeps a reference to it.
create_interface ==
    /\ MainAt("interface", "video")
    /\ IF opt.record THEN UNCHANGED << alive, ctl >>
       ELSE /\ alive' = alive \cup {"interface", "server"}
            /\ ctl' = [Idle EXCEPT !.th = "open"]
    /\ UNCHANGED << boot, opt, su, disk, calls, rep, quit, links, count >>

\* OHDVideoGround takes the link of the interface; OHDVideoAir goes without one.
create_video ==
    /\ MainAt("video", IF opt.air = "gnd" /\ "interface" \notin alive THEN "nullptr" ELSE "ready")
    /\ alive' = alive \cup {"video"}
    /\ links' = (opt.air = "air")
    /\ UNCHANGED << boot, opt, su, disk, calls, ctl, rep, quit, count >>

startup_errors ==
    (IF opt.record \/ boot.hw.card THEN {} ELSE {"no_card"})
    \cup (IF opt.record \/ boot.hw.link THEN {} ELSE {"no_link"})
    \cup (IF opt.air = "gnd" \/ boot.hw.camera THEN {} ELSE {"dummy_camera"})

modules_ready ==
    /\ MainAt("ready", "loop")
    /\ report(IF startup_errors = {} THEN "READY" ELSE "ERROR")
    /\ UNCHANGED << boot, opt, su, disk, alive, calls, ctl, quit, links, count >>

---------------------------------------------------------------------------
(* main(), termination.                                                    *)

\* SIGTERM, SIGQUIT, the run time, or terminate_after from a setting's callback
ask_to_quit ==
    /\ main = "loop" /\ ~quit /\ quit' = TRUE
    /\ UNCHANGED << boot, main, opt, su, disk, alive, calls, ctl, rep, links, count >>

report_stopped ==
    /\ quit /\ MainAt("loop", "disable")
    /\ report("STOPPED")
    /\ UNCHANGED << boot, opt, su, disk, alive, calls, ctl, quit, links, count >>

disable_all_callables ==
    /\ MainAt("disable", "sleep")
    /\ links' = FALSE
    /\ UNCHANGED << boot, opt, su, disk, alive, calls, ctl, rep, quit, count >>

\* main() sleeps for one second and joins nobody ("dirty", main.cpp:698): that a
\* callback which was already running is over by then is an assumption about time.
sleep_one_second ==
    /\ MainAt("sleep", "video_off")
    /\ << "link", "video" >> \notin calls
    /\ UNCHANGED << boot, opt, su, disk, alive, calls, ctl, rep, quit, links, count >>

destroy_video ==
    /\ MainAt("video_off", "telemetry_off")
    /\ alive' = alive \ {"video"}
    /\ UNCHANGED << boot, opt, su, disk, calls, ctl, rep, quit, links, count >>

\* The threads of telemetry are told to end and joined: what they call returns first.
stop_telemetry ==
    /\ MainAt("telemetry_off", "telemetry_join")
    /\ UNCHANGED << boot, opt, su, disk, alive, calls, ctl, rep, quit, links, count >>
destroy_telemetry ==
    /\ MainAt("telemetry_join", "leave")
    /\ \A c \in calls : c[1] # "telemetry"
    /\ alive' = alive \ {"telemetry"}
    /\ UNCHANGED << boot, opt, su, disk, calls, ctl, rep, quit, links, count >>

server_stop ==
    /\ MainAt("leave", "join")
    /\ ctl' = [ctl EXCEPT !.stop = TRUE]
    /\ UNCHANGED << boot, opt, su, disk, alive, calls, rep, quit, links, count >>

Joined == ctl.th \in {None, "done"} /\ \A c \in calls : c[1] # "link"

main_return ==
    /\ MainAt("join", "off") /\ Joined
    /\ alive' = {} /\ ctl' = Idle /\ opt' = NoOptions /\ quit' = FALSE
    /\ disk' = [disk EXCEPT !.running = FALSE]
    /\ rep' = NoReport
    /\ UNCHANGED << boot, su, calls, links, count >>

\* An exception while the modules are created: they are destroyed in reverse
\* order, the error is reported, and the file "is running" stays.
Unwinding == {"telemetry", "interface", "video", "ready"}
throw ==
    /\ main \in Unwinding /\ rep.out = None
    /\ main' = "unwind" /\ links' = FALSE
    /\ ctl' = [ctl EXCEPT !.stop = TRUE]
    /\ alive' = alive \ {"video"}
    /\ UNCHANGED << boot, opt, su, disk, calls, rep, quit, count >>
unwound ==
    /\ MainAt("unwind", "error") /\ Joined
    /\ \A c \in calls : c[1] # "telemetry"
    /\ alive' = {} /\ ctl' = Idle
    /\ report("ERROR")
    /\ UNCHANGED << boot, opt, su, disk, calls, quit, links, count >>
exit_failure ==
    /\ MainAt("error", "off")
    /\ opt' = NoOptions /\ rep' = NoReport
    /\ UNCHANGED << boot, su, disk, alive, calls, ctl, quit, links, count >>

\* An exception nobody catches ends the process where it is: a value of the wrong
\* type in what sysutils answers before the try of main() or to a thread of the
\* modules, or in the "type" of a client's line.
Uncaught ==
    \/ main = "parse" /\ boot.line = << >> /\ su.up
    \/ main = "platform" /\ rep.out = None /\ ~disk.platform /\ su.up
    \/ alive # {} /\ su.up
    \/ ctl.th = "recv" /\ ctl.client = "line"
terminate ==
    /\ Uncaught
    /\ main' = "off" /\ alive' = {} /\ calls' = {} /\ ctl' = Idle /\ opt' = NoOptions
    /\ rep' = NoReport /\ quit' = FALSE /\ links' = FALSE
    /\ su' \in Update(su, IF main = "parse" THEN ModeUpdate(opt) ELSE {})
    /\ UNCHANGED << boot, disk, count >>

---------------------------------------------------------------------------
(* The control server.                                                     *)

\* run(): without its socket the thread ends at once.
server_open ==
    /\ ctl.th = "open"
    /\ \E t \in {"poll", "done"} : ctl' = [ctl EXCEPT !.th = t]
    /\ UNCHANGED << boot, main, opt, su, disk, alive, calls, rep, quit, links, count >>

client_connects ==
    /\ ctl.th \in {"poll", "recv"} /\ ctl.client = None /\ count.clients < MaxClients
    /\ ctl' = [ctl EXCEPT !.client = "connected"]
    /\ count' = [count EXCEPT !.clients = @ + 1]
    /\ UNCHANGED << boot, main, opt, su, disk, alive, calls, rep, quit, links >>

\* The client sends its line, or goes away.
client_moves ==
    /\ ctl.client = "connected"
    /\ \E c \in {"line", "closed"} : ctl' = [ctl EXCEPT !.client = c]
    /\ UNCHANGED << boot, main, opt, su, disk, alive, calls, rep, quit, links, count >>

\* Mutant: m_stop is not looked at.
MutServerPoll ==
    /\ ctl.th = "poll"
    /\ \/ ctl.client # None /\ ctl' = [ctl EXCEPT !.th = "recv"]
       \/ ctl.client = None /\ UNCHANGED ctl
    /\ UNCHANGED << boot, main, opt, su, disk, alive, calls, rep, quit, links, count >>

\* poll with 500 ms, accept; m_stop is looked at once per turn
server_poll ==
    /\ ctl.th = "poll"
    /\ \/ ~ctl.stop /\ ctl.client # None /\ ctl' = [ctl EXCEPT !.th = "recv"]
       \/ ctl.stop /\ ctl' = [ctl EXCEPT !.th = "done"]
    /\ UNCHANGED << boot, main, opt, su, disk, alive, calls, rep, quit, links, count >>

\* handle_client: recv has no timeout. A line that is no valid request is
\* answered at once, unless its "type" is no string (terminate); a valid one is
\* applied by the interface.
handle_client ==
    /\ ctl.th = "recv"
    /\ \/ /\ ctl.client \in {"line", "closed"}
          /\ ctl' = [ctl EXCEPT !.th = "poll", !.client = None] /\ UNCHANGED calls
       \/ /\ ctl.client = "line"
          /\ ctl' = [ctl EXCEPT !.th = "apply"]
          /\ calls' = calls \cup {<< "control", "interface" >>}
    /\ UNCHANGED << boot, main, opt, su, disk, alive, rep, quit, links, count >>
send_response ==
    /\ ctl.th = "apply"
    /\ ctl' = [ctl EXCEPT !.th = "poll", !.client = None]
    /\ calls' = calls \ {<< "control", "interface" >>}
    /\ UNCHANGED << boot, main, opt, su, disk, alive, rep, quit, links, count >>

---------------------------------------------------------------------------
(* Calls between modules.                                                  *)

\* action_request_bitrate_change_handle, on the link's thread
link_calls_video ==
    /\ "interface" \in alive /\ links
    /\ calls' = calls \cup {<< "link", "video" >>}
    /\ UNCHANGED << boot, main, opt, su, disk, alive, ctl, rep, quit, links, count >>

\* A parameter of the interface, or of the camera's: both were added to telemetry
\* when the modules were created. Its components run one at a time.
telemetry_calls(module) ==
    /\ "telemetry" \in alive
    /\ main \notin {"telemetry", "interface", "video", "nullptr", "telemetry_join", "unwind"}
    /\ module = "video" => opt.air = "air"
    /\ \A c \in calls : c[1] # "telemetry"
    /\ calls' = calls \cup {<< "telemetry", module >>}
    /\ UNCHANGED << boot, main, opt, su, disk, alive, ctl, rep, quit, links, count >>

\* It returns, having changed a setting or not.
call_returns(caller) ==
    /\ \E c \in calls :
         /\ c[1] = caller /\ calls' = calls \ {c}
         /\ \/ UNCHANGED << disk, count >>
            \/ /\ c[1] = "telemetry" /\ disk.settings = "clean" /\ count.changes < MaxChanges
               /\ count' = [count EXCEPT !.changes = @ + 1]
               /\ disk' = [disk EXCEPT !.settings = "after"]
    /\ UNCHANGED << boot, main, opt, su, alive, ctl, rep, quit, links >>

---------------------------------------------------------------------------
(* Sysutils and the operator.                                              *)

sysutils_applies ==
    /\ \E u \in su.owed : su' = [Apply(su, u) EXCEPT !.owed = @ \ {u}]
    /\ UNCHANGED << boot, main, opt, disk, alive, calls, ctl, rep, quit, links, count >>

\* A reset request concerns the settings there are now. It is one flag: an update
\* still owed for an earlier request clears it for this one too.
operator_requests_reset ==
    /\ count.changes < MaxChanges
    /\ su' = [su EXCEPT !.reset = TRUE]
    /\ disk' = [disk EXCEPT !.settings =
                  IF @ = "clean" THEN @ ELSE IF << "reset" >> \in su.owed THEN "crossed" ELSE "before"]
    /\ count' = [count EXCEPT !.changes = @ + 1]
    /\ UNCHANGED << boot, main, opt, alive, calls, ctl, rep, quit, links >>

Main ==
    \/ send_pending_now
    \/ wait_for_sysutils \/ parse_option \/ parse_run_parameters \/ discover_platform
    \/ clean_all_settings \/ clear_reset_flag \/ create_telemetry \/ create_interface
    \/ create_video \/ modules_ready
    \/ report_stopped \/ disable_all_callables \/ sleep_one_second \/ destroy_video
    \/ stop_telemetry \/ destroy_telemetry \/ server_stop \/ main_return
    \/ unwound \/ exit_failure
Server == server_open \/ server_poll \/ handle_client \/ send_response

Next ==
    \/ Main \/ main_begin \/ throw \/ terminate \/ ask_to_quit \/ Server
    \/ client_connects \/ client_moves
    \/ link_calls_video \/ \E c \in {"link", "telemetry"} : call_returns(c)
    \/ \E m \in {"interface", "video"} : telemetry_calls(m)
    \/ sysutils_applies \/ operator_requests_reset

\* main() and the server's thread run, and a call into another module returns.
Fairness == WF_vars(Main) /\ WF_vars(Server)
            /\ WF_vars(call_returns("link")) /\ WF_vars(call_returns("telemetry"))

Spec == Init /\ [][Next]_vars /\ Fairness

---------------------------------------------------------------------------
(* main() ends after it was asked to, unless a client of the control socket  *)
(* keeps its connection open without sending a line: the destructor of the   *)
(* control server joins a thread that sits in recv.                          *)
TerminationCompletes ==
    []<>(ctl.client # "connected") => (quit ~> main = "off")

(* Unless an exception cuts the start off, the interface and the video are   *)
(* there for as long as the control server, the link or a parameter of the   *)
(* interface calls them, although each is destroyed at another time.         *)
CallsReachModules ==
    main \notin {"unwind", "error"} =>
        \A c \in calls : c # << "telemetry", "video" >> => c[2] \in alive

(* The same for the parameters of the camera and of OHDVideoAir.             *)
SettingsReachModules ==
    << "telemetry", "video" >> \in calls => "video" \in alive

(* The flag in sysutils that asks for a reset is cleared only after the      *)
(* settings it was about are gone, however late sysutils applies an update   *)
(* and wherever a start is cut off, unless the request was made while an     *)
(* update that clears the flag for an earlier one was still on its way.      *)
ResetIsCarriedOut ==
    [][su.reset /\ ~su'.reset => disk.settings # "before"]_vars
\* Does not hold: such a request can be lost.
EveryResetIsCarriedOut ==
    [][su.reset /\ ~su'.reset => disk.settings \notin {"before", "crossed"}]_vars

(* A ground unit is never started without an interface: nothing in main()    *)
(* checks the pointer it takes the link from.                                *)
VideoHasLink == main # "nullptr"
=============================================================================
