------------------------ MODULE ProgramStart_proofs ------------------------
(***************************************************************************)
(* Proofs about the start and the end of the program, for any command      *)
(* lines, hardware and bounds: what one module calls in another is there,  *)
(* and a request to reset the settings is not forgotten. Then about the    *)
(* sysutils socket: what a caller takes for said and done is so.           *)
(***************************************************************************)
EXTENDS ProgramStart, TLAPS

(***************************************************************************)
(* The inductive invariant: which modules, threads and calls there are at  *)
(* each place of main(), and what the settings are while a reset is under  *)
(* way.                                                                    *)
(***************************************************************************)

Early == {"off", "wait", "parse", "platform", "clean", "clear_flag", "telemetry", "error"}
Serving == {"video", "nullptr", "ready", "loop", "disable", "sleep", "video_off", "telemetry_off",
            "telemetry_join", "leave", "join", "unwind"}
Linked == {"nullptr", "ready", "loop", "disable"}

ControlCall == << "control", "interface" >>
LinkCall == << "link", "video" >>
TelemetryCalls == {<< "telemetry", "interface" >>, << "telemetry", "video" >>}
ResetDone == << "reset" >>

Sus == [up : BOOLEAN, reset : BOOLEAN, mode : {None, "air", "ground", "record"},
        owed : SUBSET ({"mode"} \X {"air", "ground", "record"} \cup {ResetDone})]

Typed ==
  /\ ctl \in [th : {None, "open", "poll", "recv", "apply", "done"}, stop : BOOLEAN,
              client : {None, "connected", "line", "closed"}]
  /\ calls \subseteq {ControlCall, LinkCall} \cup TelemetryCalls
  /\ su \in Sus
  /\ disk \in [settings : {"before", "clean", "after", "crossed"}, platform : BOOLEAN, running : BOOLEAN]

\* The control server is younger than the interface and joined before it goes.
ServerFits ==
  /\ ControlCall \in calls => ctl.th = "apply"
  /\ ctl.th \notin {None, "done"} => main \in Serving /\ "interface" \in alive

\* The link's callbacks are registered only while the video exists, and one that
\* runs when they are removed has a second to end.
LinkFits ==
  /\ links => main \in Linked /\ "video" \in alive
  /\ LinkCall \in calls => \/ main \in Linked \cup {"sleep"} /\ "video" \in alive
                           \/ main = "unwind"

\* Telemetry calls the interface only when both exist.
TelemetryFits ==
  /\ main \in Early => alive = {}
  /\ main \in {"leave", "join"} => "telemetry" \notin alive
  /\ "telemetry" \in alive => \/ "interface" \in alive \/ main = "unwind"
                              \/ main = "interface" /\ ~opt.record
  /\ calls \cap TelemetryCalls # {} => "telemetry" \in alive /\ "interface" \in alive

Modules == ServerFits /\ LinkFits /\ TelemetryFits

\* An update that clears the flag is on its way only after the settings were
\* removed, and nobody has changed any in between.
ResetFits ==
  /\ ResetDone \in su.owed => disk.settings # "before"
  /\ main \in {"off", "wait", "parse", "platform", "clean"} => opt.performed = FALSE
  /\ main = "clear_flag" /\ opt.performed => disk.settings = "clean"

\* The options, and why a unit that has no interface flies: only -r and the mode
\* "record" keep the interface from being created.
Letters == {"a", "g", "r", "c", "t"}
Chosen == [air : {None, "air", "gnd"}, reset : BOOLEAN, from_sysutil : BOOLEAN,
           record : BOOLEAN, performed : BOOLEAN]

OptionsTyped ==
  /\ boot \in [line : Seq(Letters), hw : Hardware \cup {CHOOSE h \in Hardware : TRUE}]
  /\ opt \in Chosen
RecordFlies == EnableAir /\ opt.record => opt.air = "air"
OptionsFit ==
  /\ OptionsTyped /\ RecordFlies
  /\ main = "video" /\ "interface" \notin alive => opt.record
  /\ EnableAir => main # "nullptr"

IInv == Typed /\ Modules /\ OptionsFit /\ ResetFits

(***************************************************************************)
(* The types.                                                              *)
(***************************************************************************)

\* What a run of Update with the mode of the command line may leave.
LEMMA ModeUpdates ==
  ASSUME su \in Sus, NEW o, NEW s \in Update(su, ModeUpdate(o))
  PROVE  s \in Sus /\ s.reset = su.reset /\ (ResetDone \in s.owed <=> ResetDone \in su.owed)
<1>1. CASE o.air = None
  BY <1>1 DEF ModeUpdate, Update
<1>2. CASE o.air # None
  <2>1. PICK m \in {"air", "ground", "record"} : ModeUpdate(o) = {<< "mode", m >>}
    BY <1>2 DEF ModeUpdate
  <2>2. (CHOOSE x \in ModeUpdate(o) : TRUE) = << "mode", m >>
    BY <2>1
  <2>3. s \in {su, Apply(su, << "mode", m >>), [su EXCEPT !.owed = @ \cup {<< "mode", m >>}]}
    BY <2>1, <2>2 DEF Update
  <2>4. Apply(su, << "mode", m >>) = [su EXCEPT !.mode = m]
    BY DEF Apply
  <2>5. << "mode", m >> # ResetDone /\ << "mode", m >> \in {"mode"} \X {"air", "ground", "record"}
    BY DEF ResetDone
  <2> HIDE DEF ResetDone
  <2> QED  BY <2>3, <2>4, <2>5 DEF Sus
<1> QED  BY <1>1, <1>2

LEMMA ResetUpdates ==
  ASSUME su \in Sus, NEW s \in Update(su, {ResetDone})
  PROVE  s \in Sus
<1>1. (CHOOSE x \in {ResetDone} : TRUE) = ResetDone
  OBVIOUS
<1>2. s \in {su, Apply(su, ResetDone), [su EXCEPT !.owed = @ \cup {ResetDone}]}
  BY <1>1 DEF Update
<1>3. Apply(su, ResetDone) = [su EXCEPT !.reset = FALSE]
  BY DEF Apply, ResetDone
<1> HIDE DEF ResetDone
<1> QED  BY <1>2, <1>3 DEF Sus

LEMMA AppliedUpdates ==
  ASSUME su \in Sus, NEW u \in su.owed
  PROVE  /\ [Apply(su, u) EXCEPT !.owed = @ \ {u}] \in Sus
         /\ [Apply(su, u) EXCEPT !.owed = @ \ {u}].owed \subseteq su.owed
         /\ u # ResetDone => [Apply(su, u) EXCEPT !.owed = @ \ {u}].reset = su.reset
<1>1. CASE u = ResetDone
  <2>1. Apply(su, u) = [su EXCEPT !.reset = FALSE]
    BY <1>1 DEF Apply, ResetDone
  <2> QED  BY <2>1, <1>1 DEF Sus
<1>2. CASE u # ResetDone
  <2>1. PICK m \in {"air", "ground", "record"} : u = << "mode", m >>
    BY <1>2 DEF Sus
  <2>2. Apply(su, u) = [su EXCEPT !.mode = m]
    BY <2>1 DEF Apply
  <2> QED  BY <2>2, <1>2 DEF Sus
<1> QED  BY <1>1, <1>2


\* The steps of main() that touch neither modules, calls, settings nor sysutils.
Passing ==
  \/ send_pending_now \/ wait_for_sysutils \/ modules_ready \/ report_stopped
  \/ sleep_one_second \/ stop_telemetry \/ exit_failure \/ main_begin
  \/ ask_to_quit

\* The steps that build, unlink or destroy modules.
Building ==
  \/ create_telemetry \/ create_interface \/ create_video
  \/ disable_all_callables \/ destroy_video \/ destroy_telemetry \/ server_stop
  \/ main_return \/ throw \/ unwound

ServerSteps == Server \/ client_connects \/ client_moves

CallSteps ==
  \/ link_calls_video \/ \E c \in {"link", "telemetry"} : call_returns(c)
  \/ \E m \in {"interface", "video"} : telemetry_calls(m)

\* The steps about settings and sysutils.
SettingSteps ==
  \/ parse_option \/ parse_run_parameters \/ discover_platform \/ clean_all_settings
  \/ clear_reset_flag \/ sysutils_applies \/ operator_requests_reset

LEMMA Steps ==
  ASSUME [Next]_vars
  PROVE  Passing \/ Building \/ ServerSteps \/ CallSteps \/ SettingSteps \/ terminate
           \/ UNCHANGED vars
  BY DEF Next, Main, Passing, Building, ServerSteps, CallSteps, SettingSteps

\* Only these steps change these variables.
LEMMA Frames ==
  /\ Passing => UNCHANGED << su, disk, alive, calls, ctl, links >>
  /\ Building => UNCHANGED << su, calls >>
  /\ ServerSteps => UNCHANGED << main, opt, su, disk, alive, links >>
  /\ CallSteps => UNCHANGED << main, opt, su, alive, ctl, links >>
  /\ SettingSteps => UNCHANGED << alive, calls, ctl, links >>
<1>1. Passing => UNCHANGED << su, disk, alive, calls, ctl, links >>
  BY DEF Passing, send_pending_now, wait_for_sysutils, modules_ready, report_stopped,
     sleep_one_second, stop_telemetry, exit_failure, main_begin, ask_to_quit
<1>2. Building => UNCHANGED << su, calls >>
  BY DEF Building, create_telemetry, create_interface, create_video, disable_all_callables,
     destroy_video, destroy_telemetry, server_stop, main_return, throw, unwound
<1>3. ServerSteps => UNCHANGED << main, opt, su, disk, alive, links >>
  BY DEF ServerSteps, Server, server_open, server_poll, handle_client, send_response,
     client_connects, client_moves
<1>4. CallSteps => UNCHANGED << main, opt, su, alive, ctl, links >>
  BY DEF CallSteps, link_calls_video, call_returns, telemetry_calls
<1>5. SettingSteps => UNCHANGED << alive, calls, ctl, links >>
  BY DEF SettingSteps, parse_option, parse_run_parameters, discover_platform, clean_all_settings,
     clear_reset_flag, sysutils_applies, operator_requests_reset
<1> QED  BY <1>1, <1>2, <1>3, <1>4, <1>5

\* An uncaught exception leaves nothing of the process; sysutils and the disk stay.
LEMMA Terminated ==
  ASSUME terminate, su \in Sus
  PROVE  /\ main' = "off" /\ alive' = {} /\ calls' = {} /\ ctl' = Idle /\ opt' = NoOptions
         /\ ~links' /\ UNCHANGED << boot, disk >>
         /\ su' \in Sus /\ su'.reset = su.reset /\ (ResetDone \in su'.owed <=> ResetDone \in su.owed)
<1>1. /\ main' = "off" /\ alive' = {} /\ calls' = {} /\ ctl' = Idle /\ opt' = NoOptions
      /\ ~links' /\ UNCHANGED << boot, disk >>
      /\ su' \in Update(su, ModeUpdate(opt)) \/ su' \in Update(su, {})
  BY DEF terminate
<1>2. CASE su' \in Update(su, ModeUpdate(opt))
  BY <1>1, <1>2, ModeUpdates
<1>3. CASE su' \in Update(su, {})
  BY <1>1, <1>3 DEF Update
<1> QED  BY <1>1, <1>2, <1>3

LEMMA NextTyped == Typed /\ [Next]_vars => Typed'
<1> SUFFICES ASSUME Typed, [Next]_vars PROVE Typed'
  OBVIOUS
<1>1. CASE Passing \/ UNCHANGED vars
  BY <1>1, Frames DEF Typed, vars
<1>2. CASE Building
  <2>1. ctl' = ctl \/ ctl' = Idle \/ ctl' = [Idle EXCEPT !.th = "open"]
          \/ ctl' = [ctl EXCEPT !.stop = TRUE]
    BY <1>2 DEF Building, create_telemetry, create_interface, create_video,
       disable_all_callables, destroy_video, destroy_telemetry, server_stop, main_return,
       throw, unwound
  <2>2. disk' = disk \/ disk' = [disk EXCEPT !.running = FALSE]
    BY <1>2 DEF Building, create_telemetry, create_interface, create_video,
       disable_all_callables, destroy_video, destroy_telemetry, server_stop, main_return,
       throw, unwound
  <2>3. ctl' \in [th : {None, "open", "poll", "recv", "apply", "done"}, stop : BOOLEAN,
                  client : {None, "connected", "line", "closed"}]
    <3>1. CASE ctl' = ctl \/ ctl' = [ctl EXCEPT !.stop = TRUE]
      BY <3>1 DEF Typed
    <3>2. CASE ctl' = Idle
      BY <3>2 DEF Idle
    <3>3. CASE ctl' = [Idle EXCEPT !.th = "open"]
      BY <3>3 DEF Idle
    <3> QED  BY <2>1, <3>1, <3>2, <3>3
  <2>4. disk' \in [settings : {"before", "clean", "after", "crossed"}, platform : BOOLEAN,
                   running : BOOLEAN]
    BY <2>2 DEF Typed
  <2> QED  BY <1>2, <2>3, <2>4, Frames DEF Typed
<1>3. CASE ServerSteps
  <2>1. ctl' \in [th : {None, "open", "poll", "recv", "apply", "done"}, stop : BOOLEAN,
                  client : {None, "connected", "line", "closed"}]
    BY <1>3 DEF Typed, ServerSteps, Server, server_open, server_poll, handle_client,
       send_response, client_connects, client_moves
  <2>2. calls' \subseteq calls \cup {ControlCall}
    BY <1>3 DEF ServerSteps, Server, server_open, server_poll, handle_client, send_response,
       client_connects, client_moves, ControlCall
  <2> QED  BY <1>3, <2>1, <2>2, Frames DEF Typed
<1>4. CASE CallSteps
  <2>1. calls' \subseteq calls \cup {LinkCall} \cup TelemetryCalls
    BY <1>4 DEF CallSteps, link_calls_video, call_returns, telemetry_calls, LinkCall,
       TelemetryCalls
  <2>2. disk' = disk \/ disk' = [disk EXCEPT !.settings = "after"]
    BY <1>4 DEF CallSteps, link_calls_video, call_returns, telemetry_calls
  <2> QED  BY <1>4, <2>1, <2>2, Frames DEF Typed
<1>5. CASE SettingSteps
  <2>1. disk' \in [settings : {"before", "clean", "after", "crossed"}, platform : BOOLEAN,
                   running : BOOLEAN]
    BY <1>5 DEF Typed, Sus, SettingSteps, parse_option, parse_run_parameters, discover_platform,
       clean_all_settings, clear_reset_flag, sysutils_applies, operator_requests_reset
  <2>2. su' \in Sus
    <3>1. CASE parse_run_parameters
      BY <3>1, ModeUpdates DEF parse_run_parameters, Typed
    <3>2. CASE parse_option \/ discover_platform \/ clean_all_settings
      BY <3>2 DEF parse_option, discover_platform, clean_all_settings, Typed
    <3>3. CASE clear_reset_flag
      BY <3>3, ResetUpdates DEF clear_reset_flag, Typed, Update, ResetDone
    <3>4. CASE sysutils_applies
      BY <3>4, AppliedUpdates DEF sysutils_applies, Typed
    <3>5. CASE operator_requests_reset
      BY <3>5 DEF operator_requests_reset, Typed, Sus
    <3> QED  BY <1>5, <3>1, <3>2, <3>3, <3>4, <3>5 DEF SettingSteps
  <2> QED  BY <1>5, <2>1, <2>2, Frames DEF Typed
<1>6. CASE terminate
  <2>1. Idle \in [th : {None, "open", "poll", "recv", "apply", "done"}, stop : BOOLEAN,
                  client : {None, "connected", "line", "closed"}]
    BY DEF Idle
  <2>2. ctl' = Idle /\ calls' = {} /\ disk' = disk /\ su' \in Sus
    BY <1>6, Terminated DEF Typed
  <2> QED  BY <2>1, <2>2 DEF Typed
<1> QED  BY <1>1, <1>2, <1>3, <1>4, <1>5, <1>6, Steps

(***************************************************************************)
(* The modules and the calls between them.                                 *)
(***************************************************************************)

LEMMA NextServer == Typed /\ Modules /\ [Next]_vars => ServerFits'
<1> SUFFICES ASSUME Typed, Modules, [Next]_vars PROVE ServerFits'
  OBVIOUS
<1> USE DEF ServerFits
<1>1. CASE Passing \/ UNCHANGED vars
  <2>1. main' \in Serving \/ main \notin Serving
    BY <1>1 DEF Passing, send_pending_now, wait_for_sysutils, modules_ready, report_stopped,
       sleep_one_second, stop_telemetry, exit_failure, main_begin, ask_to_quit, MainAt,
       Serving, vars
  <2> QED  BY <1>1, <2>1, Frames DEF Modules, vars
<1>2. CASE Building
  <2>1. CASE create_telemetry
    BY <2>1 DEF create_telemetry, MainAt, Serving, Modules
  <2>2. CASE create_interface
    BY <2>2 DEF create_interface, MainAt, Serving, Modules, None
  <2>3. CASE create_video \/ disable_all_callables \/ destroy_video \/ destroy_telemetry
    <3>1. main' \in Serving /\ UNCHANGED << ctl, calls >>
             /\ ("interface" \in alive => "interface" \in alive')
      BY <2>3 DEF create_video, disable_all_callables, destroy_video, destroy_telemetry, MainAt,
         Serving
    <3> QED  BY <3>1 DEF Modules
  <2>4. CASE server_stop \/ throw
    <3>1. main' \in Serving /\ UNCHANGED calls /\ ctl' = [ctl EXCEPT !.stop = TRUE]
             /\ ("interface" \in alive => "interface" \in alive')
      BY <2>4 DEF server_stop, throw, MainAt, Serving
    <3>2. ctl'.th = ctl.th
      BY <3>1 DEF Typed
    <3> QED  BY <3>1, <3>2 DEF Modules
  <2>5. CASE main_return \/ unwound
    <3>1. ctl' = Idle /\ UNCHANGED calls /\ ctl.th \in {None, "done"}
      BY <2>5 DEF main_return, unwound, Joined
    <3> QED  BY <3>1 DEF Idle, Modules, None
  <2> QED  BY <1>2, <2>1, <2>2, <2>3, <2>4, <2>5 DEF Building
<1>3. CASE ServerSteps
  <2>1. UNCHANGED << main, alive >>
    BY <1>3, Frames
  <2>2. /\ ControlCall \in calls' => ctl'.th = "apply"
        /\ ctl'.th \notin {None, "done"} => ctl.th \notin {None, "done"}
    <3>1. CASE server_open \/ server_poll \/ client_connects \/ client_moves
      BY <3>1 DEF server_open, server_poll, client_connects, client_moves, Modules, Typed, None
    <3>2. CASE handle_client
      BY <3>2 DEF handle_client, Modules, Typed, ControlCall, None
    <3>3. CASE send_response
      BY <3>3 DEF send_response, Modules, Typed, ControlCall, None
    <3> QED  BY <1>3, <3>1, <3>2, <3>3 DEF ServerSteps, Server
  <2> QED  BY <2>1, <2>2 DEF Modules
<1>4. CASE CallSteps
  <2>1. ControlCall \in calls' => ControlCall \in calls
    BY <1>4 DEF CallSteps, link_calls_video, call_returns, telemetry_calls, ControlCall
  <2> QED  BY <1>4, <2>1, Frames DEF Modules
<1>5. CASE SettingSteps
  <2>1. main' = main \/ main \notin Serving
    BY <1>5 DEF SettingSteps, parse_option, parse_run_parameters, discover_platform, clean_all_settings,
       clear_reset_flag, sysutils_applies, operator_requests_reset, MainAt, Serving
  <2> QED  BY <1>5, <2>1, Frames DEF Modules
<1>6. CASE terminate
  BY <1>6, Terminated DEF Typed, Idle, None
<1> QED  BY <1>1, <1>2, <1>3, <1>4, <1>5, <1>6, Steps

LEMMA NextLink == Typed /\ Modules /\ [Next]_vars => LinkFits'
<1> SUFFICES ASSUME Typed, Modules, [Next]_vars PROVE LinkFits'
  OBVIOUS
<1> USE DEF LinkFits
<1>1. CASE Passing \/ UNCHANGED vars
  <2>1. \/ main' = main
        \/ main \notin Linked \cup {"sleep", "unwind"}
        \/ main \in Linked /\ main' \in Linked
        \/ main = "sleep" /\ LinkCall \notin calls
    <3>1. CASE wait_for_sysutils \/ stop_telemetry \/ exit_failure \/ main_begin
      BY <3>1 DEF wait_for_sysutils, stop_telemetry, exit_failure, main_begin, MainAt, Linked
    <3>2. CASE modules_ready \/ report_stopped
      BY <3>2 DEF modules_ready, report_stopped, MainAt, Linked
    <3>3. CASE sleep_one_second
      BY <3>3 DEF sleep_one_second, MainAt, LinkCall
    <3>4. CASE send_pending_now \/ ask_to_quit \/ UNCHANGED vars
      BY <3>4 DEF send_pending_now, ask_to_quit, vars
    <3> QED  BY <1>1, <3>1, <3>2, <3>3, <3>4 DEF Passing
  <2>2. UNCHANGED << links, alive, calls >>
    BY <1>1, Frames DEF vars
  <2>3. main = "sleep" => ~links
    BY DEF Modules, Linked
  <2> QED  BY <2>1, <2>2, <2>3 DEF Modules, Linked
<1>2. CASE Building
  <2>1. UNCHANGED calls
    BY <1>2, Frames
  <2>2. CASE create_telemetry \/ create_interface \/ destroy_video \/ destroy_telemetry
               \/ server_stop
    <3>1. main \notin Linked \cup {"sleep", "unwind"} /\ UNCHANGED links
      BY <2>2 DEF create_telemetry, create_interface, destroy_video, destroy_telemetry,
         server_stop, MainAt, Linked
    <3> QED  BY <2>1, <3>1 DEF Modules
  <2>3. CASE create_video
    BY <2>1, <2>3 DEF create_video, MainAt, Linked, Modules
  <2>4. CASE disable_all_callables
    BY <2>1, <2>4 DEF disable_all_callables, MainAt, Linked, Modules
  <2>5. CASE main_return
    <3>1. main = "join" /\ UNCHANGED links
      BY <2>5 DEF main_return, MainAt
    <3> QED  BY <2>1, <3>1 DEF Modules, Linked
  <2>6. CASE throw
    BY <2>1, <2>6 DEF throw, Modules, Linked
  <2>7. CASE unwound
    <3>1. main = "unwind" /\ UNCHANGED links /\ LinkCall \notin calls
      BY <2>7 DEF unwound, MainAt, Joined, LinkCall
    <3> QED  BY <2>1, <3>1 DEF Modules, Linked
  <2> QED  BY <1>2, <2>2, <2>3, <2>4, <2>5, <2>6, <2>7 DEF Building
<1>3. CASE ServerSteps
  <2>1. LinkCall \in calls' => LinkCall \in calls
    BY <1>3 DEF ServerSteps, Server, server_open, server_poll, handle_client, send_response,
       client_connects, client_moves, LinkCall
  <2> QED  BY <1>3, <2>1, Frames DEF Modules
<1>4. CASE CallSteps
  <2>1. LinkCall \in calls' => LinkCall \in calls \/ links
    BY <1>4 DEF CallSteps, link_calls_video, call_returns, telemetry_calls, LinkCall
  <2> QED  BY <1>4, <2>1, Frames DEF Modules
<1>5. CASE SettingSteps
  <2>1. main' = main \/ main \notin Linked \cup {"sleep", "unwind"}
    BY <1>5 DEF SettingSteps, parse_option, parse_run_parameters, discover_platform, clean_all_settings,
       clear_reset_flag, sysutils_applies, operator_requests_reset, MainAt, Linked
  <2> QED  BY <1>5, <2>1, Frames DEF Modules
<1>6. CASE terminate
  BY <1>6, Terminated DEF Typed
<1> QED  BY <1>1, <1>2, <1>3, <1>4, <1>5, <1>6, Steps

LEMMA NextTelemetry == Typed /\ Modules /\ [Next]_vars => TelemetryFits'
<1> SUFFICES ASSUME Typed, Modules, [Next]_vars PROVE TelemetryFits'
  OBVIOUS
<1> USE DEF TelemetryFits
<1>1. CASE Passing \/ UNCHANGED vars
  <2>1. UNCHANGED << alive, calls >>
    BY <1>1, Frames DEF vars
  <2>2. \/ main' = main /\ opt' = opt
        \/ main \in Early /\ main' \in Early
        \/ main \notin Early \cup {"unwind", "interface"}
             /\ main' \notin Early \cup {"leave", "join"}
    <3>1. CASE wait_for_sysutils \/ exit_failure \/ main_begin
      BY <3>1 DEF wait_for_sysutils, exit_failure, main_begin, MainAt, Early
    <3>2. CASE modules_ready \/ report_stopped \/ sleep_one_second \/ stop_telemetry
      BY <3>2 DEF modules_ready, report_stopped, sleep_one_second, stop_telemetry, MainAt, Early
    <3>3. CASE send_pending_now \/ ask_to_quit \/ UNCHANGED vars
      BY <3>3 DEF send_pending_now, ask_to_quit, vars
    <3> QED  BY <1>1, <3>1, <3>2, <3>3 DEF Passing
  <2> QED  BY <2>1, <2>2 DEF Modules, Early
<1>2. CASE Building
  <2>0. UNCHANGED calls
    BY <1>2, Frames
  <2>1. CASE create_telemetry
    BY <2>0, <2>1 DEF create_telemetry, MainAt, Modules, Early
  <2>2. CASE create_interface
    BY <2>0, <2>2 DEF create_interface, MainAt, Modules, Early
  <2>3. CASE create_video
    BY <2>0, <2>3 DEF create_video, MainAt, Modules, Early
  <2>4. CASE disable_all_callables \/ destroy_video
    BY <2>0, <2>4 DEF disable_all_callables, destroy_video, MainAt, Modules, Early
  <2>5. CASE destroy_telemetry
    BY <2>0, <2>5 DEF destroy_telemetry, MainAt, Modules, Early, TelemetryCalls
  <2>6. CASE server_stop
    BY <2>0, <2>6 DEF server_stop, MainAt, Modules, Early
  <2>7. CASE throw
    BY <2>0, <2>7 DEF throw, Unwinding, Modules, Early
  <2>8. CASE main_return
    <3>1. calls \cap TelemetryCalls = {}
      BY <2>8 DEF main_return, MainAt, Modules
    <3> QED  BY <2>0, <2>8, <3>1 DEF main_return, MainAt
  <2>9. CASE unwound
    <3>1. calls \cap TelemetryCalls = {}
      BY <2>9 DEF unwound, TelemetryCalls
    <3> QED  BY <2>0, <2>9, <3>1 DEF unwound, MainAt
  <2> QED  BY <1>2, <2>1, <2>2, <2>3, <2>4, <2>5, <2>6, <2>7, <2>8, <2>9 DEF Building
<1>3. CASE ServerSteps
  <2>1. calls' \cap TelemetryCalls \subseteq calls
    BY <1>3 DEF ServerSteps, Server, server_open, server_poll, handle_client, send_response,
       client_connects, client_moves, TelemetryCalls
  <2> QED  BY <1>3, <2>1, Frames DEF Modules
<1>4. CASE CallSteps
  <2>1. CASE \E m \in {"interface", "video"} : telemetry_calls(m)
    BY <1>4, <2>1, Frames DEF telemetry_calls, Modules
  <2>2. CASE link_calls_video \/ \E c \in {"link", "telemetry"} : call_returns(c)
    <3>1. calls' \cap TelemetryCalls \subseteq calls
      BY <2>2 DEF link_calls_video, call_returns, TelemetryCalls
    <3> QED  BY <1>4, <3>1, Frames DEF Modules
  <2> QED  BY <1>4, <2>1, <2>2 DEF CallSteps
<1>5. CASE SettingSteps
  <2>1. \/ main' = main /\ opt' = opt
        \/ main \in Early /\ main' \in Early \cup {"unwind"}
    <3>1. CASE parse_option \/ parse_run_parameters
      BY <3>1 DEF parse_option, parse_run_parameters, MainAt, Early
    <3>2. CASE discover_platform \/ clean_all_settings \/ clear_reset_flag
      BY <3>2 DEF discover_platform, clean_all_settings, clear_reset_flag, MainAt, Early
    <3>3. CASE sysutils_applies \/ operator_requests_reset
      BY <3>3 DEF sysutils_applies, operator_requests_reset
    <3> QED  BY <1>5, <3>1, <3>2, <3>3 DEF SettingSteps
  <2> QED  BY <1>5, <2>1, Frames DEF Modules, Early
<1>6. CASE terminate
  BY <1>6, Terminated DEF Typed
<1> QED  BY <1>1, <1>2, <1>3, <1>4, <1>5, <1>6, Steps

(***************************************************************************)
(* The command line.                                                       *)
(***************************************************************************)

LEMMA NoneChosen == NoOptions \in Chosen /\ ~NoOptions.record
  BY DEF NoOptions, Chosen

\* One option of the command line: it keeps what is no option, and -r goes with air.
LEMMA ParsedOption ==
  ASSUME boot.line \in Seq(Letters), boot.line # << >>, opt \in Chosen,
         ParseOption(opt, Head(boot.line)).air # "error"
  PROVE  LET o == ParseOption(opt, Head(boot.line)) IN
         /\ o \in Chosen /\ o.performed = opt.performed
         /\ RecordFlies => (o.record /\ EnableAir => o.air = "air")
<1> DEFINE c == Head(boot.line)
<1>1. c \in Letters
  BY DEF Letters
<1> HIDE DEF c
<1>2. CASE c = "a" \/ c = "g"
  <2>1. PICK a \in {"air", "gnd", "error"} :
           ParseOption(opt, c) = [opt EXCEPT !.air = a] /\ (a # "error" => opt.air = None)
    BY <1>2 DEF ParseOption
  <2> QED  BY <2>1 DEF Chosen, RecordFlies, None, c
<1>3. CASE c = "r"
  <2>1. PICK a \in {"air", "error"} : ParseOption(opt, c) = [opt EXCEPT !.air = a, !.record = TRUE]
    BY <1>3 DEF ParseOption
  <2> QED  BY <2>1 DEF Chosen, c
<1>4. CASE c = "c"
  <2>1. ParseOption(opt, c) = [opt EXCEPT !.reset = TRUE]
    BY <1>4 DEF ParseOption
  <2> QED  BY <2>1 DEF Chosen, RecordFlies, c
<1>5. CASE c = "t"
  <2>1. ParseOption(opt, c) = opt
    BY <1>5 DEF ParseOption
  <2> QED  BY <2>1 DEF RecordFlies, c
<1> QED  BY <1>1, <1>2, <1>3, <1>4, <1>5 DEF Letters

\* What the command line and sysutils choose together.
LEMMA ChosenOptions ==
  ASSUME opt \in Chosen, su \in Sus, RecordFlies, NEW answered \in BOOLEAN
  PROVE  LET o == RunOptions(opt, request_sysutil_settings(answered)) IN
         o \in Chosen /\ (EnableAir /\ o.record => o.air = "air")
<1> DEFINE settings == request_sysutil_settings(answered)
<1>1. settings.reset \in BOOLEAN /\ settings.mode \in {None, "air", "ground", "record"}
  BY DEF request_sysutil_settings, Sus
<1> HIDE DEF settings
<1>2. PICK air \in {"air", "gnd"}, record \in BOOLEAN :
         /\ RunOptions(opt, settings) =
              [air |-> IF EnableAir THEN air ELSE "gnd", record |-> record,
               reset |-> opt.reset \/ settings.reset, from_sysutil |-> settings.reset,
               performed |-> FALSE]
         /\ EnableAir /\ record => air = "air"
  <2>1. CASE opt.air = None
    BY <2>1, <1>1 DEF RunOptions, None
  <2>2. CASE opt.air # None
    BY <2>2, <1>1 DEF RunOptions, Chosen, RecordFlies
  <2> QED  BY <2>1, <2>2
<1> QED  BY <1>1, <1>2, StartupAssumption DEF Chosen, settings

\* clean_all_settings notes that it was done; nothing else is changed after the start.
LEMMA NextOptions == Typed /\ Modules /\ OptionsFit /\ [Next]_vars => OptionsFit'
<1> SUFFICES ASSUME Typed, Modules, OptionsFit, [Next]_vars PROVE OptionsFit'
  OBVIOUS
<1> USE DEF OptionsFit
<1>1. CASE Passing \/ Building
  <2>1. /\ opt' = opt \/ opt' = NoOptions
        /\ boot' = boot \/ boot' \in [line : CommandLines, hw : Hardware]
    BY <1>1 DEF Passing, send_pending_now, wait_for_sysutils, modules_ready, report_stopped,
       sleep_one_second, stop_telemetry, exit_failure, main_begin, ask_to_quit,
       Building, create_telemetry, create_interface, create_video, disable_all_callables,
       destroy_video, destroy_telemetry, server_stop, main_return, throw, unwound
  <2>2. \A l \in CommandLines : l \in Seq(Letters)
    BY StartupAssumption DEF Letters
  <2>3. OptionsTyped' /\ RecordFlies'
    <3>1. boot' \in [line : Seq(Letters), hw : Hardware \cup {CHOOSE h \in Hardware : TRUE}]
      BY <2>1, <2>2 DEF OptionsTyped
    <3>2. opt' \in Chosen /\ RecordFlies'
      BY <2>1, NoneChosen DEF OptionsTyped, RecordFlies
    <3> QED  BY <3>1, <3>2 DEF OptionsTyped
  <2>4. CASE create_interface
    BY <2>3, <2>4 DEF create_interface, MainAt
  <2>5. CASE create_video
    BY <2>3, <2>5, StartupAssumption DEF create_video, MainAt, RecordFlies
  <2>6. CASE ~create_interface /\ ~create_video
    <3>1. \/ main' = main /\ alive' = alive /\ opt' = opt
          \/ main' \notin {"video", "nullptr"}
      BY <1>1, <2>6 DEF Passing, send_pending_now, wait_for_sysutils, modules_ready,
         report_stopped, sleep_one_second, stop_telemetry, exit_failure, main_begin,
         ask_to_quit, Building, create_telemetry, disable_all_callables, destroy_video,
         destroy_telemetry, server_stop, main_return, throw, unwound, MainAt
    <3> QED  BY <2>3, <3>1
  <2> QED  BY <2>4, <2>5, <2>6, <2>3
<1>2. CASE ServerSteps \/ CallSteps \/ UNCHANGED vars
  <2>1. UNCHANGED << boot, main, opt, alive >>
    BY <1>2 DEF ServerSteps, Server, server_open, server_poll, handle_client, send_response,
       client_connects, client_moves, CallSteps, link_calls_video, call_returns,
       telemetry_calls, vars
  <2> QED  BY <2>1 DEF OptionsTyped, RecordFlies
<1>3. CASE SettingSteps
  <2>1. alive' = alive /\ (main' = main \/ main' \notin {"video", "nullptr"})
    BY <1>3 DEF SettingSteps, parse_option, parse_run_parameters, discover_platform,
       clean_all_settings, clear_reset_flag, sysutils_applies, operator_requests_reset, MainAt
  <2>2. CASE parse_option
    <3>1. boot.line \in Seq(Letters) /\ boot.line # << >> /\ opt \in Chosen
      BY <2>2 DEF parse_option, OptionsTyped
    <3>2. boot' = [boot EXCEPT !.line = Tail(@)] /\ Tail(boot.line) \in Seq(Letters)
      BY <2>2, <3>1 DEF parse_option
    <3>3. opt' \in Chosen /\ RecordFlies'
      <4>1. CASE ParseOption(opt, Head(boot.line)).air = "error"
        BY <2>2, <4>1, NoneChosen DEF parse_option, RecordFlies
      <4>2. CASE ParseOption(opt, Head(boot.line)).air # "error"
        BY <2>2, <3>1, <4>2, ParsedOption DEF parse_option, RecordFlies
      <4> QED  BY <4>1, <4>2
    <3>4. main' # "video" /\ main' # "nullptr"
      BY <2>2 DEF parse_option
    <3> QED  BY <3>2, <3>3, <3>4 DEF OptionsTyped
  <2>3. CASE parse_run_parameters
    <3>1. PICK answered \in BOOLEAN : opt' = RunOptions(opt, request_sysutil_settings(answered))
      BY <2>3 DEF parse_run_parameters, Typed, Sus
    <3>2. opt' \in Chosen /\ RecordFlies'
      BY <3>1, ChosenOptions DEF Typed, OptionsTyped, RecordFlies
    <3>3. boot' = boot /\ main' = "platform"
      BY <2>3 DEF parse_run_parameters, MainAt
    <3> QED  BY <3>2, <3>3 DEF OptionsTyped
  <2>4. CASE discover_platform \/ clean_all_settings \/ clear_reset_flag \/ sysutils_applies
               \/ operator_requests_reset
    <3>1. boot' = boot /\ opt' \in {opt, [opt EXCEPT !.performed = TRUE]}
      BY <2>4 DEF discover_platform, clean_all_settings, clear_reset_flag, sysutils_applies,
         operator_requests_reset
    <3> QED  BY <2>1, <3>1 DEF OptionsTyped, RecordFlies, Chosen
  <2> QED  BY <1>3, <2>2, <2>3, <2>4 DEF SettingSteps
<1>4. CASE terminate
  BY <1>4, Terminated, NoneChosen DEF Typed, OptionsTyped, RecordFlies
<1> QED  BY <1>1, <1>2, <1>3, <1>4, Steps

(***************************************************************************)
(* The reset of the settings.                                              *)
(***************************************************************************)

LEMMA NextReset == IInv /\ [Next]_vars => ResetFits'
<1> SUFFICES ASSUME IInv, [Next]_vars PROVE ResetFits'
  OBVIOUS
<1> USE DEF ResetFits
<1> DEFINE Fresh == {"off", "wait", "parse", "platform", "clean"}
<1>1. CASE Passing \/ UNCHANGED vars
  <2>1. UNCHANGED << su, disk >>
    BY <1>1, Frames DEF vars
  <2>2. \/ opt' = opt /\ main' = main
        \/ opt' = opt /\ main \in Fresh /\ main' \in Fresh
        \/ main' \notin Fresh \cup {"clear_flag"}
        \/ main' = "off" /\ opt' = NoOptions
    BY <1>1 DEF Passing, send_pending_now, wait_for_sysutils, modules_ready, report_stopped,
       sleep_one_second, stop_telemetry, exit_failure, main_begin, ask_to_quit, MainAt, vars
  <2> QED  BY <2>1, <2>2 DEF IInv, NoOptions
<1>2. CASE Building
  <2>1. UNCHANGED su
    BY <1>2, Frames
  <2>2. disk'.settings = disk.settings
    BY <1>2 DEF Building, create_telemetry, create_interface, create_video,
       disable_all_callables, destroy_video, destroy_telemetry, server_stop, main_return,
       throw, unwound, IInv, Typed
  <2>3. \/ main' \notin Fresh \cup {"clear_flag"}
        \/ main' = "off" /\ opt' = NoOptions
    BY <1>2 DEF Building, create_telemetry, create_interface, create_video,
       disable_all_callables, destroy_video, destroy_telemetry, server_stop, main_return,
       throw, unwound, MainAt
  <2> QED  BY <2>1, <2>2, <2>3 DEF IInv, NoOptions
<1>3. CASE ServerSteps
  BY <1>3, Frames DEF IInv
<1>4. CASE CallSteps
  <2>1. \/ UNCHANGED disk
        \/ disk'.settings = "after" /\ calls \cap TelemetryCalls # {}
    <3>1. CASE link_calls_video
      BY <3>1 DEF link_calls_video
    <3>2. CASE \E m \in {"interface", "video"} : telemetry_calls(m)
      BY <3>2 DEF telemetry_calls
    <3>3. ASSUME NEW c \in {"link", "telemetry"}, call_returns(c), disk' # disk
          PROVE  disk'.settings = "after" /\ calls \cap TelemetryCalls # {}
      <4>1. /\ disk' = [disk EXCEPT !.settings = "after"]
            /\ \E call \in calls : call[1] = "telemetry"
        BY <3>3 DEF call_returns
      <4>2. calls \subseteq {ControlCall, LinkCall} \cup TelemetryCalls
              /\ disk \in [settings : {"before", "clean", "after", "crossed"}, platform : BOOLEAN,
                           running : BOOLEAN]
        BY DEF IInv, Typed
      <4>3. ControlCall[1] # "telemetry" /\ LinkCall[1] # "telemetry"
        BY DEF ControlCall, LinkCall
      <4> QED  BY <4>1, <4>2, <4>3
    <3> QED  BY <1>4, <3>1, <3>2, <3>3 DEF CallSteps
  <2>2. main = "clear_flag" => calls \cap TelemetryCalls = {}
    BY DEF IInv, Modules, TelemetryFits, Early
  <2> QED  BY <1>4, <2>1, <2>2, Frames DEF IInv
<1>5. CASE SettingSteps
  <2>1. CASE parse_run_parameters
    <3>1. ResetDone \in su'.owed => ResetDone \in su.owed
      BY <2>1, ModeUpdates DEF parse_run_parameters, IInv, Typed
    <3>2. main' \in Fresh /\ opt'.performed = FALSE
      <4>1. \/ main' = "off" /\ UNCHANGED opt
            \/ main' = "platform" /\ \E o, settings : opt' = RunOptions(o, settings)
        BY <2>1 DEF parse_run_parameters, MainAt
      <4>2. ASSUME NEW o, NEW settings PROVE RunOptions(o, settings).performed = FALSE
        BY DEF RunOptions
      <4>3. opt.performed = FALSE
        BY <2>1 DEF parse_run_parameters, MainAt, IInv
      <4> QED  BY <4>1, <4>2, <4>3
    <3> QED  BY <2>1, <3>1, <3>2 DEF parse_run_parameters, IInv
  <2>7. CASE parse_option
    <3>1. opt'.performed = FALSE /\ main' \in Fresh
      BY <2>7, ParsedOption DEF parse_option, IInv, OptionsFit, OptionsTyped, NoOptions
    <3> QED  BY <2>7, <3>1 DEF parse_option, IInv
  <2>2. CASE discover_platform
    BY <2>2 DEF discover_platform, MainAt, IInv, Typed
  <2>3. CASE clean_all_settings
    BY <2>3 DEF clean_all_settings, MainAt, IInv, Typed
  <2>4. CASE clear_reset_flag
    <3>1. ResetDone \in su'.owed => ResetDone \in su.owed \/ opt.performed
      BY <2>4 DEF clear_reset_flag, Update
    <3> QED  BY <2>4, <3>1 DEF clear_reset_flag, MainAt, IInv
  <2>5. CASE sysutils_applies
    <3>1. su'.owed \subseteq su.owed
      BY <2>5, AppliedUpdates DEF sysutils_applies, IInv, Typed
    <3> QED  BY <2>5, <3>1 DEF sysutils_applies, IInv
  <2>6. CASE operator_requests_reset
    <3>1. /\ su'.owed = su.owed /\ (disk.settings = "clean" => disk'.settings = "clean")
          /\ ResetDone \in su.owed => disk'.settings \in {"clean", "crossed"}
      BY <2>6 DEF operator_requests_reset, IInv, Typed, Sus, ResetDone
    <3> QED  BY <2>6, <3>1 DEF operator_requests_reset, IInv
  <2> QED  BY <1>5, <2>1, <2>2, <2>3, <2>4, <2>5, <2>6, <2>7 DEF SettingSteps
<1>6. CASE terminate
  BY <1>6, Terminated DEF IInv, Typed, NoOptions
<1> QED  BY <1>1, <1>2, <1>3, <1>4, <1>5, <1>6, Steps

(***************************************************************************)
(* The theorems.                                                           *)
(***************************************************************************)

LEMMA InitHolds == Init => IInv
<1> SUFFICES ASSUME Init PROVE IInv
  OBVIOUS
<1>1. Typed
  BY DEF Init, Typed, Sus, Idle, None
<1>2. Modules
  BY DEF Init, Modules, ServerFits, LinkFits, TelemetryFits, Idle, None
<1>3. OptionsFit
  BY DEF Init, OptionsFit, OptionsTyped, RecordFlies, NoOptions, Chosen
<1>4. ResetFits
  BY DEF Init, ResetFits, NoOptions
<1> QED  BY <1>1, <1>2, <1>3, <1>4 DEF IInv

LEMMA NextPreserves == IInv /\ [Next]_vars => IInv'
  BY NextTyped, NextServer, NextLink, NextTelemetry, NextOptions, NextReset DEF IInv, Modules

\* A behaviour that is about the socket leaves main() alone.
LEMMA Inductive == ProgramSpec => []IInv /\ [][Next]_vars
<1>1. ProgramInit => Init
  BY DEF ProgramInit
<1>2. [ProgramNext]_<< vars, sysVars >> => [Next]_vars
  BY DEF ProgramNext, vars
<1> QED  BY <1>1, <1>2, InitHolds, NextPreserves, PTL DEF ProgramSpec

\* In every order of construction and destruction, and whatever the threads of the
\* control server, the link and telemetry do meanwhile: what they call of the
\* interface and the link of the video exists for as long as the call runs (main.cpp).
THEOREM CallsReach == ProgramSpec => []CallsReachModules
<1>1. IInv => CallsReachModules
  BY DEF IInv, Typed, Modules, ServerFits, LinkFits, TelemetryFits, CallsReachModules,
     ControlCall, LinkCall, TelemetryCalls, None
<1> QED  BY <1>1, Inductive, PTL

\* With air support compiled in, main() never takes the link of an interface it has not
\* created, whatever the command line, its order and the mode that sysutils stores or
\* answers too late: only a unit that records goes without one, and that one flies
\* (parse_run_parameters, main).
THEOREM VideoGetsLink == ASSUME EnableAir PROVE ProgramSpec => []VideoHasLink
<1>1. IInv => VideoHasLink
  BY DEF IInv, OptionsFit, VideoHasLink
<1> QED  BY <1>1, Inductive, PTL

\* Both: what is called is there, however main() was started and ends.
THEOREM ModulesAreThere == ASSUME EnableAir PROVE ProgramSpec => []ModulesThere
  BY CallsReach, VideoGetsLink, PTL DEF ModulesThere

\* However late sysutils applies an update, and wherever a start is cut off, the
\* flag that asks for a reset goes only after the settings it was about have gone
\* (clean_all_settings, clear_reset_flag).
THEOREM ResetCarriedOut == ProgramSpec => ResetIsCarriedOut
<1>1. IInv /\ [Next]_vars => [su.reset /\ ~su'.reset => disk.settings # "before"]_vars
  <2> SUFFICES ASSUME IInv, [Next]_vars, su.reset, ~su'.reset
               PROVE  disk.settings # "before"
    OBVIOUS
  <2>1. CASE Passing \/ Building \/ ServerSteps \/ CallSteps \/ UNCHANGED vars
    BY <2>1, Frames DEF vars
  <2>2. CASE SettingSteps
    <3>1. CASE parse_run_parameters
      BY <3>1, ModeUpdates DEF parse_run_parameters, IInv, Typed
    <3>2. CASE parse_option \/ discover_platform \/ clean_all_settings
      BY <3>2 DEF parse_option, discover_platform, clean_all_settings
    <3>3. CASE clear_reset_flag
      BY <3>3 DEF clear_reset_flag, Update, MainAt, IInv, ResetFits
    <3>4. CASE sysutils_applies
      BY <3>4, AppliedUpdates DEF sysutils_applies, IInv, Typed, ResetFits
    <3>5. CASE operator_requests_reset
      BY <3>5 DEF operator_requests_reset
    <3> QED  BY <2>2, <3>1, <3>2, <3>3, <3>4, <3>5 DEF SettingSteps
  <2>3. CASE terminate
    BY <2>3, Terminated DEF IInv, Typed
  <2> QED  BY <2>1, <2>2, <2>3, Steps
<1> QED  BY <1>1, Inductive, PTL DEF ResetIsCarriedOut

(***************************************************************************)
(* The socket to sysutils. The invariant: what a thread's record says of   *)
(* its call alone, and what it says together with the Reporter's status    *)
(* and the daemon's queue.                                                 *)
(***************************************************************************)

NoCall == [op |-> Unset]
CallsOf(t) == IF t = "main" THEN AnyCalls \cup MainCalls ELSE AnyCalls
SomeCall == AnyCalls \cup MainCalls \cup {NoCall}
Codes == STRING
Messages ==
  {NoMsg, << "request" >>, << "nothing" >>, << "indicator.clear" >>}
  \cup {"indicator.set"} \X States \cup {"indicator.status"} \X Codes
Places == {"idle", "connect", "write", "read", "now", "join", "ended"}
Pieces == {"empty", "part", "good", "bare", "refused", "mistyped", "closed"}
ThreadState == [at : Places, call : SomeCall, msg : Messages, n : Nat,
                rx : Pieces, chunks : Nat, smooth : BOOLEAN, ok : BOOLEAN, did : BOOLEAN]
Connections == [by : Threads, n : Nat, msg : Messages]

PlanTyped ==
  /\ plan \in [use : BOOLEAN, calls : {plan.calls}, restarts : Nat, days : Nat]
  /\ plan.calls = [t \in Threads \ {Worker} |-> plan.calls[t]]
  /\ \A t \in Threads \ {Worker} : plan.calls[t] \in Seq(CallsOf(t))

Reporters == [status : States \cup {Unset}, pending : BOOLEAN, fresh : BOOLEAN, recent : SUBSET Codes,
              shutdown : BOOLEAN]

SysTyped ==
  /\ thread \in [Threads -> ThreadState] /\ Worker \in Threads
  /\ reporter \in Reporters
  /\ sock \in [up : BOOLEAN, queue : Seq(Connections)]

\* Only main() reports, waits, clears and exits; only a request waits for an
\* answer, and what it waited for was done if the answer says so.
CallFits(t, r) ==
  /\ r.call \in IF t = Worker THEN {NoCall} ELSE CallsOf(t) \cup {NoCall}
  /\ r.at \in {"connect", "write"} =>
       /\ r.msg[1] = "request" <=> r.call.op = "request"
       /\ r.call.op = "report" => r.msg = << "indicator.set", r.call.state >>
  /\ r.at = "read" => r.call.op = "request" /\ (r.rx \in {"good", "bare"} => r.did)
  /\ r.at = "write" => r.rx = "empty"
  /\ r.at = "now" => r.call.op \in {"report", "clear"}
  /\ r.at = "join" => r.call.op = "exit"
  /\ r.at = "idle" /\ r.ok /\ r.call.op = "request" => r.did

\* The status to report is the last call's, since nobody else changes it; a
\* daemon that was there all the time has not passed an empty connection.
SharedFits(t, r) ==
  /\ r.at = "now" /\ r.call.op = "report" => reporter.status = r.call.state
  /\ r.smooth /\ r.at \in {"now", "connect", "write"} => sock.up
  /\ r.smooth /\ r.at = "write" =>
       \E i \in DOMAIN sock.queue :
          sock.queue[i].by = t /\ sock.queue[i].n = r.n /\ sock.queue[i].msg = NoMsg

SysInv == SysTyped /\ PlanTyped /\ \A t \in Threads : CallFits(t, thread[t]) /\ SharedFits(t, thread[t])

---------------------------------------------------------------------------
(* What the updates of a thread's record leave and change.                 *)

LEMMA EndedRecord ==
  ASSUME NEW t \in Threads, thread[t] \in ThreadState, NEW ok \in BOOLEAN
  PROVE  LET q == Returned(t, ok) IN
         /\ q \in ThreadState /\ q.at = "idle" /\ q.ok = ok /\ q.call = thread[t].call
         /\ q.smooth = thread[t].smooth /\ q.did = (thread[t].did /\ ok)
<1> DEFINE d == thread[t].did /\ ok
           q == [thread[t] EXCEPT !.at = "idle", !.ok = ok, !.msg = NoMsg, !.rx = "empty",
                                  !.chunks = 0, !.did = d]
<1>1. Returned(t, ok) = q
  BY DEF Returned, ThreadState
<1>2. d \in BOOLEAN
  BY DEF ThreadState
<1>3. NoMsg \in Messages /\ "idle" \in Places /\ "empty" \in Pieces
  BY DEF Messages, Places, Pieces
<1>4. /\ q.at = "idle" /\ q.ok = ok /\ q.call = thread[t].call
      /\ q.smooth = thread[t].smooth /\ q.did = d
  <2> HIDE DEF d
  <2> QED  BY DEF ThreadState
<1>5. q \in ThreadState
  <2> HIDE DEF d
  <2> QED  BY <1>2, <1>3 DEF ThreadState
<1> QED  BY <1>1, <1>4, <1>5

LEMMA ConnectedRecord ==
  ASSUME NEW r \in ThreadState
  PROVE  LET q == [r EXCEPT !.at = "write", !.n = @ + 1, !.rx = "empty", !.chunks = 0, !.did = FALSE] IN
         /\ q \in ThreadState /\ q.at = "write" /\ q.n = r.n + 1 /\ q.call = r.call
         /\ q.smooth = r.smooth /\ q.msg = r.msg /\ q.rx = "empty"
<1> DEFINE k == r.n + 1
<1>1. k \in Nat
  BY DEF ThreadState
<1> HIDE DEF k
<1>2. LET q == [r EXCEPT !.at = "write", !.n = k, !.rx = "empty", !.chunks = 0, !.did = FALSE] IN
      /\ q \in ThreadState /\ q.at = "write" /\ q.n = k /\ q.call = r.call
      /\ q.smooth = r.smooth /\ q.msg = r.msg /\ q.rx = "empty"
  BY <1>1 DEF ThreadState, Places, Pieces
<1> QED  BY <1>2 DEF k

LEMMA AwaitingRecord ==
  ASSUME NEW r \in ThreadState
  PROVE  LET q == [r EXCEPT !.at = "read"] IN
         /\ q \in ThreadState /\ q.at = "read" /\ q.call = r.call /\ q.rx = r.rx
  BY DEF ThreadState, Places, Pieces

LEMMA CollectedRecord ==
  ASSUME NEW r \in ThreadState
  PROVE  LET q == [r EXCEPT !.rx = "empty", !.chunks = @ + 1] IN
         /\ q \in ThreadState /\ q.at = r.at /\ q.call = r.call /\ q.rx = "empty"
<1> DEFINE k == r.chunks + 1
<1>1. k \in Nat
  BY DEF ThreadState
<1> HIDE DEF k
<1>2. LET q == [r EXCEPT !.rx = "empty", !.chunks = k] IN
      /\ q \in ThreadState /\ q.at = r.at /\ q.call = r.call /\ q.rx = "empty"
  BY <1>1 DEF ThreadState, Places, Pieces
<1> QED  BY <1>2 DEF k

LEMMA SendingRecord ==
  ASSUME NEW r \in ThreadState, NEW m \in Messages
  PROVE  LET q == [r EXCEPT !.at = "connect", !.msg = m] IN
         /\ q \in ThreadState /\ q.at = "connect" /\ q.msg = m /\ q.call = r.call /\ q.smooth = r.smooth
  BY DEF ThreadState, Places, Pieces

Woken(r, m, up) == [r EXCEPT !.at = "connect", !.msg = m, !.smooth = up]
LEMMA WokenRecord ==
  ASSUME NEW r \in ThreadState, NEW m \in Messages, NEW up \in BOOLEAN
  PROVE  LET q == Woken(r, m, up) IN
         /\ q \in ThreadState /\ q.at = "connect" /\ q.msg = m /\ q.call = r.call /\ q.smooth = up
  BY DEF Woken, ThreadState, Places, Pieces

Begun(r, at, c, m, up) == [r EXCEPT !.at = at, !.call = c, !.msg = m, !.smooth = up, !.ok = FALSE]
LEMMA BegunRecord ==
  ASSUME NEW r \in ThreadState, NEW at \in Places, NEW c \in SomeCall,
         NEW m \in Messages, NEW up \in BOOLEAN
  PROVE  LET q == Begun(r, at, c, m, up) IN
         /\ q \in ThreadState /\ q.at = at /\ q.call = c /\ q.msg = m /\ q.smooth = up /\ ~q.ok
  BY DEF Begun, ThreadState, Places, Pieces

Answered(r, rx, done) == [r EXCEPT !.rx = rx, !.did = done]
LEMMA AnsweredRecord ==
  ASSUME NEW r \in ThreadState, NEW rx \in Pieces, NEW done \in BOOLEAN
  PROVE  LET q == Answered(r, rx, done) IN
         /\ q \in ThreadState /\ q.at = r.at /\ q.call = r.call /\ q.rx = rx /\ q.did = done
  BY DEF Answered, ThreadState, Places, Pieces

LEMMA CutRecord ==
  ASSUME NEW r \in ThreadState, NEW rx \in Pieces
  PROVE  LET q == [r EXCEPT !.smooth = FALSE, !.rx = rx] IN
         /\ q \in ThreadState /\ q.at = r.at /\ q.call = r.call /\ q.msg = r.msg /\ q.rx = rx
         /\ q.did = r.did /\ q.ok = r.ok /\ q.smooth = FALSE
  BY DEF ThreadState, Places, Pieces

---------------------------------------------------------------------------
(* One thread's step: the others keep their records.                       *)

LEMMA OneGoes ==
  ASSUME SysTyped, NEW t \in Threads, NEW r \in ThreadState, Goes(t, r)
  PROVE  /\ Threads' = Threads /\ thread' \in [Threads -> ThreadState]
         /\ thread'[t] = r /\ \A u \in Threads \ {t} : thread'[u] = thread[u]
  BY DEF SysTyped, Goes, Threads

StatusKept(t) == reporter'.status = reporter.status \/ (t = "main" /\ thread[t].at = "idle")
QueueKept(t) ==
  /\ sock'.up = sock.up
  /\ \A u \in Threads \ {t}, i \in DOMAIN sock.queue :
       sock.queue[i].by = u => i \in DOMAIN sock'.queue /\ sock'.queue[i] = sock.queue[i]

\* A step of t that leaves the status and keeps the daemon and the empty
\* connections of the others leaves what is said of the others.
LEMMA OthersFit ==
  ASSUME SysInv, NEW t \in Threads, NEW r \in ThreadState, Goes(t, r),
         StatusKept(t), QueueKept(t)
  PROVE  \A u \in Threads \ {t} : CallFits(u, thread[u])' /\ SharedFits(u, thread[u])'
<1> SUFFICES ASSUME NEW u \in Threads \ {t}
            PROVE CallFits(u, thread[u])' /\ SharedFits(u, thread[u])'
  OBVIOUS
<1>1. thread'[u] = thread[u]
  BY OneGoes DEF SysInv
<1>2. CallFits(u, thread[u]) /\ SharedFits(u, thread[u])
  BY DEF SysInv
<1>3. thread[u].at = "now" => u = "main"
  BY <1>2 DEF CallFits, CallsOf, AnyCalls, NoCall, Unset
<1>4. SharedFits(u, thread[u])'
  <2>1. thread[u].at = "now" => reporter'.status = reporter.status
    BY <1>3 DEF StatusKept
  <2> QED  BY <1>1, <1>2, <2>1 DEF SharedFits, QueueKept
<1>5. CallFits(u, thread[u])'
  BY <1>1, <1>2 DEF CallFits
<1> QED  BY <1>4, <1>5

LEMMA StepFits ==
  ASSUME SysInv, NEW t \in Threads, NEW r \in ThreadState, Goes(t, r),
         PlanTyped', reporter' \in Reporters, sock' \in [up : BOOLEAN, queue : Seq(Connections)],
         StatusKept(t), QueueKept(t), CallFits(t, r), SharedFits(t, thread[t])'
  PROVE  SysInv'
<1>1. /\ Threads' = Threads /\ thread' \in [Threads -> ThreadState] /\ thread'[t] = r
      /\ Connections' = Connections /\ Worker \in Threads'
  BY OneGoes DEF SysInv, SysTyped, Connections
<1>2. SysTyped'
  BY <1>1 DEF SysTyped
<1>3. CallFits(t, thread[t])'
  BY <1>1 DEF CallFits
<1> QED  BY <1>1, <1>2, <1>3, OthersFit DEF SysInv

---------------------------------------------------------------------------
(* The steps of a call.                                                    *)

LEMMA Known ==
  ASSUME SysInv, NEW t \in Threads
  PROVE  /\ thread[t] \in ThreadState /\ CallFits(t, thread[t]) /\ SharedFits(t, thread[t])
         /\ reporter \in Reporters /\ sock \in [up : BOOLEAN, queue : Seq(Connections)]
         /\ thread[t].call \in SomeCall /\ thread[t].msg \in Messages /\ thread[t].n \in Nat
  BY DEF SysInv, SysTyped, ThreadState

LEMMA SentTyped ==
  ASSUME SysInv, NEW t \in Threads, Sent(t)
  PROVE  reporter' \in Reporters /\ reporter'.status = reporter.status
  BY DEF SysInv, SysTyped, Sent, Reporters

\* The call is over and nothing but the record and the time of the last report changes.
LEMMA EndFits ==
  ASSUME SysInv, NEW t \in Threads, NEW ok \in BOOLEAN, Goes(t, Returned(t, ok)),
         ok /\ thread[t].call.op = "request" => thread[t].did,
         reporter' \in Reporters, reporter'.status = reporter.status, UNCHANGED plan,
         sock' \in [up : BOOLEAN, queue : Seq(Connections)], QueueKept(t)
  PROVE  SysInv'
<1> DEFINE r == Returned(t, ok)
<1>1. /\ r \in ThreadState /\ r.at = "idle" /\ r.ok = ok /\ r.call = thread[t].call
      /\ r.did = (thread[t].did /\ ok)
  BY Known, EndedRecord
<1>2. Goes(t, r)
  OBVIOUS
<1> HIDE DEF r
<1>3. CallFits(t, r)
  BY <1>1, Known DEF CallFits
<1>4. thread'[t] = r /\ Threads' = Threads
  BY <1>1, <1>2, OneGoes DEF SysInv
<1>5. SharedFits(t, thread[t])'
  BY <1>1, <1>4 DEF SharedFits
<1>6. PlanTyped'
  BY <1>4 DEF SysInv, PlanTyped
<1>7. StatusKept(t)
  BY DEF StatusKept
<1> QED  BY <1>1, <1>2, <1>3, <1>5, <1>6, <1>7, StepFits

LEMMA NothingQueued ==
  ASSUME SysInv, NEW t \in Threads, UNCHANGED sock
  PROVE  sock' \in [up : BOOLEAN, queue : Seq(Connections)] /\ QueueKept(t)
  BY Known DEF QueueKept

LEMMA QueueSet ==
  ASSUME NEW s \in [up : BOOLEAN, queue : Seq(Connections)], NEW q \in Seq(Connections)
  PROVE  LET u == [s EXCEPT !.queue = q] IN
         u \in [up : BOOLEAN, queue : Seq(Connections)] /\ u.up = s.up /\ u.queue = q
  OBVIOUS

LEMMA MessageSet ==
  ASSUME NEW s \in Connections, NEW m \in Messages
  PROVE  [s EXCEPT !.msg = m] \in Connections
  BY DEF Connections

LEMMA ConnectFits == ASSUME SysInv, NEW t \in Threads, connect(t) PROVE SysInv'
<1>1. plan' = plan /\ At(t, "connect")
  BY DEF connect
<1>2. CASE Goes(t, Returned(t, FALSE)) /\ Sent(t) /\ UNCHANGED sock
  BY <1>1, <1>2, SentTyped, NothingQueued, EndFits
<1> DEFINE c == [by |-> t, n |-> thread[t].n + 1, msg |-> NoMsg]
           r == [thread[t] EXCEPT !.at = "write", !.n = @ + 1, !.rx = "empty", !.chunks = 0, !.did = FALSE]
<1>3. CASE /\ sock.up /\ sock' = [sock EXCEPT !.queue = Append(@, c)]
           /\ Goes(t, r) /\ UNCHANGED reporter
  <2>1. /\ r \in ThreadState /\ r.at = "write" /\ r.n = thread[t].n + 1
        /\ r.call = thread[t].call /\ r.smooth = thread[t].smooth /\ r.msg = thread[t].msg
        /\ r.rx = "empty"
    BY Known, ConnectedRecord
  <2>2. c \in Connections /\ c.by = t /\ c.n = thread[t].n + 1 /\ c.msg = NoMsg
    BY Known DEF Connections, Messages
  <2>3. Goes(t, r)
    BY <1>3
  <2> HIDE DEF c, r
  <2>4. sock.queue \in Seq(Connections) /\ Append(sock.queue, c) \in Seq(Connections)
    BY <2>2, Known
  <2>5. /\ sock' \in [up : BOOLEAN, queue : Seq(Connections)] /\ sock'.up = sock.up
        /\ sock'.queue = Append(sock.queue, c)
    BY <1>3, <2>4, Known, QueueSet
  <2>6. QueueKept(t)
    BY <2>4, <2>5 DEF QueueKept
  <2>7. CallFits(t, r)
    BY <1>1, <2>1, Known DEF CallFits, At
  <2>8. thread'[t] = r /\ Threads' = Threads
    BY <2>1, <2>3, OneGoes DEF SysInv
  <2>9. Len(sock.queue) + 1 \in DOMAIN sock'.queue /\ sock'.queue[Len(sock.queue) + 1] = c
    BY <2>2, <2>4, <2>5
  <2>10. SharedFits(t, thread[t])'
    BY <1>3, <2>1, <2>2, <2>5, <2>8, <2>9 DEF SharedFits
  <2>11. PlanTyped'
    BY <1>1, <2>8 DEF SysInv, PlanTyped
  <2>12. StatusKept(t) /\ reporter' \in Reporters
    BY <1>3, Known DEF StatusKept
  <2> QED  BY <2>1, <2>3, <2>5, <2>6, <2>7, <2>10, <2>11, <2>12, StepFits
<1> QED  BY <1>2, <1>3 DEF connect

LEMMA WriteFits == ASSUME SysInv, NEW t \in Threads, write_all(t) PROVE SysInv'
<1> DEFINE gone == Connection(t) = {}
           c == CHOOSE i \in Connection(t) : TRUE
           r == [thread[t] EXCEPT !.at = "read"]
           over == ~gone \/ thread[t].call.op = "wait"
<1>1. /\ plan' = plan /\ At(t, "write")
      /\ sock' = IF gone THEN sock ELSE [sock EXCEPT !.queue[c].msg = thread[t].msg]
      /\ IF thread[t].msg[1] = "request" /\ ~gone
         THEN Goes(t, r) /\ UNCHANGED reporter
         ELSE Goes(t, Returned(t, over)) /\ Sent(t)
  BY DEF write_all
<1>2. /\ sock.queue \in Seq(Connections) /\ thread[t].msg \in Messages
  BY Known
<1>3. ~gone => c \in DOMAIN sock.queue /\ sock.queue[c].by = t
  BY DEF Connection
<1>4. over \in BOOLEAN /\ (over /\ gone => thread[t].call.op = "wait")
  OBVIOUS
<1>5. thread[t].msg[1] = "request" <=> thread[t].call.op = "request"
  BY <1>1, Known DEF CallFits, At
<1>6. r \in ThreadState /\ r.at = "read" /\ r.call = thread[t].call /\ r.rx = thread[t].rx
  BY Known, AwaitingRecord
<1>7. thread[t].rx = "empty"
  BY <1>1, Known DEF CallFits, At
<1> HIDE DEF c, over, gone, r
<1>8. sock' \in [up : BOOLEAN, queue : Seq(Connections)] /\ QueueKept(t)
  <2>1. CASE gone
    BY <1>1, <2>1, NothingQueued
  <2>2. CASE ~gone
    <3> DEFINE d == [sock.queue[c] EXCEPT !.msg = thread[t].msg]
               q == [sock.queue EXCEPT ![c] = d]
    <3>1. d \in Connections
      BY <1>2, <1>3, <2>2, MessageSet
    <3>2. sock' = [sock EXCEPT !.queue = q]
      BY <1>1, <2>2
    <3> HIDE DEF d
    <3>3. q \in Seq(Connections) /\ \A i \in DOMAIN sock.queue :
             i \in DOMAIN q /\ (i # c => q[i] = sock.queue[i])
      BY <1>2, <1>3, <2>2, <3>1
    <3> HIDE DEF q
    <3>4. /\ sock' \in [up : BOOLEAN, queue : Seq(Connections)] /\ sock'.up = sock.up
          /\ sock'.queue = q
      BY <3>2, <3>3, Known, QueueSet
    <3> QED  BY <1>3, <2>2, <3>3, <3>4 DEF QueueKept
  <2> QED  BY <2>1, <2>2
<1>9. CASE thread[t].msg[1] = "request" /\ ~gone
  <2>1. thread'[t] = r /\ Threads' = Threads /\ Goes(t, r) /\ reporter' = reporter
    BY <1>1, <1>6, <1>9, OneGoes DEF SysInv
  <2>2. CallFits(t, r)
    BY <1>5, <1>6, <1>7, <1>9, Known DEF CallFits
  <2>3. SharedFits(t, thread[t])'
    BY <1>6, <2>1 DEF SharedFits
  <2>4. PlanTyped'
    BY <1>1, <2>1 DEF SysInv, PlanTyped
  <2>5. StatusKept(t) /\ reporter' \in Reporters
    BY <2>1, Known DEF StatusKept
  <2> QED  BY <1>6, <1>8, <2>1, <2>2, <2>3, <2>4, <2>5, StepFits
<1>10. CASE ~(thread[t].msg[1] = "request" /\ ~gone)
  <2>1. over /\ thread[t].call.op = "request" => thread[t].did
    BY <1>4, <1>5, <1>10
  <2> QED  BY <1>1, <1>4, <1>8, <1>10, <2>1, SentTyped, EndFits
<1> QED  BY <1>9, <1>10

LEMMA AcceptedWell ==
  ASSUME NEW kind \in Kinds, NEW rx
  PROVE  Accepted(kind, rx) \in BOOLEAN /\ (Accepted(kind, rx) => rx \in {"good", "bare"})
<1>1. CASE kind = "platform"
  <2>1. Accepted(kind, rx) <=> rx = "good"
    BY <1>1, SMT DEF Accepted, AcceptPlatform
  <2>2. Accepted(kind, rx) \in BOOLEAN
    BY <1>1, SMT DEF Accepted, AcceptPlatform
  <2> QED  BY <2>1, <2>2
<1>2. CASE kind = "settings"
  <2>1. Accepted(kind, rx) <=> rx \in {"good", "bare"}
    BY <1>2, SMT DEF Accepted, AcceptSettings
  <2>2. Accepted(kind, rx) \in BOOLEAN
    BY <1>2, SMT DEF Accepted, AcceptSettings
  <2> QED  BY <2>1, <2>2
<1>3. CASE kind = "update"
  <2>1. Accepted(kind, rx) <=> rx \in {"good", "bare"}
    BY <1>3, SMT DEF Accepted, AcceptUpdate
  <2>2. Accepted(kind, rx) \in BOOLEAN
    BY <1>3, SMT DEF Accepted, AcceptUpdate
  <2> QED  BY <2>1, <2>2
<1>4. CASE kind = "camera"
  <2>1. Accepted(kind, rx) <=> rx \in {"good", "bare"}
    BY <1>4, SMT DEF Accepted, AcceptCamera
  <2>2. Accepted(kind, rx) \in BOOLEAN
    BY <1>4, SMT DEF Accepted, AcceptCamera
  <2> QED  BY <2>1, <2>2
<1>5. CASE kind = "cards"
  <2>1. Accepted(kind, rx) <=> rx \in {"good", "bare"}
    BY <1>5, SMT DEF Accepted, AcceptCards
  <2>2. Accepted(kind, rx) \in BOOLEAN
    BY <1>5, SMT DEF Accepted, AcceptCards
  <2> QED  BY <2>1, <2>2
<1> QED  BY <1>1, <1>2, <1>3, <1>4, <1>5 DEF Kinds

LEMMA ReadFits ==
  ASSUME SysInv, NEW t \in Threads, read_line(t) \/ Deadline(t)
  PROVE  SysInv'
<1> DEFINE ok == Accepted(thread[t].call.kind, thread[t].rx)
           r == [thread[t] EXCEPT !.rx = "empty", !.chunks = @ + 1]
<1>1. At(t, "read") /\ UNCHANGED << plan, reporter, sock >>
  BY DEF read_line, Deadline
<1>2. thread[t].call.op = "request" /\ (thread[t].rx \in {"good", "bare"} => thread[t].did)
  BY <1>1, Known DEF CallFits, At
<1>3. thread[t].call.kind \in Kinds
  BY <1>2, Known DEF SomeCall, AnyCalls, MainCalls, NoCall, Unset
<1>4. ok \in BOOLEAN /\ (ok => thread[t].did)
  BY <1>2, <1>3, AcceptedWell
<1>5. r \in ThreadState /\ r.at = "read" /\ r.call = thread[t].call /\ r.rx = "empty"
  BY <1>1, Known, CollectedRecord DEF At
<1>6. Goes(t, r) \/ Goes(t, Returned(t, ok)) \/ Goes(t, Returned(t, FALSE))
  BY DEF read_line, Deadline
<1> HIDE DEF ok, r
<1>7. reporter' \in Reporters /\ reporter'.status = reporter.status
  BY <1>1, Known
<1>8. CASE Goes(t, r)
  <2>1. thread'[t] = r /\ Threads' = Threads
    BY <1>5, <1>8, OneGoes DEF SysInv
  <2>2. CallFits(t, r)
    BY <1>2, <1>5, Known DEF CallFits
  <2>3. SharedFits(t, thread[t])'
    BY <1>5, <2>1 DEF SharedFits
  <2>4. PlanTyped'
    BY <1>1, <2>1 DEF SysInv, PlanTyped
  <2>5. StatusKept(t)
    BY <1>7 DEF StatusKept
  <2> QED  BY <1>1, <1>5, <1>7, <1>8, <2>2, <2>3, <2>4, <2>5, NothingQueued, StepFits
<1>9. CASE Goes(t, Returned(t, ok))
  BY <1>1, <1>4, <1>7, <1>9, NothingQueued, EndFits
<1>10. CASE Goes(t, Returned(t, FALSE))
  BY <1>1, <1>7, <1>10, NothingQueued, EndFits
<1> QED  BY <1>6, <1>8, <1>9, <1>10

LEMMA JoinFits == ASSUME SysInv, NEW t \in Threads, join_worker(t) PROVE SysInv'
<1>1. At(t, "join") /\ Goes(t, Returned(t, TRUE)) /\ UNCHANGED << plan, reporter, sock >>
  BY DEF join_worker
<1>2. thread[t].call.op = "exit"
  BY <1>1, Known DEF CallFits, At
<1>3. reporter' \in Reporters /\ reporter'.status = reporter.status
  BY <1>1, Known
<1> QED  BY <1>1, <1>2, <1>3, NothingQueued, EndFits

LEMMA MessageOfReporter ==
  ASSUME SysInv
  PROVE  /\ Message \in Messages /\ Message[1] # "request"
         /\ reporter.status \in States => Message = << "indicator.set", reporter.status >>
<1>1. reporter.status \in States \cup {Unset}
  BY DEF SysInv, SysTyped, Reporters
<1>2. CASE reporter.status = Unset
  BY <1>2 DEF Message, Messages, States, Unset
<1>3. CASE reporter.status \in States
  <2>1. Message = << "indicator.set", reporter.status >>
    BY <1>3 DEF Message, States, Unset
  <2> QED  BY <1>3, <2>1 DEF Messages
<1> QED  BY <1>1, <1>2, <1>3

LEMMA LoweredFlag ==
  ASSUME NEW s \in Reporters, NEW b \in BOOLEAN
  PROVE  LET u == [s EXCEPT !.pending = b] IN u \in Reporters /\ u.status = s.status
  BY DEF Reporters

LEMMA SendFits == ASSUME SysInv, NEW t \in Threads, send_now(t) PROVE SysInv'
<1> DEFINE r == [thread[t] EXCEPT !.at = "connect", !.msg = Message]
<1>1. /\ At(t, "now") /\ Goes(t, r) /\ reporter' = [reporter EXCEPT !.pending = FALSE]
      /\ UNCHANGED << plan, sock >>
  BY DEF send_now
<1>2. /\ r \in ThreadState /\ r.at = "connect" /\ r.msg = Message /\ r.call = thread[t].call
      /\ r.smooth = thread[t].smooth
  BY Known, MessageOfReporter, SendingRecord
<1>3. thread[t].call.op \in {"report", "clear"}
  BY <1>1, Known DEF CallFits, At
<1>4. thread[t].call.op = "report" => thread[t].call.state \in States
  BY Known DEF SomeCall, AnyCalls, MainCalls, NoCall, Unset
<1>5. thread[t].call.op = "report" => reporter.status = thread[t].call.state
  BY <1>1, Known DEF SharedFits, At
<1>6. thread[t].smooth => sock.up
  BY <1>1, Known DEF SharedFits, At
<1> HIDE DEF r
<1>7. CallFits(t, r)
  BY <1>2, <1>3, <1>4, <1>5, Known, MessageOfReporter DEF CallFits
<1>8. thread'[t] = r /\ Threads' = Threads
  BY <1>1, <1>2, OneGoes DEF SysInv
<1>9. SharedFits(t, thread[t])'
  BY <1>1, <1>2, <1>6, <1>8 DEF SharedFits
<1>10. reporter' \in Reporters /\ StatusKept(t)
  BY <1>1, Known, LoweredFlag DEF StatusKept
<1>11. PlanTyped'
  BY <1>1, <1>8 DEF SysInv, PlanTyped
<1> QED  BY <1>1, <1>2, <1>7, <1>9, <1>10, <1>11, NothingQueued, StepFits

---------------------------------------------------------------------------
(* The beginnings of the calls.                                            *)

LEMMA BegunPlan ==
  ASSUME SysInv, NEW t \in Threads, NEW op, Begins(t, op), Threads' = Threads
  PROVE  /\ PlanTyped' /\ t # Worker /\ thread[t].at = "idle"
         /\ Call(t) \in CallsOf(t) /\ Call(t) \in SomeCall /\ Call(t).op = op
<1>1. t \in Threads \ {Worker} /\ plan.calls[t] # << >> /\ Head(plan.calls[t]).op = op
      /\ plan' = [plan EXCEPT !.calls[t] = Tail(@)] /\ thread[t].at = "idle"
  BY DEF Begins, At
<1>2. plan.calls[t] \in Seq(CallsOf(t))
  BY <1>1 DEF SysInv, PlanTyped
<1>3. Tail(plan.calls[t]) \in Seq(CallsOf(t)) /\ Head(plan.calls[t]) \in CallsOf(t)
  BY <1>1, <1>2
<1>4. Call(t) \in CallsOf(t) /\ Call(t) \in SomeCall /\ Call(t).op = op
  BY <1>1, <1>3 DEF Call, CallsOf, SomeCall
<1> DEFINE rest == [plan.calls EXCEPT ![t] = Tail(plan.calls[t])]
<1>5. plan' = [plan EXCEPT !.calls = rest]
  BY <1>1
<1>6. /\ rest = [u \in Threads \ {Worker} |-> rest[u]]
      /\ \A u \in Threads \ {Worker} : rest[u] \in Seq(CallsOf(u))
  BY <1>1, <1>3 DEF SysInv, PlanTyped
<1> HIDE DEF rest
<1>7. plan'.calls = rest /\ plan' \in [use : BOOLEAN, calls : {rest}, restarts : Nat, days : Nat]
  BY <1>5 DEF SysInv, PlanTyped
<1>8. PlanTyped'
  BY <1>6, <1>7 DEF PlanTyped
<1> QED  BY <1>1, <1>4, <1>8

\* What every beginning has in common.
Opens(op, at, m) ==
  /\ at = "connect" => op # "report" /\ (m[1] = "request" <=> op = "request")
  /\ at = "now" => op \in {"report", "clear"}
  /\ at = "join" => op = "exit"

LEMMA BeginFits ==
  ASSUME SysInv, NEW t \in Threads, NEW op, NEW at \in {"idle", "connect", "now", "join"}, NEW m \in Messages,
         Begins(t, op), Calls(t, at, m), UNCHANGED sock, reporter' \in Reporters,
         reporter'.status = reporter.status \/ t = "main", Opens(op, at, m),
         at = "now" /\ op = "report" => reporter'.status = Call(t).state
  PROVE  SysInv'
<1> DEFINE r == Begun(thread[t], at, Call(t), m, sock.up)
<1>1. Goes(t, r)
  BY DEF Calls, Begun
<1>2. Call(t) \in SomeCall
  <2>1. t # Worker /\ plan.calls[t] # << >> /\ plan.calls[t] \in Seq(CallsOf(t))
    BY DEF Begins, SysInv, PlanTyped
  <2> QED  BY <2>1 DEF Call, CallsOf, SomeCall
<1>3. /\ r \in ThreadState /\ r.at = at /\ r.call = Call(t) /\ r.msg = m /\ r.smooth = sock.up
      /\ ~r.ok
  <2>1. at \in Places /\ sock.up \in BOOLEAN /\ thread[t] \in ThreadState
    BY Known DEF Places
  <2> QED  BY <1>2, <2>1, BegunRecord
<1> HIDE DEF r
<1>4. thread'[t] = r /\ Threads' = Threads
  BY <1>1, <1>3, OneGoes DEF SysInv
<1>5. /\ PlanTyped' /\ t # Worker /\ thread[t].at = "idle"
      /\ Call(t) \in CallsOf(t) /\ Call(t).op = op
  BY <1>4, BegunPlan
<1>6. CallFits(t, r)
  BY <1>3, <1>5 DEF CallFits, Opens
<1>7. SharedFits(t, thread[t])'
  BY <1>3, <1>4, <1>5 DEF SharedFits
<1>8. StatusKept(t)
  BY <1>5 DEF StatusKept
<1> QED  BY <1>1, <1>3, <1>5, <1>6, <1>7, <1>8, NothingQueued, StepFits

\* Only main() makes the calls that change the status.
LEMMA MainsOwn ==
  ASSUME SysInv, NEW t \in Threads, NEW op \in {"report", "wait", "clear", "exit"}, Begins(t, op)
  PROVE  t = "main" /\ (op = "report" => Call(t).state \in States)
<1>1. t # Worker /\ plan.calls[t] # << >> /\ plan.calls[t] \in Seq(CallsOf(t)) /\ Call(t).op = op
  BY DEF Begins, SysInv, PlanTyped, Call
<1>2. Call(t) \in CallsOf(t)
  BY <1>1 DEF Call
<1> QED  BY <1>1, <1>2 DEF CallsOf, AnyCalls, MainCalls

LEMMA ReporterUpdates ==
  ASSUME NEW s \in Reporters
  PROVE  /\ \A x \in States \cup {Unset} :
              LET u == [s EXCEPT !.status = x, !.pending = TRUE] IN u \in Reporters /\ u.status = x
         /\ \A x \in Codes :
              LET u == [s EXCEPT !.recent = @ \cup {x}] IN u \in Reporters /\ u.status = s.status
         /\ LET u == [s EXCEPT !.shutdown = TRUE] IN u \in Reporters /\ u.status = s.status
         /\ LET u == [s EXCEPT !.recent = {}] IN u \in Reporters /\ u.status = s.status
         /\ LET u == [s EXCEPT !.recent = {}, !.fresh = FALSE] IN u \in Reporters /\ u.status = s.status
  BY DEF Reporters

LEMMA BeginsFit == ASSUME SysInv, NEW t \in Threads, CallBegins(t) PROVE SysInv'
<1>1. CASE request(t)
  <2>1. Opens("request", "connect", << "request" >>) /\ << "request" >> \in Messages
    BY DEF Opens, Messages
  <2> QED  BY <1>1, <2>1, Known, BeginFits DEF request
<1>2. CASE can_connect_sysutils(t)
  <2>1. /\ Opens("wait", "connect", << "nothing" >>) /\ Opens("wait", "idle", << "nothing" >>)
        /\ << "nothing" >> \in Messages
    BY DEF Opens, Messages
  <2>2. /\ Begins(t, "wait") /\ UNCHANGED << reporter, sock >>
        /\ Calls(t, "connect", << "nothing" >>) \/ Calls(t, "idle", << "nothing" >>)
    BY <1>2 DEF can_connect_sysutils
  <2> QED  BY <2>1, <2>2, Known, BeginFits
<1>3. CASE report_state(t)
  <2>1. /\ Opens("report", "now", << "nothing" >>) /\ Opens("report", "idle", << "nothing" >>)
        /\ << "nothing" >> \in Messages
    BY DEF Opens, Messages
  <2>2. t = "main" /\ Call(t).state \in States /\ Begins(t, "report") /\ UNCHANGED sock
    BY <1>3, MainsOwn DEF report_state
  <2>3. CASE Calls(t, "idle", << "nothing" >>) /\ UNCHANGED reporter
    BY <2>1, <2>2, <2>3, Known, BeginFits
  <2>4. CASE /\ Calls(t, "now", << "nothing" >>)
             /\ reporter' = [reporter EXCEPT !.status = Call(t).state, !.pending = TRUE]
    <3>1. reporter' \in Reporters /\ reporter'.status = Call(t).state
      BY <2>2, <2>4, Known, ReporterUpdates
    <3> QED  BY <2>1, <2>2, <2>4, <3>1, BeginFits
  <2> QED  BY <1>3, <2>3, <2>4 DEF report_state
<1>4. CASE clear(t)
  <2>1. Opens("clear", "now", << "nothing" >>) /\ << "nothing" >> \in Messages
    BY DEF Opens, Messages
  <2>2. t = "main" /\ Begins(t, "clear") /\ UNCHANGED sock /\ Calls(t, "now", << "nothing" >>)
    BY <1>4, MainsOwn DEF clear
  <2>3. reporter' \in Reporters
    BY <1>4, Known, ReporterUpdates DEF clear
  <2> QED  BY <2>1, <2>2, <2>3, BeginFits
<1>5. CASE report_status(t)
  <2> DEFINE m == << "indicator.status", Call(t).code >>
             at == IF Call(t).code \in reporter.recent THEN "idle" ELSE "connect"
  <2>1. Begins(t, "status") /\ UNCHANGED sock /\ Calls(t, at, m)
    BY <1>5 DEF report_status
  <2>2. Call(t).code \in Codes
    <3>1. t # Worker /\ plan.calls[t] # << >> /\ plan.calls[t] \in Seq(CallsOf(t)) /\ Call(t).op = "status"
      BY <2>1 DEF Begins, SysInv, PlanTyped, Call
    <3>2. Call(t) \in CallsOf(t)
      BY <3>1 DEF Call
    <3> QED  BY <3>1, <3>2 DEF CallsOf, AnyCalls, MainCalls, Codes
  <2>3. m \in Messages /\ m[1] # "request"
    BY <2>2 DEF Messages
  <2>4. reporter' \in Reporters /\ reporter'.status = reporter.status
    BY <1>5, <2>2, Known, ReporterUpdates DEF report_status
  <2>5. at \in {"idle", "connect"}
    OBVIOUS
  <2> HIDE DEF m, at
  <2>6. Opens("status", at, m)
    BY <2>3, <2>5 DEF Opens
  <2> QED  BY <2>1, <2>3, <2>4, <2>5, <2>6, BeginFits
<1>6. CASE exit(t)
  <2>1. Opens("exit", "join", << "nothing" >>) /\ << "nothing" >> \in Messages
    BY DEF Opens, Messages
  <2>2. Begins(t, "exit") /\ UNCHANGED sock /\ Calls(t, "join", << "nothing" >>)
    BY <1>6 DEF exit
  <2>3. reporter' \in Reporters /\ reporter'.status = reporter.status
    BY <1>6, Known, ReporterUpdates DEF exit
  <2> QED  BY <2>1, <2>2, <2>3, BeginFits
<1> QED  BY <1>1, <1>2, <1>3, <1>4, <1>5, <1>6 DEF CallBegins

---------------------------------------------------------------------------
(* The Reporter's thread, the daemon and the time.                         *)

LEMMA WorkerFits == ASSUME SysInv, worker_loop PROVE SysInv'
<1> DEFINE r == IF reporter.shutdown THEN [Resting EXCEPT !.at = "ended"]
                ELSE Woken(thread[Worker], Message, sock.up)
<1>1. /\ Worker \in Threads /\ At(Worker, "idle") /\ Goes(Worker, r) /\ UNCHANGED << plan, sock >>
      /\ reporter' = [reporter EXCEPT !.pending = @ /\ reporter.shutdown]
  BY DEF worker_loop, SysInv, SysTyped, Woken
<1>2. thread[Worker].call = NoCall /\ NoCall.op = Unset
  BY <1>1, Known DEF CallFits, NoCall
<1>3. /\ r \in ThreadState /\ r.call = NoCall
      /\ \/ r.at = "ended"
         \/ r.at = "connect" /\ r.msg = Message /\ r.smooth = sock.up
  <2>1. CASE reporter.shutdown
    BY <2>1 DEF Resting, ThreadState, Places, Pieces, SomeCall, NoCall, Messages
  <2>2. CASE ~reporter.shutdown
    <3>1. sock.up \in BOOLEAN /\ thread[Worker] \in ThreadState /\ Message \in Messages
      BY <1>1, Known, MessageOfReporter
    <3> QED  BY <1>2, <2>2, <3>1, WokenRecord
  <2> QED  BY <2>1, <2>2
<1> HIDE DEF r
<1>4. CallFits(Worker, r)
  BY <1>2, <1>3, MessageOfReporter DEF CallFits, Unset
<1>5. thread'[Worker] = r /\ Threads' = Threads
  BY <1>1, <1>3, OneGoes DEF SysInv
<1>6. SharedFits(Worker, thread[Worker])'
  BY <1>1, <1>3, <1>5 DEF SharedFits
<1>7. reporter' \in Reporters /\ StatusKept(Worker)
  <2>1. (reporter.pending /\ reporter.shutdown) \in BOOLEAN /\ reporter \in Reporters
    BY <1>1, Known
  <2> QED  BY <1>1, <2>1, LoweredFlag DEF StatusKept
<1>8. PlanTyped'
  BY <1>1, <1>5 DEF SysInv, PlanTyped
<1> QED  BY <1>1, <1>3, <1>4, <1>6, <1>7, <1>8, NothingQueued, StepFits

\* A reply to a thread that waits for it.
LEMMA ReplyFits ==
  ASSUME SysInv, NEW t \in Threads, At(t, "read"), NEW rx \in Pieces, thread' = Reply(t, rx)
  PROVE  /\ thread' \in [Threads -> ThreadState] /\ Threads' = Threads
         /\ \A u \in Threads \ {t} : thread'[u] = thread[u]
         /\ thread'[t].at = "read" /\ CallFits(t, thread[t])'
<1> DEFINE done == rx \in {"good", "bare"}
           r == Answered(thread[t], rx, done)
<1>1. Goes(t, r)
  BY DEF Reply, Goes, Answered
<1>2. done \in BOOLEAN
  OBVIOUS
<1> HIDE DEF done
<1>3. r \in ThreadState /\ r.at = "read" /\ r.call = thread[t].call /\ r.rx = rx /\ r.did = done
  BY <1>2, Known, AnsweredRecord DEF At
<1> HIDE DEF r
<1>4. CallFits(t, r)
  BY <1>3, Known DEF CallFits, At, done
<1>5. /\ thread' \in [Threads -> ThreadState] /\ Threads' = Threads /\ thread'[t] = r
      /\ \A u \in Threads \ {t} : thread'[u] = thread[u]
  BY <1>1, <1>3, OneGoes DEF SysInv
<1>6. CallFits(t, thread[t])'
  BY <1>4, <1>5 DEF CallFits
<1> QED  BY <1>3, <1>5, <1>6

LEMMA ContinuesFits == ASSUME SysInv, NEW t \in Threads, daemon_continues(t) PROVE SysInv'
<1>1. PICK rx \in {"good", "bare", "refused", "mistyped", "part", "closed"} : thread' = Reply(t, rx)
  BY DEF daemon_continues
<1>2. At(t, "read") /\ UNCHANGED << plan, reporter, sock >> /\ rx \in Pieces
  BY <1>1 DEF daemon_continues, Pieces
<1>3. /\ thread' \in [Threads -> ThreadState] /\ Threads' = Threads
      /\ \A u \in Threads \ {t} : thread'[u] = thread[u]
      /\ thread'[t].at = "read" /\ CallFits(t, thread[t])'
  BY <1>1, <1>2, ReplyFits
<1>4. SysTyped' /\ PlanTyped'
  BY <1>2, <1>3 DEF SysInv, SysTyped, PlanTyped, Connections
<1>5. SharedFits(t, thread[t])'
  BY <1>3 DEF SharedFits
<1>6. ASSUME NEW u \in Threads \ {t} PROVE CallFits(u, thread[u])' /\ SharedFits(u, thread[u])'
  <2>1. thread'[u] = thread[u] /\ CallFits(u, thread[u]) /\ SharedFits(u, thread[u])
    BY <1>3, Known
  <2>2. CallFits(u, thread[u])'
    BY <2>1 DEF CallFits
  <2>3. SharedFits(u, thread[u])'
    BY <1>2, <2>1 DEF SharedFits
  <2> QED  BY <2>2, <2>3
<1> QED  BY <1>3, <1>4, <1>5, <1>6 DEF SysInv

\* A connection that says nothing yet is not the one the daemon goes on from.
LEMMA ServesFits == ASSUME SysInv, daemon_serves PROVE SysInv'
<1> DEFINE c == Head(sock.queue)
           waiting == c.n = thread[c.by].n /\ thread[c.by].at = "read"
<1>1. /\ sock.queue # << >> /\ c.msg # NoMsg /\ sock' = [sock EXCEPT !.queue = Tail(@)]
      /\ UNCHANGED << plan, reporter >>
      /\ \/ ~waiting /\ UNCHANGED thread
         \/ waiting /\ \E rx \in {"good", "bare", "refused", "mistyped", "part", "closed", "empty"} :
                           thread' = Reply(c.by, rx)
  BY DEF daemon_serves
<1>2. Worker \in Threads /\ sock \in [up : BOOLEAN, queue : Seq(Connections)]
  BY DEF SysInv, SysTyped
<1>3. /\ sock.queue \in Seq(Connections) /\ Tail(sock.queue) \in Seq(Connections) /\ c \in Connections
      /\ \A i \in DOMAIN sock.queue \ {1} :
            i - 1 \in DOMAIN Tail(sock.queue) /\ Tail(sock.queue)[i - 1] = sock.queue[i]
      /\ c = sock.queue[1]
  BY <1>1, <1>2
<1>4. /\ sock' \in [up : BOOLEAN, queue : Seq(Connections)] /\ sock'.up = sock.up
      /\ sock'.queue = Tail(sock.queue)
  BY <1>1, <1>2, <1>3, QueueSet
<1>5. c.by \in Threads
  BY <1>3 DEF Connections
<1>6. PICK w \in Threads : w = c.by
  BY <1>5
<1> HIDE DEF c
<1>6a. /\ thread' \in [Threads -> ThreadState] /\ Threads' = Threads
       /\ \/ UNCHANGED thread
          \/ /\ thread'[w].at = "read" /\ CallFits(w, thread[w])'
             /\ \A u \in Threads \ {w} : thread'[u] = thread[u]
  <2>1. CASE UNCHANGED thread
    BY <2>1 DEF SysInv, SysTyped, Threads
  <2>2. CASE waiting /\ \E rx \in {"good", "bare", "refused", "mistyped", "part", "closed", "empty"} :
                           thread' = Reply(c.by, rx)
    <3>1. PICK rx \in Pieces : thread' = Reply(w, rx)
      BY <1>6, <2>2 DEF Pieces
    <3>2. At(w, "read")
      BY <1>6, <2>2 DEF At
    <3> QED  BY <3>1, <3>2, ReplyFits
  <2> QED  BY <1>1, <2>1, <2>2
<1>7. SysTyped' /\ PlanTyped'
  <2>1. Connections' = Connections
    BY <1>6a DEF Connections
  <2> QED  BY <1>1, <1>2, <1>4, <1>6a, <2>1 DEF SysInv, SysTyped, PlanTyped
<1>8. ASSUME NEW u \in Threads PROVE CallFits(u, thread[u])' /\ SharedFits(u, thread[u])'
  <2>1. CASE thread'[u] = thread[u]
    <3>1. CallFits(u, thread[u])'
      BY <2>1, Known DEF CallFits
    <3>2. ASSUME thread[u].smooth, thread[u].at = "write"
          PROVE  \E i \in DOMAIN sock'.queue : /\ sock'.queue[i].by = u /\ sock'.queue[i].n = thread[u].n
                                              /\ sock'.queue[i].msg = NoMsg
      <4>1. PICK i \in DOMAIN sock.queue :
              sock.queue[i].by = u /\ sock.queue[i].n = thread[u].n /\ sock.queue[i].msg = NoMsg
        BY <3>2, Known DEF SharedFits
      <4>2. i # 1
        BY <1>1, <1>3, <4>1
      <4> QED  BY <1>3, <1>4, <4>1, <4>2
    <3>3. SharedFits(u, thread[u])
      BY Known
    <3>4. SharedFits(u, thread[u])'
      BY <1>1, <1>4, <2>1, <3>2, <3>3 DEF SharedFits
    <3> QED  BY <3>1, <3>4
  <2>2. CASE thread'[u] # thread[u]
    <3>1. u = w /\ thread'[u].at = "read" /\ CallFits(u, thread[u])'
      BY <1>6a, <2>2
    <3> QED  BY <3>1 DEF SharedFits
  <2> QED  BY <2>1, <2>2
<1> QED  BY <1>6a, <1>7, <1>8 DEF SysInv

LEMMA ChangesFit == ASSUME SysInv, daemon_changes PROVE SysInv'
<1> DEFINE cut(u) == IF sock.up /\ thread[u].at = "read" /\ thread[u].rx = "empty" THEN "closed"
                     ELSE thread[u].rx
<1>1. /\ sock.up => plan.restarts > 0
      /\ plan' = IF sock.up THEN [plan EXCEPT !.restarts = @ - 1] ELSE plan
      /\ sock' = [up |-> ~sock.up, queue |-> << >>] /\ UNCHANGED reporter
      /\ thread' = [u \in Threads |-> [thread[u] EXCEPT !.smooth = FALSE, !.rx = cut(u)]]
  BY DEF daemon_changes
<1>2. Threads' = Threads /\ Worker \in Threads
  BY <1>1 DEF Threads, SysInv, SysTyped
<1>3. ASSUME NEW u \in Threads
      PROVE  /\ thread'[u] \in ThreadState /\ CallFits(u, thread[u])' /\ SharedFits(u, thread[u])'
  <2> DEFINE r == [thread[u] EXCEPT !.smooth = FALSE, !.rx = cut(u)]
  <2>1. cut(u) \in Pieces
    BY Known DEF Pieces, ThreadState
  <2>2. thread'[u] = r
    BY <1>1
  <2>3. cut(u) = thread[u].rx \/ (cut(u) = "closed" /\ thread[u].at = "read")
    OBVIOUS
  <2> HIDE DEF cut
  <2>0. thread[u] \in ThreadState /\ CallFits(u, thread[u])
    BY Known
  <2>4. /\ r \in ThreadState /\ r.at = thread[u].at /\ r.call = thread[u].call
        /\ r.msg = thread[u].msg /\ r.rx = cut(u)
        /\ r.did = thread[u].did /\ r.ok = thread[u].ok /\ ~r.smooth
    BY <2>1, <2>0, CutRecord
  <2> HIDE DEF r
  <2>5. CallFits(u, r)
    <3>1. /\ r.at = "read" => r.rx = thread[u].rx \/ r.rx = "closed"
          /\ r.at # "read" => r.rx = thread[u].rx
      BY <2>3, <2>4
    <3> QED  BY <2>0, <2>4, <3>1 DEF CallFits
  <2>6. CallFits(u, thread[u])'
    BY <2>2, <2>5 DEF CallFits
  <2>7. SharedFits(u, thread[u])
    BY Known
  <2>8. SharedFits(u, thread[u])'
    BY <1>1, <2>2, <2>4, <2>7 DEF SharedFits
  <2> QED  BY <2>2, <2>4, <2>6, <2>8
<1>4. SysTyped'
  <2>1. thread' \in [Threads -> ThreadState]
    BY <1>1, <1>3
  <2>2. << >> \in Seq(Connections') /\ (~sock.up) \in BOOLEAN
    OBVIOUS
  <2>3. sock' \in [up : BOOLEAN, queue : Seq(Connections')]
    BY <1>1, <2>2
  <2> QED  BY <1>1, <1>2, <2>1, <2>3 DEF SysInv, SysTyped
<1>5. PlanTyped'
  <2>1. plan'.calls = plan.calls /\ plan' \in [use : BOOLEAN, calls : {plan.calls}, restarts : Nat, days : Nat]
    <3>1. plan \in [use : BOOLEAN, calls : {plan.calls}, restarts : Nat, days : Nat]
      BY DEF SysInv, PlanTyped
    <3>2. CASE sock.up
      <4>1. plan.restarts \in Nat /\ plan.restarts > 0 /\ plan' = [plan EXCEPT !.restarts = @ - 1]
        BY <1>1, <3>1, <3>2
      <4>2. plan.restarts - 1 \in Nat
        BY <4>1
      <4> QED  BY <3>1, <4>1, <4>2
    <3>3. CASE ~sock.up
      BY <1>1, <3>1, <3>3
    <3> QED  BY <3>2, <3>3
  <2> QED  BY <1>2, <2>1 DEF SysInv, PlanTyped
<1> QED  BY <1>2, <1>3, <1>4, <1>5 DEF SysInv

LEMMA TimeFits == ASSUME SysInv, time_passes PROVE SysInv'
<1>1. /\ plan.days > 0 /\ plan' = [plan EXCEPT !.days = @ - 1] /\ UNCHANGED << thread, sock >>
      /\ \/ reporter' = [reporter EXCEPT !.recent = {}]
         \/ reporter' = [reporter EXCEPT !.recent = {}, !.fresh = FALSE]
  BY DEF time_passes
<1>2. reporter' \in Reporters /\ reporter'.status = reporter.status
  BY <1>1, ReporterUpdates DEF SysInv, SysTyped
<1>3. Threads' = Threads /\ Connections' = Connections
  BY <1>1 DEF Threads, Connections
<1>4. SysTyped'
  BY <1>1, <1>2, <1>3 DEF SysInv, SysTyped
<1>5. PlanTyped'
  <2>1. plan'.calls = plan.calls /\ plan' \in [use : BOOLEAN, calls : {plan.calls}, restarts : Nat, days : Nat]
    BY <1>1 DEF SysInv, PlanTyped
  <2> QED  BY <1>3, <2>1 DEF SysInv, PlanTyped
<1>6. ASSUME NEW u \in Threads PROVE CallFits(u, thread[u])' /\ SharedFits(u, thread[u])'
  <2>1. CallFits(u, thread[u])'
    BY <1>1, Known DEF CallFits
  <2>2. SharedFits(u, thread[u])
    BY Known
  <2>3. SharedFits(u, thread[u])'
    BY <1>1, <1>2, <2>2 DEF SharedFits
  <2> QED  BY <2>1, <2>3
<1> QED  BY <1>3, <1>4, <1>5, <1>6 DEF SysInv

\* An exception ends every thread; what it was about is of no account any more.
LEMMA Thrown ==
  ASSUME SysInv, NEW t \in Threads, throws(t)
  PROVE  /\ Threads' = Threads /\ thread' \in [Threads -> ThreadState]
         /\ UNCHANGED << plan, reporter, sock >>
         /\ \A u \in Threads : thread'[u].at = "ended" /\ thread'[u].call = NoCall
<1> DEFINE over == [Resting EXCEPT !.at = "ended"]
<1>1. over \in ThreadState /\ over.at = "ended" /\ over.call = NoCall
  BY DEF Resting, ThreadState, Places, Pieces, SomeCall, NoCall, Messages
<1> HIDE DEF over
<1>2. thread' = [u \in Threads |-> over] /\ UNCHANGED << plan, reporter, sock >>
  BY DEF throws, over
<1>3. Threads' = Threads
  BY <1>2 DEF Threads
<1> QED  BY <1>1, <1>2, <1>3

LEMMA ThrowsFit == ASSUME SysInv, NEW t \in Threads, throws(t) PROVE SysInv'
<1>1. /\ Threads' = Threads /\ thread' \in [Threads -> ThreadState]
      /\ UNCHANGED << plan, reporter, sock >>
      /\ \A u \in Threads : thread'[u].at = "ended" /\ thread'[u].call = NoCall
  BY Thrown
<1>2. SysTyped' /\ PlanTyped'
  BY <1>1 DEF SysInv, SysTyped, PlanTyped, Connections
<1>3. ASSUME NEW u \in Threads PROVE CallFits(u, thread[u])' /\ SharedFits(u, thread[u])'
  <2>1. thread'[u].at = "ended" /\ thread'[u].call = NoCall
    BY <1>1
  <2>2. CallFits(u, thread[u])'
    BY <2>1 DEF CallFits
  <2>3. SharedFits(u, thread[u])'
    BY <2>1 DEF SharedFits
  <2> QED  BY <2>2, <2>3
<1> QED  BY <1>1, <1>2, <1>3 DEF SysInv

LEMMA SysInitHolds == SysInit => SysInv
<1> SUFFICES ASSUME SysInit PROVE SysInv
  OBVIOUS
<1>1. /\ plan \in [use : BOOLEAN, calls : [DOMAIN plan.calls -> Seq(AnyCalls \cup MainCalls)],
                   restarts : Nat, days : Nat]
      /\ Worker \notin DOMAIN plan.calls
      /\ \A t \in DOMAIN plan.calls \ {"main"} : plan.calls[t] \in Seq(AnyCalls)
  BY SysutilsAssumption DEF SysInit
<1>2. Threads = DOMAIN plan.calls \cup {Worker} /\ \A t \in Threads : thread[t] = Resting
  BY DEF SysInit, Threads
<1>3. Resting \in ThreadState
  BY DEF Resting, ThreadState, Places, Pieces, SomeCall, NoCall, Messages
<1>4. SysTyped
  BY <1>2, <1>3 DEF SysInit, SysTyped, Reporters, Threads
<1>5. PlanTyped
  <2>1. plan.calls \in [DOMAIN plan.calls -> Seq(AnyCalls \cup MainCalls)]
    BY <1>1
  <2>2. \A t \in DOMAIN plan.calls : plan.calls[t] \in Seq(CallsOf(t))
    BY <1>1, <2>1 DEF CallsOf
  <2>3. DOMAIN plan.calls = Threads \ {Worker} /\ plan.calls = [t \in DOMAIN plan.calls |-> plan.calls[t]]
    BY <1>1, <1>2, <2>1
  <2>4. plan \in [use : BOOLEAN, calls : {plan.calls}, restarts : Nat, days : Nat]
    BY <1>1
  <2> QED  BY <2>2, <2>3, <2>4 DEF PlanTyped
<1>6. ASSUME NEW t \in Threads PROVE CallFits(t, thread[t]) /\ SharedFits(t, thread[t])
  <2>1. thread[t] = Resting
    BY <1>2
  <2>2. CallFits(t, thread[t])
    BY <2>1 DEF CallFits, Resting, NoCall, Unset
  <2>3. SharedFits(t, thread[t])
    BY <2>1 DEF SharedFits, Resting
  <2> QED  BY <2>2, <2>3
<1> QED  BY <1>4, <1>5, <1>6 DEF SysInv

LEMMA SysNextPreserves == SysInv /\ [SysNext]_sysVars => SysInv'
<1> SUFFICES ASSUME SysInv, [SysNext]_sysVars PROVE SysInv'
  OBVIOUS
<1>1. ASSUME NEW t \in Threads, CallStep(t) \/ throws(t) \/ CallBegins(t) \/ daemon_continues(t)
      PROVE  SysInv'
  BY <1>1, ConnectFits, WriteFits, ReadFits, SendFits, JoinFits, ThrowsFit, BeginsFit, ContinuesFits DEF CallStep
<1>2. CASE UNCHANGED sysVars
  <2>1. /\ Threads' = Threads /\ Connections' = Connections
        /\ UNCHANGED << plan, thread, reporter, sock >>
    BY <1>2 DEF sysVars, Threads, Connections
  <2>2. SysTyped' /\ PlanTyped'
    BY <2>1 DEF SysInv, SysTyped, PlanTyped
  <2>3. ASSUME NEW u \in Threads PROVE CallFits(u, thread[u])' /\ SharedFits(u, thread[u])'
    <3>1. CallFits(u, thread[u])'
      BY <2>1, Known DEF CallFits
    <3>2. SharedFits(u, thread[u])
      BY Known
    <3>3. SharedFits(u, thread[u])'
      BY <2>1, <3>2 DEF SharedFits
    <3> QED  BY <3>1, <3>3
  <2> QED  BY <2>1, <2>2, <2>3 DEF SysInv
<1> QED  BY <1>1, <1>2, WorkerFits, ServesFits, ChangesFit, TimeFits DEF SysNext

\* The end of a report: only write_all ends one that nothing has interrupted.
HandedOver(t) ==
  (thread[t].at # "idle" /\ thread'[t].at = "idle" /\ thread[t].call.op = "report" /\ thread'[t].smooth)
  => \E i \in DOMAIN sock'.queue :
        sock'.queue[i].by = t /\ sock'.queue[i].msg = << "indicator.set", thread[t].call.state >>

LEMMA ReportWritten ==
  ASSUME SysInv, NEW t \in Threads, write_all(t), thread[t].call.op = "report", thread'[t].smooth
  PROVE  \E i \in DOMAIN sock'.queue :
            sock'.queue[i].by = t /\ sock'.queue[i].msg = << "indicator.set", thread[t].call.state >>
<1> DEFINE c == CHOOSE i \in Connection(t) : TRUE
           over == ~(Connection(t) = {}) \/ thread[t].call.op = "wait"
<1>1. /\ At(t, "write")
      /\ Connection(t) # {} => sock' = [sock EXCEPT !.queue[c].msg = thread[t].msg]
      /\ ~(thread[t].msg[1] = "request" /\ Connection(t) # {}) => Goes(t, Returned(t, over))
  BY DEF write_all
<1>2. thread[t].msg = << "indicator.set", thread[t].call.state >>
  BY <1>1, Known DEF CallFits, At
<1>3. thread[t].smooth
  <2>1. over \in BOOLEAN
    OBVIOUS
  <2> HIDE DEF over
  <2>2. /\ Returned(t, over) \in ThreadState /\ Returned(t, over).smooth = thread[t].smooth
    BY <2>1, Known, EndedRecord
  <2>3. Goes(t, Returned(t, over))
    BY <1>1, <1>2
  <2> QED  BY <2>2, <2>3, OneGoes DEF SysInv
<1>4. Connection(t) # {}
  BY <1>1, <1>3, Known DEF SharedFits, At, Connection
<1>5. c \in DOMAIN sock.queue /\ sock.queue[c].by = t
  BY <1>4 DEF Connection
<1> HIDE DEF c
<1>6. sock.queue \in Seq(Connections) /\ sock \in [up : BOOLEAN, queue : Seq(Connections)]
  BY Known
<1> DEFINE d == [sock.queue[c] EXCEPT !.msg = thread[t].msg]
           q == [sock.queue EXCEPT ![c] = d]
<1>7. d.by = t /\ d.msg = thread[t].msg /\ d \in Connections
  <2>1. sock.queue[c] \in Connections /\ thread[t].msg \in Messages
    BY <1>5, <1>6, Known
  <2> QED  BY <1>5, <2>1, MessageSet DEF Connections
<1>8. sock' = [sock EXCEPT !.queue = q]
  BY <1>1, <1>4
<1> HIDE DEF d
<1>9. q \in Seq(Connections) /\ c \in DOMAIN q /\ q[c] = d
  BY <1>5, <1>6, <1>7
<1> HIDE DEF q
<1>10. sock'.queue = q
  BY <1>6, <1>8, <1>9, QueueSet
<1> QED  BY <1>2, <1>7, <1>9, <1>10

\* A step of a thread or of its answer changes no other thread's record.
LEMMA OnlyOwn ==
  ASSUME SysInv, NEW u \in Threads, NEW t \in Threads \ {u},
         CallStep(u) \/ CallBegins(u) \/ daemon_continues(u)
  PROVE  thread'[t] = thread[t]
<1>1. ASSUME NEW r, Goes(u, r) PROVE thread'[t] = thread[t]
  BY <1>1 DEF Goes, SysInv, SysTyped
<1>2. CASE connect(u) \/ write_all(u) \/ read_line(u) \/ Deadline(u) \/ send_now(u) \/ join_worker(u)
  BY <1>1, <1>2 DEF connect, write_all, read_line, Deadline, send_now, join_worker
<1>3. ASSUME NEW at, NEW m, Calls(u, at, m) PROVE thread'[t] = thread[t]
  BY <1>1, <1>3 DEF Calls
<1>4. CASE CallBegins(u)
  BY <1>3, <1>4 DEF CallBegins, request, can_connect_sysutils, report_state, clear, report_status, exit
<1>5. CASE daemon_continues(u)
  BY <1>5 DEF daemon_continues, Reply, SysInv, SysTyped
<1> QED  BY <1>2, <1>4, <1>5 DEF CallStep

LEMMA ReportsHandedOver ==
  ASSUME SysInv, [SysNext]_sysVars, NEW t \in Threads
  PROVE  HandedOver(t)
<1> SUFFICES ASSUME thread[t].at # "idle", thread'[t].at = "idle", thread[t].call.op = "report", thread'[t].smooth
             PROVE  \E i \in DOMAIN sock'.queue :
                       sock'.queue[i].by = t /\ sock'.queue[i].msg = << "indicator.set", thread[t].call.state >>
  BY DEF HandedOver
<1>1. thread'[t] # thread[t]
  OBVIOUS
<1>2. thread[t].at \notin {"read", "join"}
  BY Known DEF CallFits
<1>3. CASE connect(t)
  <2>1. At(t, "connect")
    BY <1>3 DEF connect
  <2>2. CASE ~sock.up /\ Goes(t, Returned(t, FALSE))
    <3>1. Returned(t, FALSE) \in ThreadState /\ Returned(t, FALSE).smooth = thread[t].smooth
      BY Known, EndedRecord
    <3>2. thread[t].smooth
      BY <2>2, <3>1, OneGoes DEF SysInv
    <3> QED  BY <2>1, <2>2, <3>2, Known DEF SharedFits, At
  <2> DEFINE r == [thread[t] EXCEPT !.at = "write", !.n = @ + 1, !.rx = "empty", !.chunks = 0, !.did = FALSE]
  <2>3. CASE Goes(t, r)
    <3>1. r \in ThreadState /\ r.at = "write"
      BY Known, ConnectedRecord
    <3> HIDE DEF r
    <3>2. thread'[t].at = "write"
      BY <2>3, <3>1, OneGoes DEF SysInv
    <3> QED  BY <3>2
  <2> QED  BY <1>3, <2>2, <2>3 DEF connect
<1>4. CASE write_all(t)
  BY <1>4, ReportWritten
<1>5. CASE read_line(t) \/ Deadline(t) \/ join_worker(t)
  BY <1>2, <1>5 DEF read_line, Deadline, join_worker, At
<1>6. CASE send_now(t)
  <2> DEFINE r == [thread[t] EXCEPT !.at = "connect", !.msg = Message]
  <2>1. Goes(t, r)
    BY <1>6 DEF send_now
  <2>2. r \in ThreadState /\ r.at = "connect"
    <3>1. thread[t] \in ThreadState /\ Message \in Messages
      BY Known, MessageOfReporter
    <3> QED  BY <3>1, SendingRecord
  <2> HIDE DEF r
  <2>3. thread'[t].at = "connect"
    BY <2>1, <2>2, OneGoes DEF SysInv
  <2> QED  BY <2>3
<1>7. CASE CallBegins(t)
  BY <1>7 DEF CallBegins, request, can_connect_sysutils, report_state, clear, report_status, exit, Begins, At
<1>8. CASE daemon_continues(t)
  BY <1>2, <1>8, ReplyFits DEF daemon_continues, At, Pieces
<1>9. CASE worker_loop
  BY <1>1, <1>9 DEF worker_loop, Goes, At, SysInv, SysTyped
<1>10. CASE daemon_serves
  <2>1. PICK u : \/ UNCHANGED thread
                 \/ /\ thread[u].at = "read"
                    /\ \E rx \in {"good", "bare", "refused", "mistyped", "part", "closed", "empty"} : thread' = Reply(u, rx)
    BY <1>10 DEF daemon_serves
  <2>2. u = t \/ thread'[t] = thread[t]
    BY <2>1 DEF Reply, SysInv, SysTyped
  <2> QED  BY <1>1, <1>2, <2>1, <2>2
<1>11. CASE daemon_changes
  <2> DEFINE cut == IF sock.up /\ thread[t].at = "read" /\ thread[t].rx = "empty" THEN "closed"
                    ELSE thread[t].rx
  <2>1. thread'[t] = [thread[t] EXCEPT !.smooth = FALSE, !.rx = cut]
    BY <1>11 DEF daemon_changes
  <2>2. cut \in Pieces
    BY Known DEF ThreadState, Pieces
  <2> HIDE DEF cut
  <2> QED  BY <2>1, <2>2, Known, CutRecord
<1>12. CASE time_passes \/ UNCHANGED sysVars
  BY <1>1, <1>12 DEF time_passes, sysVars
<1>13. ASSUME NEW u \in Threads \ {t}, CallStep(u) \/ CallBegins(u) \/ daemon_continues(u) PROVE FALSE
  BY <1>1, <1>13, OnlyOwn
<1>14. ASSUME NEW u \in Threads PROVE ~throws(u)
  <2>1. throws(u) => thread'[t].at = "ended"
    BY Thrown
  <2> QED  BY <2>1
<1> QED  BY <1>3, <1>4, <1>5, <1>6, <1>7, <1>8, <1>9, <1>10, <1>11, <1>12, <1>13, <1>14 DEF SysNext, CallStep

LEMMA AnswersDone == SysInv => AnsweredIsDone
  BY Known DEF SysInv, CallFits, AnsweredIsDone, At

\* A behaviour that is about main() leaves the socket alone.
LEMMA SysInductive == ProgramSpec => []SysInv /\ [][SysNext]_sysVars
<1>1. ProgramInit => SysInit
  BY DEF ProgramInit
<1>2. [ProgramNext]_<< vars, sysVars >> => [SysNext]_sysVars
  BY DEF ProgramNext, sysVars
<1> QED  BY <1>1, <1>2, SysInitHolds, SysNextPreserves, PTL DEF ProgramSpec

\* Whatever calls the threads make, however the daemon answers and whenever it is
\* restarted: an answer that is taken for one is of this call and was given after
\* the daemon did it, and a report that returns is in the socket, although the
\* Reporter's thread may have sent first (read_line_with_timeout, send_pending_now).
THEOREM SaysAndDoes == ProgramSpec => SaidAndDone
<1>1. ProgramSpec => []AnsweredIsDone
  BY SysInductive, AnswersDone, PTL
<1>2. SysInv /\ [SysNext]_sysVars => \A t \in Threads : HandedOver(t)
  BY ReportsHandedOver
<1>3. SysInv /\ [SysNext]_sysVars =>
        [\A t \in Threads :
          (thread[t].at # "idle" /\ thread'[t].at = "idle" /\ thread[t].call.op = "report" /\ thread'[t].smooth)
          => \E i \in DOMAIN sock'.queue :
                sock'.queue[i].by = t /\ sock'.queue[i].msg = << "indicator.set", thread[t].call.state >>]_sysVars
  BY <1>2 DEF HandedOver
<1>4. ProgramSpec => ReportHandedOver
  BY <1>3, SysInductive, PTL DEF ReportHandedOver
<1> QED  BY <1>1, <1>4, PTL DEF SaidAndDone
=============================================================================
