# A TLA+ model of OpenHD

OpenHD links an *air unit* (camera, flight controller) and a *ground unit* by wifi cards in
monitor mode. This directory holds TLA+ modules of its core, the TLC configurations that check
them on small instances and TLAPS proofs of their most important invariants. Paths below are
relative to `src/OpenHD/`.

## 1. Inventory

| Component | State | Operations | Who calls | What is hard |
|---|---|---|---|---|
| `ohd_interface` `WBLink`: channel | persisted frequency and width, current rx channel, work queue of one item, passive mode | `request_set_frequency`, `request_set_air_tx_channel_width`, `request_start_scan_channels`, `request_start_analyze_channels`, `wt_gnd_perform_channel_management`, `cb_passive` | parameter thread, worker thread | two units agree over a lossy link without a recovery protocol; driver refuses retunes; callbacks next to the worker |
| `ManagementAir`, `ManagementGround` | announced channel; reported frequency and width (two atomics) | `loop`, `on_new_management_packet` | their own thread, receive thread | torn reports, lost frames |
| `WBLink`: power and MCS | settings per card, power level, pit mode, arming state, two request flags | `request_set_tx_power_*`, `cb_wb_pit_mode`, `update_arming_state`, `apply_txpower`, `wt_perform_mcs_via_rc_channel_if_enabled` | parameter, flight controller and worker thread | flags raised and lowered by different threads; a queue with one place |
| `WBLink`: thermal protection, rate | level, time it was taken, maximum rates | `wt_perform_update_thermal_protection`, `wt_perform_rate_adjustment` | worker thread | hysteresis, unreadable sensor, rounding |
| `WBLink`: other parameters | headers, FEC, QP, retransmission windows | the callbacks of `get_all_settings` | parameter thread, and the worker's statistics | two threads apply the same windows |
| `WBLink`, Ethernet and Microhard link: data paths | queues, gate, drop counters | `transmit_video_data`, `transmit_telemetry_data`, receive callbacks | stream, audio, telemetry and receive threads | full queues, drops, closed gates |
| `ohd_common` `PersistentSettings` | settings struct, json file | `init`, `unsafe_get_settings` + `persist` | any thread | no lock; the file is truncated and written in place |
| `ohd_interface` `OHDInterface`, cards, hotspot, wifi client | cards and their roles, operating mode, hotspot, connection profiles | discovery, parameters, control requests, `update_wifi_hotspot_enable` | main, parameter, arming and control thread; a thread per nmcli command | overlapping commands; arming against parameters |
| `ohd_common` external devices; Ethernet, USB tethering, TCP listeners | devices, listeners, destinations of video and telemetry | `on_new_external_device`, `register_listener`, `remove_all`, the listeners' loops | a thread per listener and client | devices that leave while they are reported; joins at the end |
| `ohd_common` sysutils socket, `Reporter` | status, pending flag, daemon's queue | requests, `report_status`, wait at start | main, link and the Reporter's thread | slow, wrong or absent answers; two threads sending one status |
| `main`, control socket, platform | options, modules alive, reset flag, cache | start, error, termination | main, control thread, signal | order of destruction; a reset that is interrupted |
| `ohd_telemetry` parameter server | parameter values, queue of answers | list, read and set requests, poll of settings the link changes | telemetry thread; change callbacks into the other modules | a change callback only queues an item; the setting may change without a request |
| `ohd_telemetry` routing | endpoints, components, deduplicator | handlers of five kinds of endpoint, heartbeats, commands | a thread per endpoint and a loop | echoes, repeated injections, endpoints replaced under locks |
| `ohd_telemetry` joystick | position, channel map, connection | reader, sender, enabling | two threads, parameter thread | unplugging; stale positions on the way |
| `ohd_video` streams | pipelines, camera settings, restart flag, bitrates, recordings | start, stop, restart on changed settings, bitrate, recording | stream thread, callbacks | restart requests while a restart runs |
| `ohd_video` cameras and pipelines | camera types, encoder element, its unit and rate | discovery, setters, `create_source_encode_pipeline`, `change_bitrate` | main, parameter, stream thread | a running pipeline against what a restart would build |
| `ohd_video` RTP and NALU helpers, audio | fragments, parameter sets | frame assembly, raw path, audio loop | stream and audio thread | cut frames, codec switches |
| `tools/mavlink_uart_logger` | tables, selection, filter, pings | one loop with keys | one thread | echoes late or twice; tables that change under the selection |
| profile, config, logging, onboard status | read once, or readings | - | - | - |

`WBLink` is driven by the telemetry component (mavlink parameters become change callbacks; arming
and RC channels arrive through `ArmingStateHelper` and `update_rc_channels`), it asks the video
component for a bitrate through `LinkActionHandler`, and stores everything in `PersistentSettings`.
`OHDInterface` owns the link and tells `ExternalDeviceManager` of devices, whose listeners are
telemetry and video. `main` creates telemetry, interface and video in this order and destroys video
first. The wifibroadcast library, gstreamer, SDL, mavlink and the sysutils daemon are external.

What makes each component correct:

* *channel*: after any request, scan, refused retune or restart a unit is where its persisted
  settings say; an announced change that was heard keeps the link; scans end.
* *power*: no update gets lost; 40 MHz means reduced power; what is reported is what was applied.
* *rate*: a hot card is protected, a cool one gets its video back, the encoder is never
  asked for more than the channel carries.
* *settings*: what was persisted is what a restart finds; a parameter in use is the one stored.
* *parameters*: an accepted value is the one in use, answers are current and name the right
  parameter, parameter and setting agree in the end whoever changed the setting: to its clients the
  server is a store.
* *telemetry*: the two units with all their endpoints are one message bus: nobody is given a message
  twice or one that is not for him, and a request gets through in spite of losses.
* *interface and devices*: a card has one role at a time and is given back, the hotspot follows the
  settings, every attached device is served, threads that wait for devices can be joined.
* *program*: a module is there while another one calls it; the program ends; a reset is carried out.
* *video*: a running pipeline is the one its settings ask for; a stalled one comes back; frames are
  whole, and after their parameter sets; a full disk ends recordings.
* *remote control*: the flight controller gets where the stick is, or nothing.

## 2. Order of the modules

1. `WBChannel` (composes air unit, radio, ground unit) and its proofs, `WifiChannels` below it.
2. `WBLinkWorker`, `WBRateControl`: what the worker does beside the channel.
3. `PersistentSettings` and its proofs.
4. `ParamStore` and `ParamServer`: an abstract store and the parameter server, next to the link's worker,
   that implements it; its proofs.
5. `VideoAir`, `CameraPipeline` and their proofs: the camera streams.
6. `MessageBus` and `Telemetry`: an abstract bus and the routing that implements it.
7. `ExternalDevices`, composed by `OHDInterface` with cards, hotspot and the life of the interface,
   and its proofs.
8. `Startup` and `Sysutils`, composed by `ProgramStart`.
9. `VideoPath`, `RcJoystick`, `WBLinkSettings`, composed by `LinkTraffic`.
10. `UartLogger`: the stand-alone monitor.

Modules named `..._proofs` hold the theorems about the modules they extend. `OHDInterface_proofs` also
has those about `PersistentSettings`, which shares nothing with the interface but has its settings, and
`VideoAir_proofs` those about `CameraPipeline` and `UartLogger`, for the same reason.

Left for later: the composition of `ParamServer` with `WBChannel` (how long a poll can hold the ground
unit on an older channel); the UART prioritizer.

## 3. Modules

Every module names in its comments the functions it models; `PROJECT.json` maps each definition to
its lines. A step is what runs between two points where another thread can observe or change shared
state: a sleep, a lock, a blocking call, or the reads and writes of two separate fields.
Definitions whose name starts with `Mut` are plausible errors; they belong to no specification.

### WBChannel, WifiChannels

`WifiChannels` has the channel tables, what a card supports by its type or by what iw says, and the
lists that a scan and an analyze visit. In `WBChannel`, variables `a_...` are the air unit, `g_...`
the ground unit.

| Code | Model |
|---|---|
| `m_settings` (`wb_frequency`, width, listen-only) | `a_settings`, `g_settings`: a change and its `persist` are one step; `PersistentSettings` looks inside |
| `m_work_item_queue` | `a_queue`, `g_queue`: `None` or the one item |
| `m_curr_frequency_mhz`, `m_curr_channel_width_mhz` of `ManagementAir` | `a_mgmt` |
| `m_air_reported_curr_*` | `g_report`, and `g_rx` between its two stores |
| `m_gnd_curr_rx_*` | `g_curr` |
| passive mode of `WBTxRx` | `a_passive`, `g_passive` |
| width in `m_tx_header_2` | `a_header2` |
| `request_set_frequency`, `request_set_air_tx_channel_width` on air | `air_request`, `air_begin_set_freq` / `air_begin_set_chwidth`, `air_end_dwell`, `air_retune` |
| `apply_frequency_and_channel_width` on ground | `apply_channel`, `gnd_retune`, `gnd_inject` (a call with a return place `g_ret`) |
| `wt_gnd_perform_channel_management` | `gnd_mgmt_load_width`, `gnd_mgmt_follow`, `gnd_mgmt_stay` |
| `perform_channel_scan`, `perform_channel_analyze` | `scan_...`, `analyze_...` |
| `cb_passive` | `cb_passive_persist`, `cb_passive_apply` |
| process start | `air_restart`, `gnd_restart` |

Abstractions: the scan visits its list in any order (the code's order is one of them); a card
refuses a retune or not; a received frame is one the radio did not lose, a lost one is no step;
the drain and dwell times are unbounded delays. What a scan counts is left out: a hit may be missed.

### WBLinkWorker

One unit, its worker, the parameter thread (`param_cb`) and the flight controller's thread
(`arm_cb`). `apply_txpower` is split where it reads `m_is_armed`: once for the configured power,
once for pit mode, for each card. Powers are in the unit of the card. `CardInfo` is sysutils' entry
for a card, with an empty mode and powers that are missing, and sysutils answers or does not
(`profiles`). Items that only keep the worker busy (frequency, scan, analyze) are one item `OTHER`.

### WBRateControl

One turn of `loop_do_work` is two steps, thermal protection and rate adjustment; time is counted in
turns. Rates are computed as the code does, with integer division and the rounding of
`deduce_fec_overhead`.

### PersistentSettings

One struct, `Threads` that change a field and persist it, `init`. `persist` is serialize, open
(which truncates) and write; a reboot may come between any two of them. A write into a file another
thread has open as well leaves the text of one of them or a broken file. `saved`, `unsaved`,
`alone` and `clean` are history variables for the properties.

### ParamStore, ParamServer

`process_mavlink_messages` is cut where the link's worker can be seen or can act: the get callback
(`poll_get`), the update (`poll_update`), each message, the sending of up to 100 answers
(`send_answers`, `PerTurn`). `Updated` and `NotUpdated` are `update_existing_parameter` with the
change callback in it. A callback is `direct` (stores the setting), `queued` (schedules an item of
the link, which stores it) or `read_only`. The worker stores the value of an item first
(`worker_begin`) and takes the item off the queue at the end (`worker_end`); `link_adopts` is a
channel it follows or finds in a scan, `schedule_other` a scan or any other item. Clients may send any
request of either protocol for any parameter; a plain set of a string parameter is looked up where it is
not (`mavlink_parameter_receiver.cpp:191`), the exception ends the process (`process_param_set_hidden`)
and nothing happens any more (`Running`). The settings are polled in any order. `worker_end` does not happen between `poll_get` and `poll_update`: these are two
consecutive statements, while an item sleeps for 100 ms or more, or retunes cards, after its
store. Without that, poll and worker could undo each other's values for ever.

`accepted` is a history variable: the last value a client set with success, until the link
replaces it. `asked` in an answer is the index the client asked for, if it asked by index.

`ParamStore` is what clients are promised: `Set` gives a parameter a value and writes one letter about it,
`Tell` writes what is in the store, `Adopt` and `Follow` are the program's own changes, which `Follow`
stores only where no client's value stands, and `Deliver` keeps the order. The instance `Store` maps
`value` to the store, what a setting will be once the waiting item has run (`Target`) to the value in use,
the parameters with an `accepted` value to those that are a client's, and the answers to the mail.

### VideoAir

One `GStreamerStream` per camera: its thread goes through `start`, `sync`, `loop`, `poll` and
`teardown` (`loop_infinite` and `stream_once`), and reads settings, the restart flag and the dynamic
bitrate that setters, the link's worker and the arming listener write. A setter is two steps, the
assignment with its `persist` and the listener that raises the flag (`notify`); so is a bitrate
request (`request`). `pipe` remembers from which settings a pipeline was built. gstreamer may fail
to build, stall, or refuse a bitrate.

### CameraPipeline

From `discover_cameras` and the constructor of `OHDVideoAir` through the setters of `CameraHolder`
to `create_source_encode_pipeline` and all `create...Stream` functions of `gst_helper.hpp`: an
element (name, property and unit of its bitrate), the rate put into it, the rows of a slice, the
codec it makes and the codec that is packed. `change_bitrate` changes the rate of a running one. A
setting that changes takes the pipeline down and `setup` builds it again; how that interleaves is in
`VideoAir`. `EncoderKbits` is the least bitrate a stream accepts from the link. For an HDMI adapter that
is read over v4l2, `initialize_resolution` runs two scripts before the pipeline is built; they set up the
adapter and change nothing of the program, so they are not a step.

### MessageBus, Telemetry

`MessageBus` is what telemetry promises: a published message is given to a consumer at most once and
only to allowed ones, a reply only after its request. `Telemetry` has the threads of both units, one
for each endpoint: the wifibroadcast link with copies of each injection, the wired or unwired OpenHD
UARTs, the flight controller's UART, the clients, the tracker, the joystick (which sends its channels
as two messages, one to the air unit and one to the clients), and `loop_infinite`. A
handler (`on_messages_...`) forwards, then takes `m_components_lock`, then gives the message to the
components; a parameter callback inside may stop a serial endpoint and join its thread
(`process_begin`, `join`, `register`). The instance `Bus` maps the messages made, the deliveries and
the repeated deliveries to the variables of `MessageBus`.

### ExternalDevices, OHDInterface

`ExternalDevices` is the manager with its listeners and the three sources of devices; `eth`, `usb`
and `tcp` hold the place of each thread. `owners` (who has reported an address so far) is a history
variable. `OHDInterface` extends it by the cards (`wifi`: found, for monitor mode, left over, taken
from NetworkManager, in monitor mode), the settings, the hotspot and client profiles (`net`), nmcli
commands on their own threads (`jobs`), a parameter being set (`par`), the arming listener (`arm`),
a control request (`ctl`), and the life of the interface between telemetry and video (`main`). `calm`
is a history variable: no two commands, or a parameter and the arming listener, have overlapped.
The cards for monitor mode are a set; `reorder_monitor_mode_cards` says which of two comes first, which
matters for the one card of an air unit (`First`) and for the takeover that a Qualcomm card ends.

### Startup, Sysutils, ProgramStart

`Startup` is `main()` step by step with the modules that exist (`alive`), the calls between them
that are running (`calls`), the control server's thread (`ctl`), what the daemon keeps across starts
(`su`) and what is on the disk. `Sysutils` is one connection of `openhd_sock.cpp`: connect, send,
read with a deadline and a length limit, and the `Reporter` whose thread and callers share a pending
flag; a `Plan` says what each thread calls (only `main()` reports a state, clears it and exits; any
module requests and reports a status code). An answer may be a line, a part of one, or a line in which a
value has another type than the code takes it for; then the JSON library throws (`throws`). Where nobody
catches that the process ends (`terminate` in `Startup`: before the `try` of `main()`, on the threads of
the modules, and for a client of the control socket whose "type" is no string, `main.cpp:217`); inside
the `try` the modules are unwound (`clear_reset_flag`). `sleep_one_second` waits for callbacks that are
running, which the code does not: it sleeps for a second and takes them to be over (`main.cpp:698`). The letters of the command line are read one by one
(`parse_option`). `ProgramStart` composes them: a behaviour is about one of
them, as a request is one step for `Startup`, answered or not.

### VideoPath, RcJoystick, WBLinkSettings, LinkTraffic

`VideoPath`: samples are pulled from an encoder that numbers what it emits by run of the pipeline; `asm`
is the frame under assembly, `rtp` the raw path with its saved parameter sets (a sample is split into
NALUs, fed one by one while the link goes on), `net` the queues, drops and ports of wifibroadcast,
Ethernet or Microhard. `RcJoystick`: the reader and the sender thread, the telemetry queue, the flight
controller. `WBLinkSettings`: what each callback stores and applies, with the two steps of a callback
and the two of a pass of the statistics. The receivers of telemetry, video and audio have retries of
their own: the constructor gives the stored number to the first two, the callback to all of them. `LinkTraffic` composes them; they share no variables.

### UartLogger

One turn of the loop is read, auto-transmit, expire, clamp, key. A message is its key and its length;
the age of a ping is counted in units of the ping interval up to the timeout. A table is a
set of entries, and a row a position among that many.

## 4. Runs

| Run | Shows | Bounds |
|---|---|---|
| `channel` | `AirSettled`, `GroundSettled`, `InjectionAsWanted`, `AcceptedItemFinishes`, `GroundFollows` | two channels, one of which the ground card does not support; widths 20 and 40; of the three kinds of scan one visits a supported channel, one an unsupported one, one none; two requests, listen-only changes or restarts |
| `worker` | `PowerAsSet`, `ReducedPowerAt40`, `PowerSettles`, `RcChannelWins` | air unit with one card and two callbacks, ground unit with two cards and one; one arming, one RC change |
| `rate` | `RateFitsChannel`, `Protection`, `EncoderFollowsConfig` | readings at both sides of 70, 85 and 95; MCS 0 and 31, overhead 1 and 400 percent, adjustment 6 and 1000 percent; hold time of three turns; two changes |
| `settings_file` | `CleanPersistRepairs`, `RestartRestores`, `StartsAgain` | two threads, two fields, two values, three changes, two reboots, one refused write |
| `params` | `AnswersAgree`, `ActsLikeAStore`, `ClientsServed` | four parameters (polled, string, queued, direct); two valid values and an invalid one; any two requests of either protocol, also a plain set of the string, two changes or items of the link, one request that finds the lock taken; two answers a turn, so that a list takes two |
| `video` | `PipelineFollowsSettings`, `StreamRecovers`, `LowSpaceStopsRecording` | one camera with dynamic bitrate, both codecs, free space at the limit and above, two changes, one recommendation, one fault |
| `cameras` | `EncoderAsSet`, `CamerasAsChosen` | 16 hosts of 13 platforms with the cameras that have a pipeline of their own; two sets of video devices; 0, 4, 50 and 51 Mbit/s, and 500 and 2501 kbit/s from the link; heights that are no multiple of 16; three changes or restarts |
| `telemetry` | `RoutesLikeABus`, `RequestsServed` | twelve loads of one to three messages that interact, among them sets of every UART; wired or not; three lost injections towards the air unit; one unplug of the flight controller |
| `interface` | `DevicesServed`, `RolesSettle`, `AnsweredAsTaken`, `StopCompletes` | ten units with what one question needs each; three addresses, two clients, four cards; three events (556 288 states) |
| `program` | `ModulesThere`, `ProgramEnds`, `ResetIsCarriedOut`, `SaidAndDone` | three command lines, two starts, one client, two reset requests or changes of settings; four plans of one or two threads with one restart of the daemon and a backlog of one |
| `traffic` | `VideoIntact`, `VideoForwarded`, `LiveStreams`, `InEffectAsStored`, `HistorySettles` | ten paths of up to four slices, one restart, two closed gates, a queue of two frames; three ways to split a slice; four moves of the stick; four sets of parameters at and beyond their limits, three sets or restarts each |
| `monitor` | `MonitorConsistent`, `PingsSettle` | two pings, three received messages, heights at which both tables, one or no row fit; all keys |

Several properties are conjunctions of named parts (`PowerAsSet == NoLostPowerUpdate /\
ReportedAsApplied`): each part has its comment, the whole is what the run checks.

Why the bounds are enough: every hazard needs one request that runs and one event next to it (a
second request, a restart, a callback, an arming, a fault); two channels and two widths are all a
report can differ in; two cards give one place between cards; two threads and two fields are the
least that lose each other's changes; a queue of two is full with one frame ahead of another; four
injections get through three losses. In `rate`, `traffic` and `cameras` the sets hold both sides of
each comparison. Where a module composes parts that do not share state, a behaviour keeps the others
idle. The runs without deadlock check are those where everything may come to rest: the bounds are
used up, or the program has ended (in `params` by the exception).

Fairness: workers, receive threads, stream and audio threads, listeners' loops and a callback that
has begun are threads that only ever sleep for bounded times or wait for what the model has, so their
steps are weakly fair. Nothing is assumed of users, of restarts, of the flight controller, nor of the
radio, except that an unending stream is not lost altogether (`LiveStreams`). In `PersistentSettings`,
the program is started again after it ended (a system service) and a thread in `persist` goes on. In
`ParamServer`, heartbeats keep arriving (both units and every ground station send them), a call of
`process_mavlink_messages` goes on, and an item that runs ends: strongly fair, since the polls that
`worker_end` waits for span an instant each. In `VideoAir`, ten seconds without a frame pass in the end
(strongly fair: the pipeline may deliver in between). In `UartLogger`, time passes. In `VideoPath`,
audio can be built when its device is there (strongly fair). In `Telemetry`, some thread that can run
does. In `ProgramStart`, an exit is stated for clients that do not stay silent for ever.

### Type invariants

`TypeOK` of `WBChannel`, `PersistentSettings`, `WBLinkWorker`, `VideoAir` and `WBRateControl` is
proved (section 5). That of `ParamServer` holds in the instance; it documents the variables and can be
added to the `INVARIANTS` of the configuration.

### What does not hold

Where the code and its own comments or docs disagree, or where a plausible expectation fails, the
model follows the code. Some expectations are definitions of their modules that no run checks,
because TLC refutes them:

* `PersistSavesChanges`: two threads in `persist` may leave an older struct in the file.
* `LegacyOverrideAllOrNone`: a legacy power parameter needs several items, and the queue takes one.
* `ReadByIndexIsListed`: a plain read by index counts string parameters, a plain list does not.
* `BitrateReachesEncoder` (`gstreamerstream.cpp:429`): a bitrate requested while the pipeline is
  rebuilt is dropped. `NewRecordingFile` (`air_recording_helper.hpp:79`): two cameras that start at
  the same moment may choose one file.
* `NoRequestTerminates`: a plain set of a string parameter ends the process
  (`mavlink_parameter_receiver.cpp:191`).
* `EveryCallReturns`: an answer of sysutils in which a value has the wrong type ends the process
  (`openhd_sock.cpp:432`; `main.cpp:388` asks before its `try`).
* `EveryResetIsCarriedOut`: a reset asked for while the update that clears an earlier request is still
  waiting in the daemon is cleared with it.
* `AudioRetriesAsStored`: after a restart the receiver of audio has the retries `WBStreamRx` comes with
  until the parameter is set again (`wb_link.cpp:448`).
* `AllFinish`: setting a UART whose own thread is giving a message to the components deadlocks, see
  `HandlersFinish` below.
* `SettingsReachModules` (`main.cpp:695`): telemetry may call into a video module being destroyed.
* `TelemetryGoesToDevices`: two sources that report one address remove it for each other.
* `NoExtraSlice`: `ALIGN_UP` (`gst_helper.hpp:282`) adds the remainder, not what is missing, and loses a
  last row of macroblocks of 1 to 7 lines: 8 slices of 1600x900 become 9, where the code rounds up
  "to avoid extra slice" (`:298`). The attempt to prove it met this.
* Video to an address that is entered by hand and is the ground unit's own (`OwnByHand`): after a TCP
  client with that address has connected, `ohd_video_ground.cpp:114` ignores that the device is removed,
  and forwarding never stops. `VideoGoesToDevices` leaves these addresses out.

The others show in the premise of a property that holds and would not hold without it:

* `InjectionAsWanted`: no listen-only callback has come. `cb_passive` switches the mode on its own
  thread, also during a scan (`wb_link.cpp:2108` "Disable injection during scan").
* `HeardAnnouncementKeepsLink`: the ground unit has not been asked to change its own frequency since
  it last heard a report, because `m_gnd_curr_rx_frequency` is then the one it left.
* `ReducedPowerAt40` is about the configured width: from 40 to 20 MHz the full power is set before the
  card leaves 40 MHz (`wb_link.cpp:602`).
* Management frames go out at the air unit's own width (`wb_link.cpp:789`), so a ground unit at 20 MHz
  does not hear one that sends at 40; the comments (`:2052`, `:2304`) count on 20 MHz.
* `ThermalHold`, a part of `Protection`: a reading of 0 ends it (`wb_link.cpp:2391`, `:2415`).
* `RestartRestores`: a crash between truncation and write resets every field.
* `ParamConverges`: a setting that the change callback would accept. `LatestAnswerCurrent` leaves the
  polled parameters out: their updates are not announced.
* `HandlersFinish` (`SetWhileInUse`): no change of the OpenHD UART of wired units, nor of the tracker's
  UART while its device sends. Their threads give what they read to the components and wait for the lock
  under which they are joined (`AirTelemetry.cpp:410`; `GroundTelemetry.cpp:186`, `:551`).
* `ClientsServed`: the process has not been ended by a plain set of a string (`NoRequestTerminates`).
* `CallsReturn`, a part of `ProgramEnds`: a call returns or an answer of the wrong type has ended the
  process (`EveryCallReturns`).
* `ResetIsCarriedOut`: the request did not cross the update that clears an earlier one.
* `InEffectAsStored`: the retries of audio are the stored ones only once they were set in this run.
* `CallsReachModules` of the link into the video at the end rests on the second that `main()` sleeps.
* `CleanPersistRepairs`, and in `RolesSettle` that the hotspot follows the settings: no two persists, no
  two changes overlap.
* `SlicesWithinRequest`: the last row of macroblocks has no 1 to 7 lines (`NoExtraSlice` above).
* `EncoderFollowsBitrate` not for software encoding behind rpicamsrc, `CodecAgrees` not on the A733.
* The status of `Reporter` is the last one handed over, which may not be the last one shown: a send
  that fails while the daemon is away is not repeated.

Met on the way, and only noted in the modules: `request_set_tx_power_level` does not wait for the
queue, unlike `wb_link.h:94`; `MaxRate2G` is 125 percent of the 5G rate where its comment says "use
less bitrate" (`wb_link_rate_helper.hpp:216`); the ground unit checks widths against its own 20 MHz;
frequency and width are checked separately, so that 2484 MHz at 40 MHz can be reached; on an X20 a
camera chosen now runs two starts later (`ohd_video_air_generic_settings.cpp:124`); H.265 keyframes
are never flagged, so a full queue drops them like any other frame; a change of the PPS alone drops
frames until the next SPS.

## 5. Proofs

The assumptions are the named `ASSUME`s of the modules; the runs evaluate them. Each proof shows
that an inductive invariant holds initially, is kept by every action (one step per action) and
implies the property.

`WBChannel_proofs`: `TypeCorrect`, `AirSettles`, `GroundSettles`, `InjectsAsWanted` for all sets of
frequencies, widths and scan lists and all bounds. The inductive invariant adds what holds while a unit
is *not* settled: `Announced` (the announced channel is the persisted one, also during a change),
`RetuneGoesHome` (a retune that returns to the loop has the persisted frequency and the adopted width as
its target, and a successful one has reached it) and `FoundComplete` (a scan result is empty or
complete). The settled properties alone are not inductive: a retune that succeeds settles the unit only
because of where it was sent when it began. `Injection` says, place by place, whether the ground unit
transmits while a scan sets and resets its mode.

`OHDInterface_proofs` holds three invariants of the interface, for any cards, addresses, clients,
configurations and bounds.

* `AnsweredRight`: a request that is still answered with ok has its values taken or to do
  (`ControlInv`).
* `DevicesRight`: `DevicesServed` compares lists that several threads change. `DevicesInv` says of each
  address whether video goes there (`VideoFits`: exactly if the manager knows it, whichever listener
  registered when), and of an address that a single thread has reported that the manager knows it
  exactly while this thread is attached to it (`SoleFits`, `ClientFits`); a thread that is about to
  take a report back is the one that made it (`ReportedBy`).
* `RolesRight`: `CardsInv` follows the cards from discovery to the end (what is taken over is for monitor
  mode; what is in monitor mode is taken over unless it was replugged). `RolesInv` keeps hotspot and
  client apart: the profile of a hotspot exists at most as long as its object, and a client only without one.
  `SettleInv` holds while no two changes overlap: the one command under way tells what the hotspot's flag
  says, and without one NetworkManager does; the flag is what settings and arming ask for unless a
  parameter or the listener is about to change it; the listener holds the current answer when it acts.
  Which card is the first is well defined because a nonempty set of places has a least one
  (`SmallestNumber`, without induction over data).

It also holds the proofs about `PersistentSettings`: `TypeCorrect`, `CleanPersistCompletes`,
`RestartIsFaithful` for any number of threads, fields, values, reboots and failures. The invariant
relates the one thread that is alone in `persist` to the struct (`AloneIsOne`: there is no other;
`AloneIsCurrent`: what it serialized is still in use; `AloneIsEmpty`: nobody else wrote the file it has
truncated) and keeps, across reboots, that a complete file of a clean persist agrees with `saved`
(`CleanFile`).

`ParamServer_proofs`: `AcceptedIsKept`, `AnswersAreTrue` and `ImplementsStore` for any parameter set,
any values and all bounds. For the first, the invariant adds `ItemSound` (a set item belongs to a queued
parameter, and a running one has stored its value) and `PollRefused`: between its two statements the
poll holds an old value of an accepted parameter only while the item waits, so that the queue refuses
it. For the second (`AnswersInv`), every answer that waits or is out has the index its parameter has in
the list of its protocol, and the latest one about a parameter that is not polled has its value. That an
index identifies a parameter is a fact about sorted lists: the position of a name is the number of names
that are not above it. It is proved for every finite set of names without induction over data, from the
fact that every nonempty set of numbers has a least one (`SmallestNumber`).

`ImplementsStore` is the refinement with `AcceptedIsKept`, `ActsLikeAStore`, from the same two
invariants. A set is the store's `Set` at the moment it is accepted, because `Target` of its parameter
changes then and not when the item is stored: `ItemSound` makes the worker's steps stutters. An update
by the poll is a `Follow`, and no other step takes a value back: `PollRefused` says that the parameter
at hand is nobody's. A channel the link adopts under a waiting item is a stutter.

`WBLinkWorker_proofs`: `TypeCorrect`, `PowerAgrees`, `PowerReduced` for any number of cards, any
profiles of sysutils, any settings and bounds. `NoLostPowerUpdate` says nothing while `apply_txpower`
runs; the invariant adds that, unless another update has been asked for, what it copied agrees with
the settings and the cards it has passed have their power (`PassedAreCurrent`), that the power it read
for the card at hand is that of the present arming state (`BaseIsCurrent`), and, also with an update
pending, that the cards it has passed have at most the reduced power (`PassedAreReduced`).

`VideoAir_proofs`: `TypeCorrect`, `PipelineFollows` for one or two cameras (the code has no more)
and any settings. The invariant follows a pipeline through its construction: for each place of a
stream's thread it says which of its parts already agree with the settings, unless a restart is
requested (`Consistent`). For the types, requests of the link's worker reach the streams in turn
(`InTurn`).

It also has the theorems about `CameraPipeline`: `EncodesAsSet` and `CamerasRight`, for any hosts, video
devices and values. The invariant (`CameraInv`) says of a running pipeline that it is what its camera
type and its present settings build, but for a rate within a kbit/s (`PipelineFits`): a setting that
changes takes the pipeline down, and a new bitrate changes nothing else (`RateOnly`) and, put into the
element, is the rate of a new one in that element's unit (`RateSet`). `SlicesFit` is the arithmetic of
the slice height, `DetectFacts` and `DiscoverFacts` say that two USB cameras get the lowest and the next
device found. `CameraAssumption` says that a device has a number of its own and that values are integers.

`MonitorTells` is about `UartLogger`, for any messages, losses, echoes, heights and keys. The invariant
(`MonitorInv`) adds that the pings awaited are numbered below the next one, so that they are finitely
many (`PingsFit`), that some message passes a filter that is set (`FilterFits`), and that while a key is
waited for the selections are in the range of their tables (`SelectionFits`), so that the window
contains them.

`Telemetry_proofs`: `ImplementsBus`, the refinement `RoutesLikeABus`, for any traffic, endpoints,
losses and devices that vanish. The invariant says which messages can be on which link (`LinksFit`:
the air unit sends down its own and the flight controller's messages without a target, and gets its
own back only over wired UARTs), that a thread holds what its source sent or what its unit's
deduplicator has marked (`SeenFit`, `Held`), that the handler which gave a message to a consumer is
over for good (`Given` with `Passed`: this is why nobody is given it again), and that a unit which
serves a request has been given it and has not replied (`Served`, `Answered`). `Sends` describes
what any of the sending operators adds to the links and the deliveries; each handler is then a few
of its uses. `TrafficAssumption` states what enters: no replies, and targets only in messages of
the clients outside.

`ProgramStart_proofs`: `CallsReach` and `VideoGetsLink`, which are `ModulesAreThere`, and the action
property `ResetCarriedOut`, for any command lines, clients and starts. The control server, the link and
telemetry have one part of the invariant each, which says at which places of `main()` they can call
(`ServerFits`, `LinkFits`, `TelemetryFits`); `ResetFits` follows the reset flag from the removal of the
settings to the update that is on its way to the daemon; as in the run, a request of the operator
that such a late update crosses and takes back is excepted. `OptionsFit` says that a start without an
interface is one that records, and that it is the air unit's: no letter and no answer of the daemon
takes that back. `VideoGetsLink` assumes `EnableAir`, the default of the build: in a build without air
support a start with `-r` would take the link of an interface that is not there.

`SaysAndDoes` is `SaidAndDone` of the sysutils socket, for any plans, backlog and restarts of the
daemon. The invariant `SysInv` says of each call what its place, its message and its bytes tell: an
answer that is complete was given after the daemon did the request (`CallFits`), the status to report is
that of the report under way, since only `main()` reports, and a daemon that has been there all the time
has not passed over a connection which has sent nothing yet (`SharedFits`). The last is why the report
is in the queue when `send_pending_now` returns, whichever thread took the pending flag.
`SysutilsAssumption` says which thread makes which calls.

`LinkTraffic_proofs`: `EffectAsStored` for any sets of parameters and restarts: what is in effect,
with the rest of the running callback applied to it, is what a restart would construct from the
stored settings (`InStep`). The three receivers are kept apart (`Receivers`): the audio receiver's
retries, which a restart does not restore, are the exception that the theorem states. `ChangesAssumption` says that the changes are integers for the
parameters there are.

It also has the theorems about the video. `VideoWhole` and `ForwardedRight`, for any slices, queue
sizes and restarts: `VideoInv` says of the frame under assembly that it is unbroken, that it begins
with the first fragment of a frame and continues in the encoder's own sequence, and, for the raw
path, that the samples still to be fed belong to one picture and that the saved parameter sets are
those of the picture whose slices are being forwarded. `RateFits`, `ThermalHolds` and `HotProtected`
are about `WBRateControl`: the rate of every configuration the setters accept is positive (with
`ConfigsAssumption`: at least 6 percent of the table, at most 400 percent of error correction), so
that a change always replaces what was announced, and an adjusted rate is at most the plain one
(`RateInv`). `ThermalHolds` and `HotProtected` are the safety parts of `Protection`.

Only model-checked: every liveness property, which under fairness is out of the prover's reach:
`AcceptedItemFinishes`, `GroundFollows`, `PowerSettles`, `RcChannelWins`, `EncoderFollowsConfig`, the
rest of `Protection`, `StartsAgain`, `ClientsServed`, `StreamRecovers`, `LowSpaceStopsRecording`,
`PingsSettle`, `RequestsServed`, `ProgramEnds`, `StopCompletes`, `LiveStreams`, `HistorySettles`. Every
safety property that a run checks has a theorem.

## 6. Not modelled

* Libraries: wifibroadcast, mavlink and the RTP packetizer, gstreamer, SDL. Where the code's
  behaviour depends on them (the radio, repeated injections, a pipeline that stalls) they are
  actions of the module that uses them.
* Text: sysfs, `iw`, `nmcli`, web pages and telnet of the Microhard modem, command lines, file
  names. The model starts from what is read, and takes a command to succeed.
* Contents of statistics and status messages, onboard status, GPIO, last known position: readings
  that are passed on.
* Profile, configuration, logging and platform utilities: read once at the start. `Startup` has what
  depends on them.
* The UART prioritizer, which orders what a slow UART sends; the removal of a listener of
  `ArmingStateHelper` while others are told; undefined behaviour after a call into a destroyed
  module (`ModulesThere` says where there is none).
* The file that disables the frequency checks, and drivers that `rt2800usb` falls through to.
* `GstRecorder`, which has no caller, and the demuxer, a command line run after a recording.
