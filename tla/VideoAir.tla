------------------------------ MODULE VideoAir ------------------------------
(***************************************************************************)
(* The camera streams of an air unit (ohd_video): one thread per camera    *)
(* builds a gstreamer pipeline from the settings, runs it, and rebuilds it *)
(* when m_request_restart is raised. Beside it run                         *)
(*   - the parameter thread (setters of CameraHolder: assign the field,    *)
(*     persist, then call the listener that raises the flag);              *)
(*   - the link's worker (handle_change_bitrate_request);                  *)
(*   - the thread that hears the flight controller (arming).               *)
(* All of them share settings, flag and m_curr_dynamic_bitrate_kbits       *)
(* without a lock. The settings that only shape the pipeline string        *)
(* (resolution, rotation, image quality) are represented by the codec.     *)
(* The pipeline itself (gstreamer, the camera) is external: it may fail to *)
(* be built, stall, or refuse a bitrate.                                   *)
(***************************************************************************)
EXTENDS Integers, FiniteSets

CONSTANTS
  Cameras,       \* stream indices: {0} or {0, 1}
  Dynamic,       \* cameras whose pipeline has a bitrate control element
  Codecs,        \* values of the settings that need a restart
  Rates,         \* bitrates the link recommends, kBit/s
  UserRates,     \* bitrates of the V_BITRATE parameter, kBit/s
  MinRate,       \* MIN_BITRATE_KBITS
  PrimaryPerc,   \* dualcam_primary_video_allocated_bandwidth_perc
  Spaces,        \* free disk space, MB
  MinSpace,      \* MINIMUM_AMOUNT_FREE_SPACE_FOR_AIR_RECORDING_MB
  MaxChanges,    \* parameter changes and arming changes
  MaxRequests,   \* recommendations of the link
  MaxFaults      \* failed builds, stalls and refused bitrates

ASSUME CamerasAssumption == Cameras \in {{0}, {0, 1}} /\ Dynamic \subseteq Cameras
ASSUME BoundsAssumption == {MaxChanges, MaxRequests, MaxFaults} \subseteq Nat
ASSUME CodecsAssumption == Codecs /= {}
ASSUME RatesAssumption == /\ Rates \cup UserRates \cup Spaces \subseteq Nat
                          /\ MinRate \in Nat /\ MinSpace \in Nat /\ MinRate <= 8000
                          /\ PrimaryPerc \in 0 .. 100

VARIABLES
  settings,   \* CameraSettings of each camera
  flag,       \* m_request_restart
  armedRec,   \* m_armed_enable_air_recording
  dyn,        \* m_curr_dynamic_bitrate_kbits
  thread,     \* stream thread: place, currently_applied_bitrate, has_first_frame
  pipe,       \* m_gst_pipeline with what it was built from
  info,       \* LinkActionHandler's CamInfo
  track,      \* track_count.txt
  notify,     \* cameras whose setter has assigned but not called the listener
  request,    \* bitrate requests under way: dynamic value set, setting not yet
  armed,      \* ArmingStateHelper
  space, keep, left

vars == << settings, flag, armedRec, dyn, thread, pipe, info, track, notify,
           request, armed, space, keep, left >>
shared == << armedRec, armed, space, keep, left >>

Modes == {"off", "on", "auto"}
Default == 8000
AnyCodec == CHOOSE x \in Codecs : TRUE
NoPipe == [state |-> "none", enc |-> AnyCodec, pay |-> AnyCodec, bitrate |-> Default,
           rec |-> FALSE, file |-> 0]
AllRates == {r \in Nat : r >= MinRate} \cup UserRates

Settings == [stream : BOOLEAN, codec : Codecs, bitrate : AllRates, rec : Modes]
Places == {"top", "build", "finish", "track_read", "track_write", "launch",
           "start", "sync", "loop", "poll", "teardown", "joined"}
Pipes == [state : {"none", "built", "runs", "stalled", "broken"}, enc : Codecs, pay : Codecs,
          bitrate : AllRates, rec : BOOLEAN, file : Nat]
Threads == [at : Places, applied : AllRates, first : BOOLEAN, count : Nat]
CamInfos == [status : {"restarting", "streaming"}, rec : BOOLEAN, bitrate : AllRates]

TypeOK ==
  /\ settings \in [Cameras -> Settings]
  /\ flag \in [Cameras -> BOOLEAN]
  /\ armedRec \in [Cameras -> BOOLEAN]
  /\ dyn \in [Cameras -> AllRates]
  /\ thread \in [Cameras -> Threads]
  /\ pipe \in [Cameras -> Pipes]
  /\ info \in [Cameras -> CamInfos]
  /\ track \in Nat
  /\ notify \subseteq Cameras
  /\ request \in [Cameras -> {-1} \cup AllRates]
  /\ armed \in BOOLEAN /\ space \in Spaces /\ keep \in BOOLEAN
  /\ left \in [changes : 0 .. MaxChanges, requests : 0 .. MaxRequests, faults : 0 .. MaxFaults]

Init ==
  /\ settings = [c \in Cameras |-> [stream |-> TRUE, codec |-> AnyCodec,
                                    bitrate |-> Default, rec |-> "off"]]
  /\ flag = [c \in Cameras |-> FALSE]
  /\ armedRec = [c \in Cameras |-> FALSE]
  /\ dyn = [c \in Cameras |-> Default]
  /\ thread = [c \in Cameras |-> [at |-> "top", applied |-> Default, first |-> FALSE, count |-> 0]]
  /\ pipe = [c \in Cameras |-> NoPipe]
  /\ info = [c \in Cameras |-> [status |-> "restarting", rec |-> FALSE, bitrate |-> Default]]
  /\ track = 0
  /\ notify = {}
  /\ request = [c \in Cameras |-> -1]
  /\ armed = FALSE
  /\ space \in Spaces
  /\ keep = TRUE
  /\ left = [changes |-> MaxChanges, requests |-> MaxRequests, faults |-> MaxFaults]

-----------------------------------------------------------------------------
(* The stream thread: loop_infinite and stream_once.                       *)

At(c, place) == thread[c].at = place
Goto(c, place) == thread' = [thread EXCEPT ![c].at = place]
Fault == left.faults > 0 /\ left' = [left EXCEPT !.faults = @ - 1]
request_restart(c) == flag' = [flag EXCEPT ![c] = TRUE]
set_cam_info_status(c, s) == info' = [info EXCEPT ![c].status = s]

\* With streaming disabled the thread sleeps for 100 ms and looks again.
stream_disabled(c) ==
  /\ At(c, "top") /\ keep /\ ~settings[c].stream
  /\ UNCHANGED vars

stream_begin(c) ==
  /\ At(c, "top") /\ keep /\ settings[c].stream
  /\ set_cam_info_status(c, "restarting")
  /\ Goto(c, "build")
  /\ UNCHANGED << settings, flag, dyn, pipe, track, notify, request, shared >>

stream_end(c) ==
  /\ At(c, "top") /\ ~keep
  /\ Goto(c, "joined")
  /\ UNCHANGED << settings, flag, dyn, pipe, info, track, notify, request, shared >>

\* create_source_encode_pipeline works on a copy of the settings ...
setup_source(c) ==
  /\ At(c, "build")
  /\ pipe' = [pipe EXCEPT ![c] = [state |-> "built", enc |-> settings[c].codec,
                                  pay |-> settings[c].codec, bitrate |-> settings[c].bitrate,
                                  rec |-> FALSE, file |-> 0]]
  /\ Goto(c, "finish")
  /\ UNCHANGED << settings, flag, dyn, info, track, notify, request, shared >>

ADD_RECORDING_TO_PIPELINE(c) ==
  \/ settings[c].rec = "on"
  \/ settings[c].rec = "auto" /\ armedRec[c]

\* ... the rest of setup reads the settings again.
setup_finish(c) ==
  /\ At(c, "finish")
  /\ pipe' = [pipe EXCEPT ![c].pay = settings[c].codec,
                          ![c].rec = ADD_RECORDING_TO_PIPELINE(c)]
  /\ Goto(c, IF ADD_RECORDING_TO_PIPELINE(c) THEN "track_read" ELSE "launch")
  /\ UNCHANGED << settings, flag, dyn, info, track, notify, request, shared >>

\* get_recording_index_track_count: read the file, then write it.
recording_track_read(c) ==
  /\ At(c, "track_read")
  /\ thread' = [thread EXCEPT ![c].at = "track_write", ![c].count = track + 1]
  /\ UNCHANGED << settings, flag, dyn, pipe, info, track, notify, request, shared >>

recording_track_write(c) ==
  /\ At(c, "track_write")
  /\ track' = thread[c].count
  /\ pipe' = [pipe EXCEPT ![c].file = thread[c].count]
  /\ thread' = [thread EXCEPT ![c].at = "launch", ![c].count = 0]
  /\ UNCHANGED << settings, flag, dyn, info, notify, request, shared >>

\* set_cam_info, then gst_parse_launch. On an error setup returns early and
\* the loop below runs on a pipeline that delivers nothing.
setup_launch(c) ==
  /\ At(c, "launch")
  /\ info' = [info EXCEPT ![c] = [status |-> "restarting", rec |-> pipe[c].rec,
                                  bitrate |-> settings[c].bitrate]]
  /\ \/ pipe' = [pipe EXCEPT ![c].state = "runs"] /\ UNCHANGED left
     \/ Fault /\ pipe' = [pipe EXCEPT ![c].state = "broken"]
  /\ Goto(c, "start")
  /\ UNCHANGED << settings, flag, dyn, track, notify, request, armedRec, armed, space, keep >>

\* Mutant: requests that came while the pipeline was built are forgotten.
MutStart(c) ==
  /\ At(c, "start")
  /\ thread' = [thread EXCEPT ![c].at = "sync", ![c].applied = settings[c].bitrate,
                              ![c].first = FALSE]
  /\ flag' = [flag EXCEPT ![c] = FALSE]
  /\ UNCHANGED << settings, dyn, pipe, info, track, notify, request, shared >>

start(c) ==
  /\ At(c, "start")
  /\ thread' = [thread EXCEPT ![c].at = "sync", ![c].applied = settings[c].bitrate,
                              ![c].first = FALSE]
  /\ UNCHANGED << settings, flag, dyn, pipe, info, track, notify, request, shared >>

stream_sync_bitrate(c) ==
  /\ At(c, "sync")
  /\ dyn' = [dyn EXCEPT ![c] = thread[c].applied]
  /\ Goto(c, "loop")
  /\ UNCHANGED << settings, flag, pipe, info, track, notify, request, shared >>

HasControl(c) == c \in Dynamic /\ pipe[c].state /= "broken"

\* One turn of the loop of stream_once up to the exchange of the flag: the
\* 10 s without a frame, and a bitrate that is not the applied one.
loop_quit(c) ==
  /\ At(c, "loop") /\ ~keep
  /\ Goto(c, "teardown")
  /\ UNCHANGED << settings, flag, dyn, pipe, info, track, notify, request, shared >>

\* Mutant: the time without a frame is only logged.
MutLoopNoFrame(c) ==
  /\ At(c, "loop") /\ keep
  /\ pipe[c].state \in {"stalled", "broken"}
  /\ Goto(c, "poll")
  /\ UNCHANGED << settings, flag, dyn, pipe, info, track, notify, request, shared >>

loop_no_frame(c) ==
  /\ At(c, "loop") /\ keep
  /\ pipe[c].state \in {"stalled", "broken"}
  /\ request_restart(c)
  /\ Goto(c, "poll")
  /\ UNCHANGED << settings, dyn, pipe, info, track, notify, request, shared >>

loop_change_bitrate(c) ==
  /\ At(c, "loop") /\ keep
  /\ dyn[c] /= thread[c].applied
  /\ HasControl(c)
  /\ \/ /\ pipe' = [pipe EXCEPT ![c].bitrate = dyn[c]]
        /\ thread' = [thread EXCEPT ![c].at = "poll", ![c].applied = dyn[c]]
        /\ info' = [info EXCEPT ![c].bitrate = dyn[c]]
        /\ UNCHANGED left
     \/ Fault /\ Goto(c, "poll") /\ UNCHANGED << pipe, info >>
  /\ UNCHANGED << settings, flag, dyn, track, notify, request, armedRec, armed, space, keep >>

loop_bitrate_restart(c) ==
  /\ At(c, "loop") /\ keep
  /\ dyn[c] /= thread[c].applied
  /\ ~HasControl(c)
  /\ request_restart(c)
  /\ Goto(c, "poll")
  /\ UNCHANGED << settings, dyn, pipe, info, track, notify, request, shared >>

loop_nothing(c) ==
  /\ At(c, "loop") /\ keep
  /\ dyn[c] = thread[c].applied
  /\ Goto(c, "poll")
  /\ UNCHANGED << settings, flag, dyn, pipe, info, track, notify, request, shared >>

\* m_request_restart.compare_exchange_strong.
loop_take_restart(c) ==
  /\ At(c, "poll") /\ flag[c]
  /\ flag' = [flag EXCEPT ![c] = FALSE]
  /\ Goto(c, "teardown")
  /\ UNCHANGED << settings, dyn, pipe, info, track, notify, request, shared >>

\* Mutant: exactly the minimum of free space is enough.
MutCheckRemainingSpace(c) ==
  IF space < MinSpace /\ settings[c].rec /= "off"
  THEN /\ settings' = [settings EXCEPT ![c].rec = "off"]
       /\ request_restart(c)
  ELSE UNCHANGED << settings, flag >>

\* check_remaining_space_air_recording(true), once a second.
check_remaining_space_air_recording(c) ==
  IF space <= MinSpace /\ settings[c].rec /= "off"
  THEN /\ settings' = [settings EXCEPT ![c].rec = "off"]
       /\ request_restart(c)
  ELSE UNCHANGED << settings, flag >>

\* The rest of a turn: the check of the disk, then a sample (or 40 ms without).
loop_pull(c) ==
  /\ At(c, "poll") /\ ~flag[c]
  /\ check_remaining_space_air_recording(c)
  /\ IF pipe[c].state = "runs"
     THEN /\ thread' = [thread EXCEPT ![c].at = "loop", ![c].first = TRUE]
          /\ IF thread[c].first THEN UNCHANGED info ELSE set_cam_info_status(c, "streaming")
     ELSE Goto(c, "loop") /\ UNCHANGED info
  /\ UNCHANGED << dyn, pipe, track, notify, request, shared >>

\* stop and cleanup_pipe.
cleanup_pipe(c) ==
  /\ At(c, "teardown")
  /\ pipe' = [pipe EXCEPT ![c] = NoPipe]
  /\ Goto(c, "top")
  /\ UNCHANGED << settings, flag, dyn, info, track, notify, request, shared >>

Stream(c) ==
  \/ stream_begin(c) \/ stream_end(c) \/ setup_source(c) \/ setup_finish(c)
  \/ recording_track_read(c) \/ recording_track_write(c) \/ setup_launch(c)
  \/ start(c) \/ stream_sync_bitrate(c) \/ loop_quit(c) \/ loop_no_frame(c)
  \/ loop_change_bitrate(c) \/ loop_bitrate_restart(c) \/ loop_nothing(c)
  \/ loop_take_restart(c) \/ loop_pull(c) \/ cleanup_pipe(c)

-----------------------------------------------------------------------------
(* The parameter thread. A setter validates, assigns and persists; persist *)
(* ends with the listener. There is one parameter thread.                  *)

Change == left.changes > 0 /\ left' = [left EXCEPT !.changes = @ - 1]

Assign(c, s) ==
  /\ notify = {}
  /\ settings' = [settings EXCEPT ![c] = s]
  /\ notify' = {c}
  /\ UNCHANGED << flag, armedRec, dyn, thread, pipe, info, track, request, armed, space, keep >>

set_enable_streaming(c) ==
  Change /\ Assign(c, [settings[c] EXCEPT !.stream = ~ @])

set_video_codec(c) ==
  Change /\ \E x \in Codecs \ {settings[c].codec} : Assign(c, [settings[c] EXCEPT !.codec = x])

set_video_bitrate(c) ==
  Change /\ \E r \in UserRates : Assign(c, [settings[c] EXCEPT !.bitrate = r])

set_air_recording(c) ==
  /\ Change
  /\ \E m \in Modes \ {settings[c].rec} :
       /\ m = "off" \/ space >= MinSpace
       /\ Assign(c, [settings[c] EXCEPT !.rec = m])

settings_changed(c) ==
  /\ c \in notify
  /\ notify' = notify \ {c}
  /\ request_restart(c)
  /\ UNCHANGED << settings, armedRec, dyn, thread, pipe, info, track, request, armed,
                  space, keep, left >>

(* The link's worker: OHDVideoAir::handle_change_bitrate_request splits    *)
(* the bitrate, each stream keeps it above its minimum, tells its thread,  *)
(* and then saves it without a restart.                                    *)

Split(r) ==
  LET primary == (r * PrimaryPerc) \div 100
  IN  IF Cardinality(Cameras) = 1 THEN [c \in Cameras |-> r]
      ELSE [c \in Cameras |-> IF c = 0 THEN primary ELSE r - primary]

AtLeastMin(r) == IF r < MinRate THEN MinRate ELSE r

NoRequest == \A c \in Cameras : request[c] = -1

\* Requests for all cameras are noted; the streams handle them one by one.
handle_change_bitrate_request(r) ==
  /\ left.requests > 0 /\ NoRequest
  /\ left' = [left EXCEPT !.requests = @ - 1]
  /\ request' = [c \in Cameras |-> AtLeastMin(Split(r)[c])]
  /\ dyn' = [dyn EXCEPT ![0] = AtLeastMin(Split(r)[0])]
  /\ UNCHANGED << settings, flag, armedRec, thread, pipe, info, track, notify, armed, space, keep >>

\* Stream c saves its bitrate; the dynamic value of the next stream is set.
bitrate_saved(c) ==
  /\ request[c] /= -1
  /\ \A d \in Cameras : d < c => request[d] = -1
  /\ settings' = [settings EXCEPT ![c].bitrate = request[c]]
  /\ request' = [request EXCEPT ![c] = -1]
  /\ dyn' = [d \in Cameras |-> IF d = c + 1 THEN request[d] ELSE dyn[d]]
  /\ UNCHANGED << flag, armedRec, thread, pipe, info, track, notify, armed, space, keep, left >>

\* ArmingStateHelper calls OHDVideoAir::update_arming_state on a change.
update_arming_state ==
  /\ Change
  /\ armed' = ~armed
  /\ armedRec' = [c \in Cameras |-> IF settings[c].rec = "auto" THEN armed' ELSE armedRec[c]]
  /\ flag' = [c \in Cameras |-> flag[c] \/ settings[c].rec = "auto"]
  /\ UNCHANGED << settings, dyn, thread, pipe, info, track, notify, request, space, keep >>

-----------------------------------------------------------------------------
(* The environment, and the destructor of OHDVideoAir.                     *)

camera_stalls(c) ==
  /\ pipe[c].state = "runs" /\ Fault
  /\ pipe' = [pipe EXCEPT ![c].state = "stalled"]
  /\ UNCHANGED << settings, flag, armedRec, dyn, thread, info, track, notify, request, armed,
                  space, keep >>

disk_fills ==
  /\ \E s \in Spaces : s < space /\ space' = s
  /\ UNCHANGED << settings, flag, armedRec, dyn, thread, pipe, info, track, notify, request,
                  armed, keep, left >>

\* The listeners are unregistered before the streams are told to stop.
terminate_looping ==
  /\ keep /\ notify = {} /\ NoRequest
  /\ keep' = FALSE
  /\ left' = [left EXCEPT !.changes = 0, !.requests = 0]
  /\ UNCHANGED << settings, flag, armedRec, dyn, thread, pipe, info, track, notify, request,
                  armed, space >>

Joined == (\A c \in Cameras : At(c, "joined")) /\ UNCHANGED vars

Next ==
  \/ \E c \in Cameras :
       \/ Stream(c) \/ stream_disabled(c) \/ settings_changed(c) \/ bitrate_saved(c) \/ camera_stalls(c)
       \/ set_enable_streaming(c) \/ set_video_codec(c) \/ set_video_bitrate(c)
       \/ set_air_recording(c)
  \/ \E r \in Rates : handle_change_bitrate_request(r)
  \/ update_arming_state \/ disk_fills \/ terminate_looping \/ Joined

Spec == Init /\ [][Next]_vars

\* Threads that can run do, and 10 s without a frame pass in the end; the user,
\* the link and the faults owe nothing.
Fairness == \A c \in Cameras : /\ WF_vars(Stream(c))
                               /\ SF_vars(loop_no_frame(c))
                               /\ WF_vars(settings_changed(c))
                               /\ WF_vars(bitrate_saved(c))
FairSpec == Spec /\ Fairness

-----------------------------------------------------------------------------
(* Properties                                                              *)

Running(c) == thread[c].at \in {"loop", "poll"}
Quiet(c) == ~flag[c] /\ c \notin notify

\* The running pipeline is the one the settings ask for, unless the restart
\* that replaces it is already requested: whatever the order in which setters,
\* arming, the disk check and the rebuild itself run, no restart is lost.
PipelineFollowsSettings ==
  \A c \in Cameras : Running(c) /\ Quiet(c) =>
    /\ settings[c].stream
    /\ pipe[c].enc = settings[c].codec /\ pipe[c].pay = settings[c].codec
    /\ pipe[c].rec = ADD_RECORDING_TO_PIPELINE(c)

\* A camera that is to stream does so in the end, after a failed build, a camera
\* that stopped delivering, and any number of restarts.
StreamRecovers ==
  \A c \in Cameras :
    (keep /\ settings[c].stream) ~>
      (info[c].status = "streaming" \/ ~settings[c].stream \/ ~keep)

\* A full disk ends every recording: the disk check turns the setting off and
\* the rebuilt pipeline has no recording branch.
LowSpaceStopsRecording ==
  \A c \in Cameras :
    (space <= MinSpace /\ pipe[c].rec) ~> ~pipe[c].rec

\* handle_change_bitrate_request: the stream thread applies the bitrate asked for,
\* so the encoder ends up with the one in the settings.
BitrateReachesEncoder ==
  \A c \in Cameras : <>[](Running(c) => pipe[c].bitrate = settings[c].bitrate)

\* create_unused_recording_filename gives a name no other recording has.
NewRecordingFile ==
  \A c, d \in Cameras :
    c /= d /\ Running(c) /\ Running(d) /\ pipe[c].rec /\ pipe[d].rec =>
      pipe[c].file /= pipe[d].file
=============================================================================
