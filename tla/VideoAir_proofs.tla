-------------------------- MODULE VideoAir_proofs --------------------------
(***************************************************************************)
(* Proofs about VideoAir for one or two cameras, any codecs, bitrates and  *)
(* bounds: every state is well typed, and the running pipeline is the one  *)
(* the settings ask for unless a restart is pending. Then about            *)
(* CameraPipeline, for any hosts, video devices and values a user enters:  *)
(* the encoder of a running pipeline does what was set, and the cameras    *)
(* that run are those chosen. Last about UartLogger: its screen tells what *)
(* was received.                                                           *)
(***************************************************************************)
EXTENDS VideoAir, CameraPipeline, UartLogger, TLAPS, FiniteSetTheorems, WellFoundedInduction

(***************************************************************************)
(* The inductive invariant. A pipeline is built bit by bit from settings   *)
(* that change meanwhile; what is built so far agrees with them unless a   *)
(* restart is due.                                                         *)
(***************************************************************************)

Finished == {"track_read", "track_write", "launch", "start", "sync", "loop", "poll"}
Built == Finished \cup {"finish"}

Consistent(c) ==
  Quiet(c) =>
    /\ thread[c].at \in Built \cup {"build"} => settings[c].stream
    /\ thread[c].at \in Built => pipe[c].enc = settings[c].codec
    /\ thread[c].at \in Finished =>
         /\ pipe[c].pay = settings[c].codec
         /\ pipe[c].rec = ADD_RECORDING_TO_PIPELINE(c)

IInv == TypeOK /\ \A c \in Cameras : Consistent(c)

\* The link's worker asks the streams for their bitrates one after the other: while
\* a request waits, so does that of the next stream.
InTurn ==
  /\ request \in [Cameras -> Int]
  /\ \A c, d \in Cameras : d = c + 1 /\ request[c] # -1 => request[d] # -1

LEMMA ConstantFacts ==
  /\ AnyCodec \in Codecs
  /\ Default \in AllRates
  /\ UserRates \subseteq AllRates
  /\ AllRates \subseteq Nat
  BY CodecsAssumption, RatesAssumption DEF AnyCodec, Default, AllRates

LEMMA PlaceFacts == Finished \subseteq Places /\ Built \subseteq Places
                    /\ {"top", "build", "teardown", "joined"} \subseteq Places
  BY DEF Places, Finished, Built

(***************************************************************************)
(* What an assignment to a field of one camera does.                       *)
(***************************************************************************)

Others(f, g, c) == \A d \in Cameras \ {c} : g[d] = f[d]

\* The thread goes to another place.
LEMMA Going ==
  ASSUME NEW c \in Cameras, NEW p \in Places, thread \in [Cameras -> Threads], Goto(c, p)
  PROVE  /\ thread' \in [Cameras -> Threads]
         /\ thread'[c].at = p
         /\ Others(thread, thread', c)
  BY DEF Goto, Threads, Others

LEMMA Restarting ==
  ASSUME NEW c \in Cameras, flag \in [Cameras -> BOOLEAN], request_restart(c)
  PROVE  /\ flag' \in [Cameras -> BOOLEAN]
         /\ flag'[c]
         /\ Others(flag, flag', c)
  BY DEF request_restart, Others

LEMMA Showing ==
  ASSUME NEW c \in Cameras, NEW s \in {"restarting", "streaming"},
         info \in [Cameras -> CamInfos], set_cam_info_status(c, s)
  PROVE  info' \in [Cameras -> CamInfos]
  BY DEF set_cam_info_status, CamInfos

LEMMA Counting ==
  ASSUME TypeOK, Fault \/ Change
  PROVE  left' \in [changes : 0 .. MaxChanges, requests : 0 .. MaxRequests, faults : 0 .. MaxFaults]
  BY BoundsAssumption DEF TypeOK, Fault, Change

\* What no step of another camera disturbs.
LEMMA Untouched ==
  ASSUME NEW d \in Cameras, Consistent(d), Quiet(d)' => Quiet(d),
         thread'[d].at = thread[d].at, pipe'[d] = pipe[d], settings'[d] = settings[d],
         armedRec'[d] = armedRec[d]
  PROVE  Consistent(d)'
  BY DEF Consistent, Quiet, ADD_RECORDING_TO_PIPELINE

\* gstreamer changes the state of a pipeline, not what it was built from.
LEMMA Turning ==
  ASSUME NEW c \in Cameras, NEW s \in {"none", "built", "runs", "stalled", "broken"},
         pipe \in [Cameras -> Pipes], pipe' = [pipe EXCEPT ![c].state = s]
  PROVE  /\ pipe' \in [Cameras -> Pipes] /\ Others(pipe, pipe', c)
         /\ pipe'[c].enc = pipe[c].enc /\ pipe'[c].pay = pipe[c].pay
         /\ pipe'[c].rec = pipe[c].rec
  BY DEF Pipes, Others

(***************************************************************************)
(* The stream thread.                                                      *)
(***************************************************************************)

LEMMA StreamBegin == ASSUME IInv, NEW c \in Cameras, stream_begin(c) PROVE IInv'
<1>1. /\ thread' \in [Cameras -> Threads] /\ thread'[c].at = "build"
      /\ Others(thread, thread', c)
  BY Going, PlaceFacts DEF IInv, TypeOK, stream_begin
<1>2. info' \in [Cameras -> CamInfos]
  BY Showing DEF IInv, TypeOK, stream_begin
<1>3. TypeOK'
  BY <1>1, <1>2 DEF IInv, TypeOK, stream_begin, shared
<1>4. Consistent(c)'
  BY <1>1 DEF Consistent, Built, Finished, stream_begin
<1>5. ASSUME NEW d \in Cameras \ {c} PROVE Consistent(d)'
  BY <1>1, Untouched DEF IInv, Quiet, Others, stream_begin, shared
<1> QED  BY <1>3, <1>4, <1>5 DEF IInv

LEMMA StreamEnd == ASSUME IInv, NEW c \in Cameras, stream_end(c) PROVE IInv'
<1>1. /\ thread' \in [Cameras -> Threads] /\ thread'[c].at = "joined"
      /\ Others(thread, thread', c)
  BY Going, PlaceFacts DEF IInv, TypeOK, stream_end
<1>2. TypeOK'
  BY <1>1 DEF IInv, TypeOK, stream_end, shared
<1>3. Consistent(c)'
  BY <1>1 DEF Consistent, Built, Finished
<1>4. ASSUME NEW d \in Cameras \ {c} PROVE Consistent(d)'
  BY <1>1, Untouched DEF IInv, Quiet, Others, stream_end, shared
<1> QED  BY <1>2, <1>3, <1>4 DEF IInv

LEMMA SetupSource == ASSUME IInv, NEW c \in Cameras, setup_source(c) PROVE IInv'
<1>1. /\ thread' \in [Cameras -> Threads] /\ thread'[c].at = "finish"
      /\ Others(thread, thread', c)
  BY Going, PlaceFacts DEF IInv, TypeOK, setup_source, Built
<1>2. /\ settings[c].codec \in Codecs /\ settings[c].bitrate \in AllRates
  BY DEF IInv, TypeOK, Settings
<1>3. /\ pipe' \in [Cameras -> Pipes] /\ Others(pipe, pipe', c)
      /\ pipe'[c].enc = settings[c].codec
  BY <1>2 DEF IInv, TypeOK, setup_source, Pipes, Others
<1>4. TypeOK'
  BY <1>1, <1>3 DEF IInv, TypeOK, setup_source, shared
<1>5. Consistent(c)'
  BY <1>1, <1>3 DEF IInv, Consistent, Quiet, Built, Finished, setup_source, At
<1>6. ASSUME NEW d \in Cameras \ {c} PROVE Consistent(d)'
  BY <1>1, <1>3, Untouched DEF IInv, Quiet, Others, setup_source, shared
<1> QED  BY <1>4, <1>5, <1>6 DEF IInv

LEMMA SetupFinish == ASSUME IInv, NEW c \in Cameras, setup_finish(c) PROVE IInv'
<1>1. /\ thread' \in [Cameras -> Threads] /\ thread'[c].at \in {"track_read", "launch"}
      /\ Others(thread, thread', c)
  BY Going, PlaceFacts DEF IInv, TypeOK, setup_finish, Finished
<1>2. settings[c].codec \in Codecs /\ ADD_RECORDING_TO_PIPELINE(c) \in BOOLEAN
  BY DEF IInv, TypeOK, Settings, ADD_RECORDING_TO_PIPELINE
<1>3. /\ pipe' \in [Cameras -> Pipes] /\ Others(pipe, pipe', c)
      /\ pipe'[c].enc = pipe[c].enc /\ pipe'[c].pay = settings[c].codec
      /\ pipe'[c].rec = ADD_RECORDING_TO_PIPELINE(c)
  BY ZenonT(40), <1>2 DEF IInv, TypeOK, setup_finish, Pipes, Others
<1>4. TypeOK'
  BY <1>1, <1>3 DEF IInv, TypeOK, setup_finish, shared
<1>5. ADD_RECORDING_TO_PIPELINE(c)' = ADD_RECORDING_TO_PIPELINE(c)
  BY DEF setup_finish, shared, ADD_RECORDING_TO_PIPELINE
<1>6. Consistent(c)'
  BY <1>1, <1>3, <1>5 DEF IInv, Consistent, Quiet, Built, setup_finish, At
<1>7. ASSUME NEW d \in Cameras \ {c} PROVE Consistent(d)'
  BY <1>1, <1>3, Untouched DEF IInv, Quiet, Others, setup_finish, shared
<1> QED  BY <1>4, <1>6, <1>7 DEF IInv

LEMMA TrackRead == ASSUME IInv, NEW c \in Cameras, recording_track_read(c) PROVE IInv'
<1>0. track + 1 \in Nat
  BY DEF IInv, TypeOK
<1>1. /\ thread' \in [Cameras -> Threads] /\ thread'[c].at = "track_write"
      /\ Others(thread, thread', c)
  BY <1>0, PlaceFacts DEF IInv, TypeOK, recording_track_read, Finished, Threads, Others
<1>2. TypeOK'
  BY <1>1 DEF IInv, TypeOK, recording_track_read, shared
<1>3. Consistent(c)'
  BY <1>1 DEF IInv, Consistent, Quiet, Built, Finished, recording_track_read, At, shared,
              ADD_RECORDING_TO_PIPELINE
<1>4. ASSUME NEW d \in Cameras \ {c} PROVE Consistent(d)'
  BY <1>1, Untouched DEF IInv, Quiet, Others, recording_track_read, shared
<1> QED  BY <1>2, <1>3, <1>4 DEF IInv

LEMMA TrackWrite == ASSUME IInv, NEW c \in Cameras, recording_track_write(c) PROVE IInv'
<1>1. /\ thread' \in [Cameras -> Threads] /\ thread'[c].at = "launch"
      /\ Others(thread, thread', c)
  BY PlaceFacts DEF IInv, TypeOK, recording_track_write, Finished, Threads, Others
<1>2. thread[c].count \in Nat
  BY DEF IInv, TypeOK, Threads
<1>3. /\ pipe' \in [Cameras -> Pipes] /\ Others(pipe, pipe', c)
      /\ pipe'[c].enc = pipe[c].enc /\ pipe'[c].pay = pipe[c].pay /\ pipe'[c].rec = pipe[c].rec
  BY SMTT(30), <1>2 DEF IInv, TypeOK, recording_track_write, Pipes, Others
<1>4. TypeOK'
  BY <1>1, <1>2, <1>3 DEF IInv, TypeOK, recording_track_write, shared
<1>5. Consistent(c)'
  BY <1>1, <1>3 DEF IInv, Consistent, Quiet, Built, Finished, recording_track_write, At, shared,
                    ADD_RECORDING_TO_PIPELINE
<1>6. ASSUME NEW d \in Cameras \ {c} PROVE Consistent(d)'
  BY <1>1, <1>3, Untouched DEF IInv, Quiet, Others, recording_track_write, shared
<1> QED  BY <1>4, <1>5, <1>6 DEF IInv

LEMMA SetupLaunch == ASSUME IInv, NEW c \in Cameras, setup_launch(c) PROVE IInv'
<1>1. /\ thread' \in [Cameras -> Threads] /\ thread'[c].at = "start"
      /\ Others(thread, thread', c)
  BY Going, PlaceFacts DEF IInv, TypeOK, setup_launch, Finished
<1>2. settings[c].bitrate \in AllRates /\ pipe[c].rec \in BOOLEAN
  BY DEF IInv, TypeOK, Settings, Pipes
<1>3. info' \in [Cameras -> CamInfos]
  BY <1>2 DEF IInv, TypeOK, setup_launch, CamInfos
<1>4. /\ pipe' \in [Cameras -> Pipes] /\ Others(pipe, pipe', c)
      /\ pipe'[c].enc = pipe[c].enc /\ pipe'[c].pay = pipe[c].pay /\ pipe'[c].rec = pipe[c].rec
  BY Turning DEF IInv, TypeOK, setup_launch
<1>5. left' \in [changes : 0 .. MaxChanges, requests : 0 .. MaxRequests, faults : 0 .. MaxFaults]
  BY Counting DEF IInv, TypeOK, setup_launch
<1>6. TypeOK'
  BY <1>1, <1>3, <1>4, <1>5 DEF IInv, TypeOK, setup_launch
<1>7. Consistent(c)'
  BY <1>1, <1>4 DEF IInv, Consistent, Quiet, Built, Finished, setup_launch, At,
                    ADD_RECORDING_TO_PIPELINE
<1>8. ASSUME NEW d \in Cameras \ {c} PROVE Consistent(d)'
  BY <1>1, <1>4, Untouched DEF IInv, Quiet, Others, setup_launch
<1> QED  BY <1>6, <1>7, <1>8 DEF IInv

LEMMA Start == ASSUME IInv, NEW c \in Cameras, start(c) PROVE IInv'
<1>1. settings[c].bitrate \in AllRates
  BY DEF IInv, TypeOK, Settings
<1>2. /\ thread' \in [Cameras -> Threads] /\ thread'[c].at = "sync"
      /\ Others(thread, thread', c)
  BY ZenonT(40), <1>1, PlaceFacts DEF IInv, TypeOK, start, Finished, Threads, Others
<1>3. TypeOK'
  BY <1>2 DEF IInv, TypeOK, start, shared
<1>4. Consistent(c)'
  BY <1>2 DEF IInv, Consistent, Quiet, Built, Finished, start, At, shared,
              ADD_RECORDING_TO_PIPELINE
<1>5. ASSUME NEW d \in Cameras \ {c} PROVE Consistent(d)'
  BY <1>2, Untouched DEF IInv, Quiet, Others, start, shared
<1> QED  BY <1>3, <1>4, <1>5 DEF IInv

LEMMA SyncBitrate == ASSUME IInv, NEW c \in Cameras, stream_sync_bitrate(c) PROVE IInv'
<1>1. /\ thread' \in [Cameras -> Threads] /\ thread'[c].at = "loop"
      /\ Others(thread, thread', c)
  BY Going, PlaceFacts DEF IInv, TypeOK, stream_sync_bitrate, Finished
<1>2. dyn' \in [Cameras -> AllRates]
  BY DEF IInv, TypeOK, Threads, stream_sync_bitrate
<1>3. TypeOK'
  BY <1>1, <1>2 DEF IInv, TypeOK, stream_sync_bitrate, shared
<1>4. Consistent(c)'
  BY <1>1 DEF IInv, Consistent, Quiet, Built, Finished, stream_sync_bitrate, At, shared,
              ADD_RECORDING_TO_PIPELINE
<1>5. ASSUME NEW d \in Cameras \ {c} PROVE Consistent(d)'
  BY <1>1, Untouched DEF IInv, Quiet, Others, stream_sync_bitrate, shared
<1> QED  BY <1>3, <1>4, <1>5 DEF IInv

LEMMA LoopQuit == ASSUME IInv, NEW c \in Cameras, loop_quit(c) PROVE IInv'
<1>1. /\ thread' \in [Cameras -> Threads] /\ thread'[c].at = "teardown"
      /\ Others(thread, thread', c)
  BY Going, PlaceFacts DEF IInv, TypeOK, loop_quit
<1>2. TypeOK'
  BY <1>1 DEF IInv, TypeOK, loop_quit, shared
<1>3. Consistent(c)'
  BY <1>1 DEF Consistent, Built, Finished
<1>4. ASSUME NEW d \in Cameras \ {c} PROVE Consistent(d)'
  BY <1>1, Untouched DEF IInv, Quiet, Others, loop_quit, shared
<1> QED  BY <1>2, <1>3, <1>4 DEF IInv

\* Both ways to ask for a restart of the own pipeline.
LEMMA LoopRestart ==
  ASSUME IInv, NEW c \in Cameras, loop_no_frame(c) \/ loop_bitrate_restart(c)
  PROVE  IInv'
<1>1. /\ thread' \in [Cameras -> Threads]
      /\ Others(thread, thread', c)
  BY Going, PlaceFacts DEF IInv, TypeOK, loop_no_frame, loop_bitrate_restart, Finished
<1>2. flag' \in [Cameras -> BOOLEAN] /\ flag'[c] /\ Others(flag, flag', c)
  BY Restarting DEF IInv, TypeOK, loop_no_frame, loop_bitrate_restart
<1>3. TypeOK'
  BY <1>1, <1>2 DEF IInv, TypeOK, loop_no_frame, loop_bitrate_restart, shared
<1>4. Consistent(c)'
  BY <1>2 DEF Consistent, Quiet
<1>5. ASSUME NEW d \in Cameras \ {c} PROVE Consistent(d)'
  BY <1>1, <1>2, Untouched
     DEF IInv, Quiet, Others, loop_no_frame, loop_bitrate_restart, shared
<1> QED  BY <1>3, <1>4, <1>5 DEF IInv

LEMMA LoopChangeBitrate == ASSUME IInv, NEW c \in Cameras, loop_change_bitrate(c) PROVE IInv'
<1>1. dyn[c] \in AllRates
  BY DEF IInv, TypeOK
<1>2. /\ thread' \in [Cameras -> Threads] /\ thread'[c].at = "poll"
      /\ Others(thread, thread', c)
  <2>1. CASE thread' = [thread EXCEPT ![c].at = "poll", ![c].applied = dyn[c]]
    BY <1>1, <2>1, PlaceFacts DEF IInv, TypeOK, Threads, Finished, Others
  <2>2. CASE Goto(c, "poll")
    BY <2>2, Going, PlaceFacts DEF IInv, TypeOK, Finished
  <2> QED  BY <2>1, <2>2 DEF loop_change_bitrate
<1>3. /\ pipe' \in [Cameras -> Pipes] /\ Others(pipe, pipe', c)
      /\ pipe'[c].enc = pipe[c].enc /\ pipe'[c].pay = pipe[c].pay /\ pipe'[c].rec = pipe[c].rec
  <2>1. CASE pipe' = [pipe EXCEPT ![c].bitrate = dyn[c]]
    <3>1. pipe \in [Cameras -> Pipes]
      BY DEF IInv, TypeOK
    <3> DEFINE p == [pipe[c] EXCEPT !.bitrate = dyn[c]]
    <3>2. p \in Pipes /\ p.enc = pipe[c].enc /\ p.pay = pipe[c].pay /\ p.rec = pipe[c].rec
      BY <1>1, <3>1 DEF Pipes
    <3>3. pipe' = [pipe EXCEPT ![c] = p]
      BY <2>1
    <3> HIDE DEF p
    <3> QED  BY <3>1, <3>2, <3>3 DEF Others
  <2>2. CASE UNCHANGED pipe
    BY <2>2 DEF IInv, TypeOK, Others
  <2> QED  BY <2>1, <2>2 DEF loop_change_bitrate
<1>4. info' \in [Cameras -> CamInfos]
  <2>1. CASE info' = [info EXCEPT ![c].bitrate = dyn[c]]
    BY <1>1, <2>1 DEF IInv, TypeOK, CamInfos
  <2>2. CASE UNCHANGED info
    BY <2>2 DEF IInv, TypeOK
  <2> QED  BY <2>1, <2>2 DEF loop_change_bitrate
<1>5. left' \in [changes : 0 .. MaxChanges, requests : 0 .. MaxRequests, faults : 0 .. MaxFaults]
  BY Counting DEF IInv, TypeOK, loop_change_bitrate
<1>6. TypeOK'
  BY <1>2, <1>3, <1>4, <1>5 DEF IInv, TypeOK, loop_change_bitrate
<1>7. Consistent(c)'
  BY <1>2, <1>3 DEF IInv, Consistent, Quiet, Built, Finished, loop_change_bitrate, At,
                    ADD_RECORDING_TO_PIPELINE
<1>8. ASSUME NEW d \in Cameras \ {c} PROVE Consistent(d)'
  BY <1>2, <1>3, Untouched DEF IInv, Quiet, Others, loop_change_bitrate
<1> QED  BY <1>6, <1>7, <1>8 DEF IInv

LEMMA LoopNothing == ASSUME IInv, NEW c \in Cameras, loop_nothing(c) PROVE IInv'
<1>1. /\ thread' \in [Cameras -> Threads] /\ thread'[c].at = "poll"
      /\ Others(thread, thread', c)
  BY Going, PlaceFacts DEF IInv, TypeOK, loop_nothing, Finished
<1>2. TypeOK'
  BY <1>1 DEF IInv, TypeOK, loop_nothing, shared
<1>3. Consistent(c)'
  BY <1>1 DEF IInv, Consistent, Quiet, Built, Finished, loop_nothing, At, shared,
              ADD_RECORDING_TO_PIPELINE
<1>4. ASSUME NEW d \in Cameras \ {c} PROVE Consistent(d)'
  BY <1>1, Untouched DEF IInv, Quiet, Others, loop_nothing, shared
<1> QED  BY <1>2, <1>3, <1>4 DEF IInv

\* The flag is lowered only on the way to a new pipeline.
LEMMA LoopTakeRestart == ASSUME IInv, NEW c \in Cameras, loop_take_restart(c) PROVE IInv'
<1>1. /\ thread' \in [Cameras -> Threads] /\ thread'[c].at = "teardown"
      /\ Others(thread, thread', c)
  BY Going, PlaceFacts DEF IInv, TypeOK, loop_take_restart
<1>2. flag' \in [Cameras -> BOOLEAN] /\ Others(flag, flag', c)
  BY DEF IInv, TypeOK, loop_take_restart, Others
<1>3. TypeOK'
  BY <1>1, <1>2 DEF IInv, TypeOK, loop_take_restart, shared
<1>4. Consistent(c)'
  BY <1>1 DEF Consistent, Built, Finished
<1>5. ASSUME NEW d \in Cameras \ {c} PROVE Consistent(d)'
  BY <1>1, <1>2, Untouched DEF IInv, Quiet, Others, loop_take_restart, shared
<1> QED  BY <1>3, <1>4, <1>5 DEF IInv

\* The disk check turns a setting off, and raises the flag with it.
LEMMA LoopPull == ASSUME IInv, NEW c \in Cameras, loop_pull(c) PROVE IInv'
<1>1. /\ thread' \in [Cameras -> Threads] /\ thread'[c].at = "loop"
      /\ Others(thread, thread', c)
  <2>1. CASE thread' = [thread EXCEPT ![c].at = "loop", ![c].first = TRUE]
    BY <2>1, PlaceFacts DEF IInv, TypeOK, Threads, Finished, Others
  <2>2. CASE Goto(c, "loop")
    BY <2>2, Going, PlaceFacts DEF IInv, TypeOK, Finished
  <2> QED  BY <2>1, <2>2 DEF loop_pull
<1>2. info' \in [Cameras -> CamInfos]
  BY Showing DEF IInv, TypeOK, loop_pull
<1>3. /\ settings' \in [Cameras -> Settings] /\ flag' \in [Cameras -> BOOLEAN]
      /\ Others(settings, settings', c) /\ Others(flag, flag', c)
      /\ flag'[c] \/ (settings'[c] = settings[c] /\ flag'[c] = flag[c])
  <2>1. CASE settings' = [settings EXCEPT ![c].rec = "off"] /\ request_restart(c)
    <3>1. settings' \in [Cameras -> Settings] /\ Others(settings, settings', c)
      BY <2>1 DEF IInv, TypeOK, Settings, Modes, Others
    <3> QED  BY <2>1, <3>1, Restarting DEF IInv, TypeOK
  <2>2. CASE UNCHANGED << settings, flag >>
    BY <2>2 DEF IInv, TypeOK, Others
  <2> QED  BY <2>1, <2>2 DEF loop_pull, check_remaining_space_air_recording
<1>4. TypeOK'
  BY <1>1, <1>2, <1>3 DEF IInv, TypeOK, loop_pull, shared
<1>5. Consistent(c)'
  <2>1. CASE flag'[c]
    BY <2>1 DEF Consistent, Quiet
  <2>2. CASE settings'[c] = settings[c] /\ flag'[c] = flag[c]
    BY <1>1, <2>2 DEF IInv, Consistent, Quiet, Built, Finished, loop_pull, At, shared,
                      ADD_RECORDING_TO_PIPELINE
  <2> QED  BY <1>3, <2>1, <2>2
<1>6. ASSUME NEW d \in Cameras \ {c} PROVE Consistent(d)'
  BY <1>1, <1>3, Untouched DEF IInv, Quiet, Others, loop_pull, shared
<1> QED  BY <1>4, <1>5, <1>6 DEF IInv

LEMMA CleanupPipe == ASSUME IInv, NEW c \in Cameras, cleanup_pipe(c) PROVE IInv'
<1>1. /\ thread' \in [Cameras -> Threads] /\ thread'[c].at = "top"
      /\ Others(thread, thread', c)
  BY Going, PlaceFacts DEF IInv, TypeOK, cleanup_pipe
<1>2. NoPipe \in Pipes
  BY ConstantFacts DEF NoPipe, Pipes
<1>3. pipe' \in [Cameras -> Pipes] /\ Others(pipe, pipe', c)
  BY <1>2 DEF IInv, TypeOK, cleanup_pipe, Others
<1>4. TypeOK'
  BY <1>1, <1>3 DEF IInv, TypeOK, cleanup_pipe, shared
<1>5. Consistent(c)'
  BY <1>1 DEF Consistent, Built, Finished
<1>6. ASSUME NEW d \in Cameras \ {c} PROVE Consistent(d)'
  BY <1>1, <1>3, Untouched DEF IInv, Quiet, Others, cleanup_pipe, shared
<1> QED  BY <1>4, <1>5, <1>6 DEF IInv

(***************************************************************************)
(* The other threads.                                                      *)
(***************************************************************************)

\* A setter: between its assignment and its listener the camera is in notify.
LEMMA Assigning ==
  ASSUME IInv, NEW c \in Cameras, NEW s \in Settings, Change, Assign(c, s)
  PROVE  IInv'
<1>1. /\ settings' \in [Cameras -> Settings] /\ Others(settings, settings', c)
  BY DEF IInv, TypeOK, Assign, Others
<1>2. left' \in [changes : 0 .. MaxChanges, requests : 0 .. MaxRequests, faults : 0 .. MaxFaults]
  BY Counting DEF IInv
<1>3. TypeOK'
  BY <1>1, <1>2 DEF IInv, TypeOK, Assign
<1>4. Consistent(c)'
  BY DEF Consistent, Quiet, Assign
<1>5. ASSUME NEW d \in Cameras \ {c} PROVE Consistent(d)'
  BY <1>1, Untouched DEF IInv, Quiet, Others, Assign
<1> QED  BY <1>3, <1>4, <1>5 DEF IInv

LEMMA Setters ==
  ASSUME IInv, NEW c \in Cameras,
         \/ set_enable_streaming(c) \/ set_video_codec(c)
         \/ set_video_bitrate(c) \/ set_air_recording(c)
  PROVE  IInv'
<1>0. settings[c] \in Settings
  BY DEF IInv, TypeOK
<1>1. CASE set_enable_streaming(c)
  <2>1. [settings[c] EXCEPT !.stream = ~ @] \in Settings
    BY <1>0 DEF Settings
  <2> QED  BY <1>1, <2>1, Assigning DEF set_enable_streaming
<1>2. CASE set_video_codec(c)
  <2>1. PICK x \in Codecs : Change /\ Assign(c, [settings[c] EXCEPT !.codec = x])
    BY <1>2 DEF set_video_codec
  <2>2. [settings[c] EXCEPT !.codec = x] \in Settings
    BY <1>0 DEF Settings
  <2> QED  BY <2>1, <2>2, Assigning
<1>3. CASE set_video_bitrate(c)
  <2>1. PICK r \in UserRates : Change /\ Assign(c, [settings[c] EXCEPT !.bitrate = r])
    BY <1>3 DEF set_video_bitrate
  <2>2. [settings[c] EXCEPT !.bitrate = r] \in Settings
    BY <1>0, ConstantFacts DEF Settings
  <2> QED  BY <2>1, <2>2, Assigning
<1>4. CASE set_air_recording(c)
  <2>1. PICK m \in Modes : Change /\ Assign(c, [settings[c] EXCEPT !.rec = m])
    BY <1>4 DEF set_air_recording
  <2>2. [settings[c] EXCEPT !.rec = m] \in Settings
    BY <1>0 DEF Settings
  <2> QED  BY <2>1, <2>2, Assigning
<1> QED  BY <1>1, <1>2, <1>3, <1>4

\* The listener hands the duty of the setter over to the flag.
LEMMA SettingsChanged == ASSUME IInv, NEW c \in Cameras, settings_changed(c) PROVE IInv'
<1>1. flag' \in [Cameras -> BOOLEAN] /\ flag'[c] /\ Others(flag, flag', c)
  BY Restarting DEF IInv, TypeOK, settings_changed
<1>2. TypeOK'
  BY <1>1 DEF IInv, TypeOK, settings_changed
<1>3. Consistent(c)'
  BY <1>1 DEF Consistent, Quiet
<1>4. ASSUME NEW d \in Cameras \ {c} PROVE Consistent(d)'
  BY <1>1, Untouched DEF IInv, Quiet, Others, settings_changed
<1> QED  BY <1>2, <1>3, <1>4 DEF IInv

LEMMA AtLeastMinTyped == ASSUME NEW r \in Int PROVE AtLeastMin(r) \in AllRates
  BY RatesAssumption DEF AtLeastMin, AllRates

LEMMA SplitTyped == ASSUME NEW r \in Rates, NEW c \in Cameras PROVE Split(r)[c] \in Int
<1>1. r \in Int /\ PrimaryPerc \in Int
  BY RatesAssumption
<1>2. (r * PrimaryPerc) \in Int
  BY <1>1
<1>3. (r * PrimaryPerc) \div 100 \in Int
  BY <1>2
<1>4. r - ((r * PrimaryPerc) \div 100) \in Int
  BY <1>1, <1>3
<1> QED  BY <1>1, <1>3, <1>4 DEF Split

LEMMA BitrateRequested ==
  ASSUME IInv, NEW r \in Rates, handle_change_bitrate_request(r)
  PROVE  IInv'
<1>1. \A c \in Cameras : AtLeastMin(Split(r)[c]) \in AllRates
  BY SplitTyped, AtLeastMinTyped
<1>2. request' \in [Cameras -> {-1} \cup AllRates]
  BY <1>1 DEF handle_change_bitrate_request
<1>3. 0 \in Cameras
  BY CamerasAssumption
<1>4. dyn' \in [Cameras -> AllRates]
  BY <1>1, <1>3 DEF IInv, TypeOK, handle_change_bitrate_request
<1>5. left' \in [changes : 0 .. MaxChanges, requests : 0 .. MaxRequests, faults : 0 .. MaxFaults]
  BY BoundsAssumption DEF IInv, TypeOK, handle_change_bitrate_request
<1>6. TypeOK'
  BY <1>2, <1>4, <1>5 DEF IInv, TypeOK, handle_change_bitrate_request
<1>7. ASSUME NEW d \in Cameras PROVE Consistent(d)'
  BY Untouched DEF IInv, Quiet, handle_change_bitrate_request
<1> QED  BY <1>6, <1>7 DEF IInv

\* A bitrate is saved without a restart; nothing else of the settings changes.
LEMMA BitrateSaved ==
  ASSUME IInv, InTurn, NEW c \in Cameras, bitrate_saved(c)
  PROVE  IInv'
<1>1. request[c] \in AllRates
  BY DEF IInv, TypeOK, bitrate_saved
<1>2. /\ settings' \in [Cameras -> Settings] /\ Others(settings, settings', c)
      /\ settings'[c].stream = settings[c].stream
      /\ settings'[c].codec = settings[c].codec
      /\ settings'[c].rec = settings[c].rec
  BY <1>1 DEF IInv, TypeOK, Settings, Others, bitrate_saved
<1>3. request' \in [Cameras -> {-1} \cup AllRates]
  BY DEF IInv, TypeOK, bitrate_saved
<1>4. dyn' \in [Cameras -> AllRates]
  <2>1. ASSUME NEW d \in Cameras, d = c + 1 PROVE request[d] \in AllRates
    BY <2>1 DEF IInv, TypeOK, InTurn, bitrate_saved
  <2> QED  BY <2>1 DEF IInv, TypeOK, bitrate_saved
<1>5. TypeOK'
  BY <1>2, <1>3, <1>4 DEF IInv, TypeOK, bitrate_saved
<1>6. Consistent(c)'
  BY <1>2 DEF IInv, Consistent, Quiet, bitrate_saved, ADD_RECORDING_TO_PIPELINE
<1>7. ASSUME NEW d \in Cameras \ {c} PROVE Consistent(d)'
  BY <1>2, Untouched DEF IInv, Quiet, Others, bitrate_saved
<1> QED  BY <1>5, <1>6, <1>7 DEF IInv

\* Arming changes what an automatic recording wants, and raises the flag with it.
LEMMA ArmingChanged == ASSUME IInv, update_arming_state PROVE IInv'
<1>1. armedRec' \in [Cameras -> BOOLEAN] /\ flag' \in [Cameras -> BOOLEAN] /\ armed' \in BOOLEAN
  BY DEF IInv, TypeOK, update_arming_state
<1>2. left' \in [changes : 0 .. MaxChanges, requests : 0 .. MaxRequests, faults : 0 .. MaxFaults]
  BY Counting DEF IInv, update_arming_state
<1>3. TypeOK'
  BY <1>1, <1>2 DEF IInv, TypeOK, update_arming_state
<1>4. ASSUME NEW d \in Cameras PROVE Consistent(d)'
  <2>1. CASE settings[d].rec = "auto"
    BY <2>1 DEF Consistent, Quiet, update_arming_state
  <2>2. CASE settings[d].rec # "auto"
    BY <2>2, Untouched DEF IInv, Quiet, update_arming_state
  <2> QED  BY <2>1, <2>2
<1> QED  BY <1>3, <1>4 DEF IInv

LEMMA CameraStalls == ASSUME IInv, NEW c \in Cameras, camera_stalls(c) PROVE IInv'
<1>1. /\ pipe' \in [Cameras -> Pipes] /\ Others(pipe, pipe', c)
      /\ pipe'[c].enc = pipe[c].enc /\ pipe'[c].pay = pipe[c].pay /\ pipe'[c].rec = pipe[c].rec
  BY Turning DEF IInv, TypeOK, camera_stalls
<1>2. left' \in [changes : 0 .. MaxChanges, requests : 0 .. MaxRequests, faults : 0 .. MaxFaults]
  BY Counting DEF IInv, camera_stalls
<1>3. TypeOK'
  BY <1>1, <1>2 DEF IInv, TypeOK, camera_stalls
<1>4. Consistent(c)'
  BY <1>1 DEF IInv, Consistent, Quiet, camera_stalls, ADD_RECORDING_TO_PIPELINE
<1>5. ASSUME NEW d \in Cameras \ {c} PROVE Consistent(d)'
  BY <1>1, Untouched DEF IInv, Quiet, Others, camera_stalls
<1> QED  BY <1>3, <1>4, <1>5 DEF IInv

\* The disk, the end, and the steps that change nothing.
LEMMA Elsewhere ==
  ASSUME IInv, disk_fills \/ terminate_looping \/ UNCHANGED vars
  PROVE  IInv'
<1>1. TypeOK'
  <2>1. CASE disk_fills
    BY <2>1 DEF IInv, TypeOK, disk_fills
  <2>2. CASE terminate_looping
    <3>1. 0 \in 0 .. MaxChanges /\ 0 \in 0 .. MaxRequests
      BY BoundsAssumption
    <3>2. left' = [left EXCEPT !.changes = 0, !.requests = 0]
      BY <2>2 DEF terminate_looping
    <3>3. left' \in [changes : 0 .. MaxChanges, requests : 0 .. MaxRequests,
                     faults : 0 .. MaxFaults]
      BY <3>1, <3>2 DEF IInv, TypeOK
    <3> QED  BY <2>2, <3>3 DEF IInv, TypeOK, terminate_looping
  <2>3. CASE UNCHANGED vars
    BY <2>3 DEF IInv, TypeOK, vars
  <2> QED  BY <2>1, <2>2, <2>3
<1>2. ASSUME NEW d \in Cameras PROVE Consistent(d)'
  BY Untouched DEF IInv, Quiet, disk_fills, terminate_looping, vars
<1> QED  BY <1>1, <1>2 DEF IInv

(***************************************************************************)
(* The theorems.                                                           *)
(***************************************************************************)

LEMMA InitEstablishes == Init => IInv
<1> SUFFICES ASSUME Init PROVE IInv
  OBVIOUS
<1>1. settings \in [Cameras -> Settings]
  BY ConstantFacts DEF Init, Settings, Modes
<1>2. thread \in [Cameras -> Threads]
  BY ConstantFacts, PlaceFacts DEF Init, Threads
<1>3. pipe \in [Cameras -> Pipes]
  BY ConstantFacts DEF Init, Pipes, NoPipe
<1>4. info \in [Cameras -> CamInfos]
  BY ConstantFacts DEF Init, CamInfos
<1>5. left \in [changes : 0 .. MaxChanges, requests : 0 .. MaxRequests, faults : 0 .. MaxFaults]
  BY BoundsAssumption DEF Init
<1>6. TypeOK
  BY <1>1, <1>2, <1>3, <1>4, <1>5, ConstantFacts DEF Init, TypeOK
<1>7. ASSUME NEW c \in Cameras PROVE Consistent(c)
  BY DEF Init, Consistent, Built, Finished
<1> QED  BY <1>6, <1>7 DEF IInv

LEMMA StreamPreserves == ASSUME IInv, NEW c \in Cameras, Stream(c) PROVE IInv'
  BY StreamBegin, StreamEnd, SetupSource, SetupFinish, TrackRead, TrackWrite, SetupLaunch, Start,
     SyncBitrate, LoopQuit, LoopRestart, LoopChangeBitrate, LoopNothing, LoopTakeRestart,
     LoopPull, CleanupPipe
  DEF Stream

\* Only the link's worker touches the requests, and it handles them in turn.
LEMMA InTurnInductive == InTurn /\ [Next]_vars => InTurn'
<1> SUFFICES ASSUME InTurn, [Next]_vars PROVE InTurn'
  OBVIOUS
<1>1. ASSUME NEW r \in Rates, handle_change_bitrate_request(r) PROVE InTurn'
  <2>1. \A c \in Cameras : AtLeastMin(Split(r)[c]) \in Nat
    BY SplitTyped, AtLeastMinTyped, ConstantFacts
  <2> QED  BY <1>1, <2>1 DEF InTurn, handle_change_bitrate_request
<1>2. ASSUME NEW c \in Cameras, bitrate_saved(c) PROVE InTurn'
  BY <1>2, CamerasAssumption DEF InTurn, bitrate_saved
<1>3. ASSUME NEW c \in Cameras, Stream(c) PROVE UNCHANGED request
  BY <1>3 DEF Stream, stream_begin, stream_end, setup_source, setup_finish,
     recording_track_read, recording_track_write, setup_launch, start, stream_sync_bitrate,
     loop_quit, loop_no_frame, loop_change_bitrate, loop_bitrate_restart, loop_nothing,
     loop_take_restart, loop_pull, cleanup_pipe
<1>4. ASSUME NEW c \in Cameras,
             \/ set_enable_streaming(c) \/ set_video_codec(c) \/ set_video_bitrate(c)
             \/ set_air_recording(c) \/ settings_changed(c) \/ camera_stalls(c)
             \/ stream_disabled(c)
      PROVE  UNCHANGED request
  BY <1>4 DEF set_enable_streaming, set_video_codec, set_video_bitrate, set_air_recording, Assign,
     settings_changed, camera_stalls, stream_disabled, vars
<1>5. ASSUME update_arming_state \/ disk_fills \/ terminate_looping \/ Joined \/ UNCHANGED vars
      PROVE  UNCHANGED request
  BY <1>5 DEF update_arming_state, disk_fills, terminate_looping, Joined, vars
<1>6. ASSUME UNCHANGED request PROVE InTurn'
  BY <1>6 DEF InTurn
<1> QED
  BY <1>1, <1>2, <1>3, <1>4, <1>5, <1>6 DEF Next

LEMMA NextPreserves == IInv /\ InTurn /\ [Next]_vars => IInv'
<1> SUFFICES ASSUME IInv, InTurn, [Next]_vars PROVE IInv'
  OBVIOUS
<1>1. ASSUME NEW c \in Cameras, Stream(c) PROVE IInv'
  BY <1>1, StreamPreserves
<1>2. ASSUME NEW c \in Cameras, \/ settings_changed(c) \/ bitrate_saved(c) \/ camera_stalls(c)
      PROVE  IInv'
  BY <1>2, SettingsChanged, BitrateSaved, CameraStalls
<1>3. ASSUME NEW c \in Cameras,
             \/ set_enable_streaming(c) \/ set_video_codec(c)
             \/ set_video_bitrate(c) \/ set_air_recording(c)
      PROVE  IInv'
  BY <1>3, Setters
<1>4. ASSUME NEW r \in Rates, handle_change_bitrate_request(r) PROVE IInv'
  BY <1>4, BitrateRequested
<1>5. CASE update_arming_state
  BY <1>5, ArmingChanged
<1>6. CASE disk_fills \/ terminate_looping \/ UNCHANGED vars
  BY <1>6, Elsewhere
<1>7. ASSUME Joined \/ \E c \in Cameras : stream_disabled(c) PROVE UNCHANGED vars
  BY <1>7 DEF Joined, stream_disabled
<1> QED
  BY <1>1, <1>2, <1>3, <1>4, <1>5, <1>6, <1>7 DEF Next

LEMMA Inductive == Spec => []IInv
<1>1. Init => InTurn
  BY DEF Init, InTurn
<1> QED
  BY <1>1, InitEstablishes, InTurnInductive, NextPreserves, PTL DEF Spec

\* Every state of the streams is well typed, for any codecs, bitrates and bounds;
\* in particular no bitrate that the link's split yields is below the minimum
\* (handle_change_bitrate_request).
THEOREM TypeCorrect == Spec => []TypeOK
<1>1. IInv => TypeOK
  BY DEF IInv
<1> QED  BY <1>1, Inductive, PTL

\* No restart is lost: in every order of setters, listeners, arming, disk checks
\* and rebuilds, a running pipeline with no restart pending is the one that its
\* settings ask for (m_request_restart in stream_once).
THEOREM PipelineFollows == Spec => []PipelineFollowsSettings
<1>1. IInv => PipelineFollowsSettings
  <2> SUFFICES ASSUME IInv, NEW c \in Cameras, Running(c), Quiet(c)
               PROVE  /\ settings[c].stream
                      /\ pipe[c].enc = settings[c].codec /\ pipe[c].pay = settings[c].codec
                      /\ pipe[c].rec = ADD_RECORDING_TO_PIPELINE(c)
    BY DEF PipelineFollowsSettings
  <2>1. thread[c].at \in Finished
    BY DEF Running, Finished
  <2> QED  BY <2>1 DEF IInv, Consistent, Built
<1> QED  BY <1>1, Inductive, PTL

-----------------------------------------------------------------------------
(***************************************************************************)
(* CameraPipeline: what the settings, elements and pipelines of a camera   *)
(* are, and what the encoders and the discovery of cameras compute.        *)
(***************************************************************************)

CameraStates ==
  [codec : {"h264", "h265"}, kbits : Int, fmt : Int \X Int \X Int, key : Int, intra : Int,
   slices : Int, sw : BOOLEAN, iq : BOOLEAN]

Elements == {"none", "swencoder", "rpi_v4l2_encoder", "rpicamsrc", "mpp", "imxvpuenc",
             "omxh264videoenc", "sunxisrc", "vpuenc", "qtic2venc", "nvidia", "rkmpih264enc",
             "udpsrc"}
Pipelines ==
  [el : Elements, codec : {"none", "h264", "h265"}, pay : {"none", "h264", "h265"},
   rate : Int, rows : Int,
   dies : {"no", "zero", "assert"}]

\* The slice height is a number of rows.
LEMMA SliceRowsInt == \A h, n \in Int : rpi_calculate_number_of_mbs_in_a_slice(h, n) \in Int
  BY DEF rpi_calculate_number_of_mbs_in_a_slice, SliceRows, ALIGN_UP

\* What an encoder built from the settings s of a camera t does.
LEMMA EncoderFacts ==
  ASSUME NEW t, NEW s \in CameraStates, host.hdmi_v4l2 \in BOOLEAN
  PROVE  LET p == create_source_encode_pipeline(t, s) IN
         /\ p \in Pipelines
         /\ p.el = "swencoder" \/ p.el = "rkmpih264enc" \/ p.el = "sunxisrc" => p.rate = s.kbits
         /\ p.el = "rpicamsrc" => /\ requires_rpi_mmal_pipeline(t)
                                  /\ p.rate = IF requires_half_bitrate_workaround(t, s)
                                              THEN bits(s.kbits) \div 2 ELSE bits(s.kbits)
         /\ requires_rpi_mmal_pipeline(t) /\ ~host.hdmi_v4l2 => p.el \in {"rpicamsrc", "swencoder"}
         /\ p.el \notin {"missing", "none"}
         /\ p.dies # "assert" /\ ~requires_a733_pipeline(t) => p.codec = s.codec
         /\ p.rows # 0 => p.rows = rpi_calculate_number_of_mbs_in_a_slice(s.fmt[2], s.slices)
<1> USE DEF Enc, Encoder, Pipelines, Elements, CameraStates, bits, createSwEncoder,
     requires_half_bitrate_workaround
<1> DEFINE Good(p) ==
         /\ p \in Pipelines
         /\ p.el = "swencoder" \/ p.el = "rkmpih264enc" \/ p.el = "sunxisrc" => p.rate = s.kbits
         /\ p.el = "rpicamsrc" => /\ requires_rpi_mmal_pipeline(t)
                                  /\ p.rate = IF requires_half_bitrate_workaround(t, s)
                                              THEN bits(s.kbits) \div 2 ELSE bits(s.kbits)
         /\ p.el \notin {"missing", "none"}
         /\ p.dies # "assert" /\ ~requires_a733_pipeline(t) => p.codec = s.codec
         /\ p.rows # 0 => p.rows = rpi_calculate_number_of_mbs_in_a_slice(s.fmt[2], s.slices)
<1>s. Good(createSwEncoder(s))
  OBVIOUS
<1>v. Good(create_rpi_v4l2_h264_encoder(s))
  <2> DEFINE rows == rpi_calculate_number_of_mbs_in_a_slice(s.fmt[2], s.slices)
  <2>1. create_rpi_v4l2_h264_encoder(s) =
          [el |-> "rpi_v4l2_encoder", codec |-> "h264", pay |-> "none", rate |-> bits(s.kbits), rows |-> rows,
           dies |-> IF s.codec /= "h264" THEN "assert" ELSE IF s.intra /= -1 /\ s.key = 0 THEN "zero" ELSE "no"]
    BY DEF create_rpi_v4l2_h264_encoder
  <2>2. rows \in Int
    BY SliceRowsInt
  <2> HIDE DEF rows
  <2> QED BY <2>1, <2>2 DEF rows
<1>r. Good(createRockchipEncoderPipeline(s))
  BY DEF createRockchipEncoderPipeline, Lower
<1>e. Good(RpiEncoder(s)) /\ Good(RpiEncoder([s EXCEPT !.sw = FALSE]))
  <2>1. RpiEncoder([s EXCEPT !.sw = FALSE]) =
          IF s.codec = "h264" THEN create_rpi_v4l2_h264_encoder(s) ELSE createSwEncoder(s)
    BY DEF RpiEncoder, create_rpi_v4l2_h264_encoder, rpi_calculate_number_of_mbs_in_a_slice
  <2>2. RpiEncoder(s) = create_rpi_v4l2_h264_encoder(s) \/ RpiEncoder(s) = createSwEncoder(s)
    BY DEF RpiEncoder
  <2>3. RpiEncoder([s EXCEPT !.sw = FALSE]) \in {create_rpi_v4l2_h264_encoder(s), createSwEncoder(s)}
    BY <2>1
  <2> HIDE DEF Good, createSwEncoder
  <2> QED BY <2>2, <2>3, <1>s, <1>v
<1>d. Good(createDummyStreamX(s)) /\ Good(create_dummy_filesrc_stream(s))
  BY <1>s, <1>v, <1>r, <1>e DEF createDummyStreamX, create_dummy_filesrc_stream
<1>c. t = 20 => Good(createRpicamsrcStream(s)) /\ createRpicamsrcStream(s).el \in {"rpicamsrc", "swencoder"}
  BY <1>s DEF createRpicamsrcStream, requires_rpi_mmal_pipeline, requires_a733_pipeline
<1>o. /\ Good(create_nxp_imx8_v4l2_stream(s)) /\ Good(createAllwinnerStream(s))
      /\ Good(create_orqa_camera1_stream(s)) /\ Good(create_qualcomm_camera1_stream(s))
      /\ Good(create_nvidia_xavier_stream(s)) /\ Good(createRv1106Stream(s))
      /\ Good(create_input_custom_udp_rtp_port(s))
      /\ requires_a733_pipeline(t) => Good(createAllwinnerCsiStream(s))
  BY DEF create_nxp_imx8_v4l2_stream, createAllwinnerStream, create_orqa_camera1_stream,
     create_qualcomm_camera1_stream, create_nvidia_xavier_stream, createRv1106Stream,
     create_input_custom_udp_rtp_port, createAllwinnerCsiStream
<1> HIDE DEF Good, Enc, Encoder, Pipelines, Elements, CameraStates, bits, createSwEncoder,
     requires_half_bitrate_workaround
<1>1. Good(create_source_encode_pipeline(t, s))
  BY <1>s, <1>v, <1>r, <1>e, <1>d, <1>c, <1>o, SMT DEF create_source_encode_pipeline, createLibcamerasrcStream,
     create_veye_vl2_stream, createV4l2SrcRawAndSwEncodeStream, requires_rpi_mmal_pipeline, requires_a733_pipeline
<1>2. requires_rpi_mmal_pipeline(t) /\ ~host.hdmi_v4l2 =>
        create_source_encode_pipeline(t, s).el \in {"rpicamsrc", "swencoder"}
  <2>1. requires_rpi_mmal_pipeline(t) /\ ~host.hdmi_v4l2 =>
          create_source_encode_pipeline(t, s) = createRpicamsrcStream(s)
    BY SMT DEF create_source_encode_pipeline, requires_rpi_mmal_pipeline, requires_rpi_libcamera_pipeline,
       requires_rpi_veye_pipeline, requires_rockchip_mpp_pipeline, requires_x20_cedar_pipeline,
       requires_a733_pipeline, requires_orqa_pipeline, requires_nxp_imx8_v4l2_pipeline, is_usb_camera,
       requires_rockchip_rv_pipeline, Filesrc
  <2> QED BY <2>1, <1>c DEF requires_rpi_mmal_pipeline
<1> QED BY <1>1, <1>2 DEF Good

\* The bitrate decides nothing but the rate.
LEMMA RateOnly ==
  ASSUME NEW t, NEW s \in CameraStates, NEW k \in Int
  PROVE  LET r == [s EXCEPT !.kbits = k]
             p == create_source_encode_pipeline(t, s)
             q == create_source_encode_pipeline(t, r)
         IN  /\ q.el = p.el /\ q.codec = p.codec /\ q.rows = p.rows /\ q.dies = p.dies
             /\ r \in CameraStates /\ r.codec = s.codec /\ r.kbits = k /\ r.fmt = s.fmt /\ r.slices = s.slices
             /\ ControlName(t, r) = ControlName(t, s)
<1> DEFINE r == [s EXCEPT !.kbits = k]
           Same(p, q) == q.el = p.el /\ q.codec = p.codec /\ q.rows = p.rows /\ q.dies = p.dies
<1>1. /\ r \in CameraStates /\ r.codec = s.codec /\ r.kbits = k /\ r.fmt = s.fmt /\ r.slices = s.slices
      /\ r.sw = s.sw /\ r.intra = s.intra /\ r.key = s.key
  BY DEF CameraStates
<1> HIDE DEF r
<1>2. ControlName(t, r) = ControlName(t, s)
  BY <1>1 DEF ControlName
<1> USE DEF Enc, Encoder
<1>s. Same(createSwEncoder(s), createSwEncoder(r))
  BY <1>1 DEF createSwEncoder
<1>v. Same(create_rpi_v4l2_h264_encoder(s), create_rpi_v4l2_h264_encoder(r))
  BY <1>1 DEF create_rpi_v4l2_h264_encoder
<1>r. Same(createRockchipEncoderPipeline(s), createRockchipEncoderPipeline(r))
  BY <1>1 DEF createRockchipEncoderPipeline
<1>e. /\ Same(RpiEncoder(s), RpiEncoder(r))
      /\ Same(RpiEncoder([s EXCEPT !.sw = FALSE]), RpiEncoder([r EXCEPT !.sw = FALSE]))
  <2> DEFINE Off(x) == IF x.codec = "h264" THEN create_rpi_v4l2_h264_encoder(x) ELSE createSwEncoder(x)
  <2>1. ASSUME NEW x \in CameraStates PROVE RpiEncoder([x EXCEPT !.sw = FALSE]) = Off(x)
    BY DEF RpiEncoder, create_rpi_v4l2_h264_encoder, createSwEncoder, CameraStates
  <2>2. Same(Off(s), Off(r))
    BY <1>1, <1>s, <1>v
  <2>3. Same(RpiEncoder(s), RpiEncoder(r))
    BY <1>1, <1>s, <1>v DEF RpiEncoder
  <2> QED BY <2>1, <2>2, <2>3, <1>1
<1>c. Same(createRpicamsrcStream(s), createRpicamsrcStream(r))
  BY <1>1, <1>s DEF createRpicamsrcStream
<1>o. /\ Same(create_nxp_imx8_v4l2_stream(s), create_nxp_imx8_v4l2_stream(r))
      /\ Same(createAllwinnerStream(s), createAllwinnerStream(r))
      /\ Same(create_orqa_camera1_stream(s), create_orqa_camera1_stream(r))
      /\ Same(create_qualcomm_camera1_stream(s), create_qualcomm_camera1_stream(r))
      /\ Same(create_nvidia_xavier_stream(s), create_nvidia_xavier_stream(r))
      /\ Same(createRv1106Stream(s), createRv1106Stream(r))
      /\ Same(create_input_custom_udp_rtp_port(s), create_input_custom_udp_rtp_port(r))
      /\ Same(createAllwinnerCsiStream(s), createAllwinnerCsiStream(r))
  BY <1>1 DEF create_nxp_imx8_v4l2_stream, createAllwinnerStream, create_orqa_camera1_stream,
     create_qualcomm_camera1_stream, create_nvidia_xavier_stream, createRv1106Stream,
     create_input_custom_udp_rtp_port, createAllwinnerCsiStream
<1> HIDE DEF Enc, Encoder, Same
<1>d. /\ Same(createDummyStreamX(s), createDummyStreamX(r))
      /\ Same(create_dummy_filesrc_stream(s), create_dummy_filesrc_stream(r))
  BY <1>1, <1>s, <1>v, <1>r, <1>e DEF createDummyStreamX, create_dummy_filesrc_stream
<1>3. Same(create_source_encode_pipeline(t, s), create_source_encode_pipeline(t, r))
  BY <1>1, <1>s, <1>v, <1>r, <1>e, <1>d, <1>c, <1>o, SMT DEF create_source_encode_pipeline, createLibcamerasrcStream,
     create_veye_vl2_stream, createV4l2SrcRawAndSwEncodeStream
<1> QED BY <1>1, <1>2, <1>3 DEF Same, r

-----------------------------------------------------------------------------
(* The slices of the Raspberry Pi encoder.                                 *)

\* Quotient and remainder, for the products below.
LEMMA Division ==
  ASSUME NEW a \in Int, NEW b \in Nat \ {0}
  PROVE  a \div b \in Int /\ a % b \in 0 .. (b - 1) /\ a = b * (a \div b) + (a % b)
  OBVIOUS

\* Rows of macroblocks dealt out to n slices, rounded up, make at most n slices
\* (rpi_calculate_number_of_mbs_in_a_slice).
LEMMA SlicesFit ==
  ASSUME NEW h \in Int, NEW n \in Int, NEW rows \in Int,
         rows = rpi_calculate_number_of_mbs_in_a_slice(h, n), rows > 0, h % 16 \notin 1 .. 7
  PROVE  Slices(h, rows) <= n
<1> DEFINE T == (h + 15) \div 16
           R == ALIGN_UP(h, 16) \div 16
           q == (T + rows - 1) \div rows
<1>1. R = T /\ T \in Int
  BY DEF ALIGN_UP
<1>2. n >= 2 /\ rows = IF n > R THEN R ELSE SliceRows(R, n)
  BY DEF rpi_calculate_number_of_mbs_in_a_slice
<1> HIDE DEF T, R
<1>3. T <= n * rows
  <2>1. CASE n > R
    <3>1. rows = T /\ T > 0
      BY <2>1, <1>1, <1>2
    <3> QED BY <3>1, <1>1, <1>2
  <2>2. CASE ~(n > R)
    <3> DEFINE d == R \div n
               m == R % n
    <3>0. R \in Int /\ n \in Nat \ {0}
      BY <1>1, <1>2
    <3>1. d \in Int /\ m \in 0 .. (n - 1) /\ R = n * d + m
      BY <3>0, Division, Zenon
    <3>2. rows = d + (IF m > 0 THEN 1 ELSE 0)
      BY <2>2, <1>2 DEF SliceRows
    <3> HIDE DEF d, m
    <3>3. CASE m > 0
      <4>1. rows = d + 1
        BY <3>2, <3>3
      <4>2. n * rows = n * d + n
        BY <4>1, <3>1
      <4> QED BY <4>2, <3>1, <1>1
    <3>4. CASE ~(m > 0)
      <4>1. rows = d /\ m = 0
        BY <3>1, <3>2, <3>4
      <4> QED BY <4>1, <3>1, <1>1
    <3> QED BY <3>3, <3>4
  <2> QED BY <2>1, <2>2
<1>4. q \in Int /\ rows * q <= T + rows - 1
  <2> DEFINE x == T + rows - 1
  <2>1. x \in Int /\ rows \in Nat \ {0}
    BY <1>1
  <2> HIDE DEF x
  <2>2. x \div rows \in Int /\ x % rows \in 0 .. (rows - 1) /\ x = rows * (x \div rows) + (x % rows)
    BY <2>1, Division, Zenon
  <2>3. rows * (x \div rows) \in Int
    BY <2>1, <2>2
  <2>4. rows * (x \div rows) <= x
    BY <2>1, <2>2, <2>3
  <2> QED BY <2>2, <2>4 DEF x
<1> HIDE DEF q
<1>5. ~(q >= n + 1)
  <2> SUFFICES ASSUME q >= n + 1 PROVE FALSE
    OBVIOUS
  <2>1. rows * q >= rows * (n + 1)
    BY <1>4
  <2>2. rows * (n + 1) = n * rows + rows
    OBVIOUS
  <2>3. n * rows \in Int /\ rows * q \in Int /\ rows * (n + 1) \in Int
    BY <1>4
  <2> QED BY <2>1, <2>2, <2>3, <1>1, <1>3, <1>4
<1> QED BY <1>4, <1>5 DEF Slices, q, T

-----------------------------------------------------------------------------
(* Discovery: which devices the USB cameras of a choice get.               *)

\* Devices are numbers, so there is a first one.
LEMMA SmallestNumber ==
  ASSUME NEW S \in SUBSET Nat, S # {}
  PROVE  \E m \in S : \A k \in S : m <= k
<1> DEFINE R == {ss \in Nat \X Nat : ss[1] < ss[2]}
<1>1. IsWellFoundedOn(R, Nat)
  BY NatLessThanWellFounded DEF OpToRel
<1>2. \E x \in S : \A y \in S : ~(<< y, x >> \in R)
  <2> HIDE DEF R
  <2> QED BY <1>1, WFMin
<1>3. \A x, y \in S : ~(<< y, x >> \in R) => x <= y
  OBVIOUS
<1> HIDE DEF R
<1> QED BY <1>2, <1>3

\* The lowest device, and the one after it.
LEMMA LowestDevices ==
  ASSUME NEW S, IsFiniteSet(S), \A n \in S : n.dev \in Nat, \A n, m \in S : n.dev = m.dev => n = m
  PROVE  /\ Cardinality(S) >= 1 => \E n \in S : Cardinality({m \in S : m.dev < n.dev}) = 0
         /\ Cardinality(S) >= 2 => \E n \in S : Cardinality({m \in S : m.dev < n.dev}) = 1
<1> DEFINE Below(n) == {m \in S : m.dev < n.dev}
<1>1. ASSUME NEW Z \in SUBSET S, Z # {} PROVE \E n \in Z : \A m \in Z \ {n} : n.dev < m.dev
  <2> DEFINE D == {n.dev : n \in Z}
  <2>1. PICK d \in D : \A k \in D : d <= k
    <3>1. D \in SUBSET Nat /\ D # {}
      BY <1>1
    <3> HIDE DEF D
    <3> QED BY <3>1, SmallestNumber
  <2>2. PICK n \in Z : n.dev = d
    OBVIOUS
  <2>3. ASSUME NEW m \in Z \ {n} PROVE n.dev < m.dev
    <3>1. d <= m.dev /\ m.dev # d
      BY <2>1, <2>2, <2>3
    <3> QED BY <3>1, <2>2
  <2> QED BY <2>2, <2>3
<1>2. ASSUME S # {} PROVE \E n \in S : Cardinality(Below(n)) = 0
  <2>1. PICK n \in S : \A m \in S \ {n} : n.dev < m.dev
    BY <1>1, <1>2
  <2>2. Below(n) = {}
    BY <2>1
  <2> QED BY <2>2, FS_EmptySet
<1>3. ASSUME Cardinality(S) >= 2 PROVE \E n \in S : Cardinality(Below(n)) = 1
  <2>1. PICK a \in S : \A m \in S \ {a} : a.dev < m.dev
    <3>1. S # {}
      BY <1>3, FS_EmptySet
    <3> QED BY <3>1, <1>1
  <2>2. S \ {a} # {}
    <3>1. SUFFICES ASSUME S \ {a} = {} PROVE FALSE
      OBVIOUS
    <3>2. S = {a}
      BY <3>1
    <3> QED BY <3>2, <1>3, FS_Singleton
  <2>3. PICK b \in S \ {a} : \A m \in (S \ {a}) \ {b} : b.dev < m.dev
    BY <1>1, <2>2
  <2>4. Below(b) = {a}
    BY <2>1, <2>3
  <2> QED BY <2>3, <2>4, FS_Singleton
<1>4. Cardinality(S) >= 1 => S # {}
  BY FS_EmptySet
<1> QED BY <1>2, <1>3, <1>4

\* What detect_usb_cameras finds.
LEMMA DetectFacts ==
  ASSUME nodes \in Nodes
  PROVE  LET d == detect_usb_cameras IN
         /\ Len(d) \in Nat
         /\ \A i \in 1 .. 2 : i <= Len(d) => d[i] \in Nat
         /\ Len(d) >= 2 => d[1] # d[2]
<1> DEFINE first == {n \in raw_nodes : \A m \in raw_nodes : m.bus = n.bus => n.dev <= m.dev}
           Below(d) == Cardinality({n \in first : n.dev < d})
           c == Cardinality(first)
           Found(i) == CHOOSE n \in first : Below(n.dev) = i - 1
           D == [i \in 1 .. c |-> Found(i).dev]
<1>1. /\ IsFiniteSet(first) /\ c \in Nat
      /\ \A n \in first : n.dev \in Nat
      /\ \A n, m \in first : n.dev = m.dev => n = m
  <2>1. first \subseteq nodes
    BY DEF raw_nodes
  <2>2. IsFiniteSet(nodes)
    BY CameraAssumption
  <2>3. /\ \A n \in nodes : n.dev \in Nat
        /\ \A n, m \in nodes : n.dev = m.dev => n = m
    BY CameraAssumption
  <2> HIDE DEF first
  <2>4. IsFiniteSet(first)
    BY <2>1, <2>2, FS_Subset
  <2> QED BY <2>1, <2>3, <2>4, FS_CardinalityType
<1>2. detect_usb_cameras = D
  BY DEF detect_usb_cameras
<1> HIDE DEF first
<1>b. /\ c >= 1 => \E n \in first : Below(n.dev) = 0
      /\ c >= 2 => \E n \in first : Below(n.dev) = 1
  BY <1>1, LowestDevices
<1>3. ASSUME NEW i \in 1 .. 2, i <= c PROVE Found(i) \in first /\ Below(Found(i).dev) = i - 1
  <2>1. \E n \in first : Below(n.dev) = i - 1
    <3> HIDE DEF Below, c
    <3>1. CASE i = 1
      BY <1>b, <1>3, <3>1
    <3>2. CASE i = 2
      BY <1>b, <1>3, <3>2
    <3> QED BY <3>1, <3>2
  <2> HIDE DEF Below
  <2> QED BY <2>1
<1> HIDE DEF Below, c
<1>4. \A i \in 1 .. 2 : i <= c => D[i] = Found(i).dev
  BY <1>1 DEF c
<1>5. Len(D) = c
  <2> HIDE DEF Found
  <2>1. D \in Seq({Found(i).dev : i \in 1 .. c})
    BY <1>1
  <2> QED BY <1>1, <2>1
<1>6. ASSUME c >= 2 PROVE D[1] # D[2]
  <2>1. Below(D[1]) = 0 /\ Below(D[2]) = 1
    <3> HIDE DEF Found, D
    <3> QED BY <1>1, <1>3, <1>4, <1>6
  <2> HIDE DEF D
  <2> QED BY <2>1
<1> HIDE DEF Found, D
<1> QED BY <1>1, <1>2, <1>3, <1>4, <1>5, <1>6

Generics == [primary : Int, secondary : Int, switch : BOOLEAN]
UsedCameras == [type : Int, usb : Nat]
CameraList == Seq(UsedCameras)

\* USB cameras among the first and among both camera types.
LEMMA CountFacts ==
  ASSUME NEW types
  PROVE  LET One(i) == IF is_usb_camera(types[i]) THEN 1 ELSE 0
         IN  /\ get_num_usb_cameras(types, 1) = One(1)
             /\ get_num_usb_cameras(types, 2) = One(1) + One(2)
<1> DEFINE U(n) == {i \in 1 .. n : is_usb_camera(types[i])}
<1>1. U(1) = IF is_usb_camera(types[1]) THEN {1} ELSE {}
  OBVIOUS
<1>2. U(2) = U(1) \cup (IF is_usb_camera(types[2]) THEN {2} ELSE {}) /\ 2 \notin U(1)
  OBVIOUS
<1>3. Cardinality(U(1)) = (IF is_usb_camera(types[1]) THEN 1 ELSE 0) /\ IsFiniteSet(U(1))
  <2> HIDE DEF U
  <2>1. CASE is_usb_camera(types[1])
    <3>1. U(1) = {1}
      BY <1>1, <2>1
    <3> QED BY <3>1, <2>1, FS_Singleton
  <2>2. CASE ~is_usb_camera(types[1])
    <3>1. U(1) = {}
      BY <1>1, <2>2
    <3> QED BY <3>1, <2>2, FS_EmptySet
  <2> QED BY <2>1, <2>2
<1>4. Cardinality(U(2)) = (IF is_usb_camera(types[1]) THEN 1 ELSE 0) + (IF is_usb_camera(types[2]) THEN 1 ELSE 0)
  <2> HIDE DEF U
  <2>1. CASE is_usb_camera(types[2])
    <3>1. U(2) = U(1) \cup {2}
      BY <1>2, <2>1
    <3> QED BY <3>1, <2>1, <1>2, <1>3, FS_AddElement
  <2>2. CASE ~is_usb_camera(types[2])
    <3>1. U(2) = U(1)
      BY <1>2, <2>2
    <3> QED BY <3>1, <2>2, <1>3
  <2> QED BY <2>1, <2>2
<1> QED BY <1>3, <1>4 DEF get_num_usb_cameras

\* discover_cameras keeps the order and the types, and gives two USB cameras two devices
\* if two were found.
LEMMA DiscoverFacts ==
  ASSUME nodes \in Nodes, NEW g \in Generics
  PROVE  LET c == discover_cameras(g) IN
         /\ c \in CameraList /\ Len(c) = Len(CamTypes(g)) /\ Len(c) \in {1, 2}
         /\ \A i \in 1 .. Len(c) : c[i].type = CamTypes(g)[i]
         /\ Len(c) = 2 /\ (\A i \in 1 .. 2 : is_usb_camera(c[i].type)) =>
              c[1].usb # c[2].usb \/ Len(detect_usb_cameras) < 2
<1> DEFINE types == CamTypes(g)
           n == Len(types)
           count == get_num_usb_cameras(types, n)
           found == x_discover_usb_cameras(count)
           usb(i) == IF is_usb_camera(types[i]) THEN UsbDevice(found, types, i) ELSE 0
           c == [i \in 1 .. n |-> [type |-> types[i], usb |-> usb(i)]]
           d == detect_usb_cameras
           One(i) == IF is_usb_camera(types[i]) THEN 1 ELSE 0
<1>1. discover_cameras(g) = c
  BY DEF discover_cameras
<1>2. types \in Seq(Int) /\ n \in {1, 2}
  BY DEF CamTypes, Generics
<1>3. /\ get_num_usb_cameras(types, 1) = One(1)
      /\ get_num_usb_cameras(types, 2) = One(1) + One(2)
  <2> HIDE DEF types
  <2> QED BY CountFacts
<1>4. /\ Len(d) \in Nat /\ \A i \in 1 .. 2 : i <= Len(d) => d[i] \in Nat
      /\ Len(d) >= 2 => d[1] # d[2]
  BY DetectFacts
<1> HIDE DEF types, n
<1>5. count \in 0 .. 2 /\ (n = 1 => count = One(1)) /\ (n = 2 => count = One(1) + One(2))
  BY <1>2, <1>3
<1> HIDE DEF count, d
<1>6. found = [i \in 1 .. count |-> IF i <= Len(d) THEN d[i] ELSE IF i = 1 THEN 0 ELSE 1]
  BY DEF x_discover_usb_cameras, d
<1> HIDE DEF found
<1>7. \A i \in 1 .. count :
        found[i] = (IF i <= Len(d) THEN d[i] ELSE IF i = 1 THEN 0 ELSE 1) /\ found[i] \in Nat
  BY <1>4, <1>5, <1>6
<1>8. ASSUME NEW i \in 1 .. n, is_usb_camera(types[i])
      PROVE  usb(i) = found[get_num_usb_cameras(types, i)] /\ get_num_usb_cameras(types, i) \in 1 .. count
  <2>1. i \in {1, 2} /\ (i = 2 => n = 2)
    BY <1>2
  <2>2. CASE i = 1
    BY <1>2, <1>3, <1>5, <1>8, <2>2 DEF UsbDevice
  <2>3. CASE i = 2
    BY <1>2, <1>3, <1>5, <1>8, <2>1, <2>3 DEF UsbDevice
  <2> QED BY <2>1, <2>2, <2>3
<1>9. \A i \in 1 .. n : usb(i) \in Nat /\ types[i] \in Int
  <2>1. \A i \in 1 .. n : types[i] \in Int
    BY <1>2 DEF n
  <2>2. ASSUME NEW i \in 1 .. n PROVE usb(i) \in Nat
    BY <1>7, <1>8, <2>2
  <2> QED BY <2>1, <2>2
<1>10. ASSUME n = 2, is_usb_camera(types[1]), is_usb_camera(types[2]) PROVE usb(1) # usb(2) \/ Len(d) < 2
  <2>1. usb(1) = found[1] /\ usb(2) = found[2] /\ count = 2
    BY <1>3, <1>5, <1>8, <1>10
  <2> QED BY <2>1, <1>4, <1>7
<1> HIDE DEF usb
<1>11. c \in CameraList /\ Len(c) = n /\ \A i \in 1 .. n : c[i].type = types[i] /\ c[i].usb = usb(i)
  BY <1>2, <1>9 DEF CameraList, UsedCameras
<1> HIDE DEF c
<1>12. /\ c \in CameraList /\ Len(c) = Len(CamTypes(g)) /\ Len(c) \in {1, 2}
       /\ \A i \in 1 .. Len(c) : c[i].type = CamTypes(g)[i]
  BY <1>2, <1>11 DEF n, types
<1>13. ASSUME Len(c) = 2, \A i \in 1 .. 2 : is_usb_camera(c[i].type)
       PROVE  c[1].usb # c[2].usb \/ Len(detect_usb_cameras) < 2
  BY <1>2, <1>10, <1>11, <1>13 DEF d
<1> QED BY <1>1, <1>12, <1>13

-----------------------------------------------------------------------------
(* The invariant: a running pipeline is what its settings build, but for a *)
(* rate within a kbit/s, and was not built past a failed assertion.        *)

Fits(p, t, s) ==
  LET built == create_source_encode_pipeline(t, s)
  IN  /\ p.el = built.el /\ p.codec = built.codec /\ p.rows = built.rows
      /\ p.pay = s.codec
      /\ host.asserts => built.dies # "assert"
      /\ \/ requires_rpi_mmal_pipeline(t) /\ p.el = "swencoder"
         \/ Distance(p.rate, built.rate) <= 1000
PipelineFits(i) ==
  \A t \in {cams[i].type}, s \in {CameraSettings(i)} : Fits(pipes[i], t, s)

CameraTyped ==
  /\ host \in Hosts /\ nodes \in Nodes /\ sensor \in Sensors
  /\ generic \in Generics
  /\ cams \in CameraList /\ Len(cams) \in 0 .. 2
  /\ phase \in {"off", "up", "ending"}
  /\ phase = "off" => cams = << >>
  /\ files \in [DOMAIN files -> CameraStates]
  /\ \A i \in 1 .. Len(cams) : CamFile(i) \in DOMAIN files
  /\ pipes \in [1 .. 2 -> Pipelines]
  /\ \A i \in 1 .. 2 : pipes[i] # NoEncoder => i \in 1 .. Len(cams)

CameraInv ==
  /\ CameraTyped
  /\ \A i \in 1 .. 2 : pipes[i] # NoEncoder => PipelineFits(i)
  /\ UsbCamerasApart /\ AcceptedTypeRuns

\* A pipeline is built from the host, the type and the settings, and from nothing else.
LEMMA SameEncoders ==
  ASSUME host' = host, NEW p, NEW t, NEW s
  PROVE  /\ create_source_encode_pipeline(t, s)' = create_source_encode_pipeline(t, s)
         /\ Fits(p, t, s)' <=> Fits(p, t, s)
<1>1. /\ createDummyStreamX(s)' = createDummyStreamX(s)
      /\ create_dummy_filesrc_stream(s)' = create_dummy_filesrc_stream(s)
  BY DEF createDummyStreamX, create_dummy_filesrc_stream, is_rpi, is_rock
<1>2. create_source_encode_pipeline(t, s)' = create_source_encode_pipeline(t, s)
  BY <1>1 DEF create_source_encode_pipeline
<1> QED BY <1>2 DEF Fits

\* What the constants say of hosts and of the initial values.
LEMMA CameraConstants ==
  /\ \A h \in Hosts : /\ h.hdmi_v4l2 \in BOOLEAN /\ h.asserts \in BOOLEAN
                       /\ h.sysutil \in Int /\ h.platform \in Platforms
  /\ NoEncoder \in Pipelines /\ NoFile \in Generics
  BY CameraAssumption DEF NoEncoder, Enc, Encoder, Pipelines, Elements, NoFile, NoType, Generics

\* A camera in use has a type and settings in the file.
LEMMA Known ==
  ASSUME CameraInv, NEW i \in 1 .. 2, i \in 1 .. Len(cams)
  PROVE  CameraSettings(i) \in CameraStates /\ cams[i].type \in Int
<1>1. CamFile(i) \in DOMAIN files /\ files \in [DOMAIN files -> CameraStates]
  BY DEF CameraInv, CameraTyped
<1>2. cams[i] \in UsedCameras
  BY DEF CameraInv, CameraTyped, CameraList
<1>3. files[CamFile(i)] \in CameraStates
  <2> HIDE DEF CamFile, CameraStates
  <2> QED BY <1>1
<1> QED BY <1>2, <1>3 DEF CameraSettings, UsedCameras

\* A pipeline that nothing has touched fits as before.
LEMMA CameraUntouched ==
  ASSUME CameraInv, NEW i \in 1 .. 2, pipes[i] # NoEncoder, pipes'[i] = pipes[i],
         host' = host, cams' = cams, files'[CamFile(i)] = files[CamFile(i)]
  PROVE  PipelineFits(i)'
<1>1. CamFile(i)' = CamFile(i)
  BY DEF CamFile
<1>2. CameraSettings(i)' = CameraSettings(i)
  BY <1>1 DEF CameraSettings
<1>3. PipelineFits(i)
  BY DEF CameraInv
<1>4. \A p, t, s : Fits(p, t, s)' <=> Fits(p, t, s)
  BY SameEncoders
<1> QED BY <1>2, <1>3, <1>4 DEF PipelineFits

\* The end of the process, asked for (stop) or not (setup).
LEMMA CamerasEnd ==
  ASSUME CameraInv, host' = host, nodes' \in Nodes, sensor' \in Sensors, generic' = generic, files' = files,
         cams' = << >>, phase' = "off", pipes' = [j \in 1 .. 2 |-> NoEncoder]
  PROVE  CameraInv'
<1>1. Len(cams') = 0 /\ cams' \in CameraList
  BY DEF CameraList
<1>2. CameraTyped'
  BY <1>1, CameraConstants DEF CameraInv, CameraTyped
<1>3. \A i \in 1 .. 2 : pipes'[i] = NoEncoder
  OBVIOUS
<1>4. UsbCamerasApart' /\ AcceptedTypeRuns'
  BY <1>1 DEF UsbCamerasApart, AcceptedTypeRuns
<1> QED BY <1>2, <1>3, <1>4, NoEncoder' = NoEncoder DEF CameraInv

\* The cameras stay, the settings of one may change.
LEMMA CamerasStay ==
  ASSUME CameraInv, NEW i \in 1 .. 2, host' = host, nodes' = nodes, sensor' = sensor, generic' = generic,
         cams' = cams, phase' = phase, i \in 1 .. Len(cams),
         \E s \in CameraStates : files' = [files EXCEPT ![CamFile(i)] = s],
         \E p \in Pipelines : pipes' = [pipes EXCEPT ![i] = p],
         pipes'[i] # NoEncoder => PipelineFits(i)'
  PROVE  CameraInv'
<1>1. PICK s \in CameraStates : files' = [files EXCEPT ![CamFile(i)] = s]
  OBVIOUS
<1>2. PICK p \in Pipelines : pipes' = [pipes EXCEPT ![i] = p]
  OBVIOUS
<1>3. \A k : CamFile(k)' = CamFile(k)
  BY DEF CamFile
<1>4. files' \in [DOMAIN files' -> CameraStates] /\ DOMAIN files' = DOMAIN files
  BY <1>1 DEF CameraInv, CameraTyped
<1>5. CameraTyped'
  BY <1>2, <1>3, <1>4 DEF CameraInv, CameraTyped
<1>6. ASSUME NEW j \in 1 .. 2, pipes'[j] # NoEncoder PROVE PipelineFits(j)'
  <2>1. CASE j = i
    BY <1>6, <2>1
  <2>2. CASE j # i
    <3>1. pipes'[j] = pipes[j]
      BY <1>2, <2>2 DEF CameraInv, CameraTyped
    <3>2. CamFile(j) # CamFile(i) /\ CamFile(j) \in DOMAIN files
      BY <2>2, <1>6, <3>1 DEF CamFile, CameraInv, CameraTyped
    <3>3. files'[CamFile(j)] = files[CamFile(j)]
      BY <1>1, <3>2 DEF CameraInv, CameraTyped
    <3> QED BY <1>6, <3>1, <3>3, CameraUntouched
  <2> QED BY <2>1, <2>2
<1>7. UsbCamerasApart'
  <2>1. detect_usb_cameras' = detect_usb_cameras
    BY DEF detect_usb_cameras, raw_nodes
  <2> QED BY <2>1 DEF CameraInv, UsbCamerasApart
<1>8. AcceptedTypeRuns'
  <2>1. CamTypes(generic)' = CamTypes(generic)
    BY DEF CamTypes
  <2>2. AcceptedTypeRuns
    BY DEF CameraInv
  <2>3. is_x20' = is_x20
    BY DEF is_x20
  <2>4. SUFFICES ASSUME phase' = "up", ~is_x20'
                 PROVE  {cams'[k].type : k \in 1 .. Len(cams')}
                          = {CamTypes(generic)'[k] : k \in 1 .. Len(CamTypes(generic)')}
    BY DEF AcceptedTypeRuns
  <2>5. {cams[k].type : k \in 1 .. Len(cams)} = {CamTypes(generic)[k] : k \in 1 .. Len(CamTypes(generic))}
    BY <2>2, <2>3, <2>4 DEF AcceptedTypeRuns
  <2>6. {cams'[k].type : k \in 1 .. Len(cams')} = {cams[k].type : k \in 1 .. Len(cams)}
    OBVIOUS
  <2>7. {CamTypes(generic)'[k] : k \in 1 .. Len(CamTypes(generic)')}
          = {CamTypes(generic)[k] : k \in 1 .. Len(CamTypes(generic))}
    BY <2>1
  <2> QED BY <2>5, <2>6, <2>7
<1> QED BY <1>5, <1>6, <1>7, <1>8, NoEncoder' = NoEncoder DEF CameraInv

LEMMA CameraStart == CameraInit => CameraInv
<1> SUFFICES ASSUME CameraInit PROVE CameraInv
  OBVIOUS
<1>1. cams = << >> /\ Len(cams) = 0 /\ cams \in CameraList
  BY DEF CameraInit, CameraList
<1>2. files \in [DOMAIN files -> CameraStates]
  BY DEF CameraInit
<1>3. \A i \in 1 .. 2 : pipes[i] = NoEncoder
  BY DEF CameraInit
<1>4. CameraTyped
  BY <1>1, <1>2, <1>3, CameraConstants DEF CameraInit, CameraTyped
<1>5. UsbCamerasApart /\ AcceptedTypeRuns
  BY <1>1 DEF CameraInit, UsbCamerasApart, AcceptedTypeRuns
<1> QED BY <1>3, <1>4, <1>5 DEF CameraInv

LEMMA SetupStep == ASSUME CameraInv, NEW i \in 1 .. 2, setup(i) PROVE CameraInv'
<1> DEFINE t == cams[i].type
           s == CameraSettings(i)
           p == create_source_encode_pipeline(t, s)
<1>1. i \in 1 .. Len(cams) /\ s \in CameraStates
  BY Known DEF setup
<1>2. CASE /\ p.dies = "assert" => ~host.asserts
           /\ pipes' = [pipes EXCEPT ![i] = [p EXCEPT !.pay = s.codec]]
           /\ UNCHANGED << cams, phase >>
  <2>1. UNCHANGED << host, nodes, sensor, generic, files, cams, phase >>
    BY <1>2 DEF setup
  <2> DEFINE q == [p EXCEPT !.pay = s.codec]
  <2>2. p \in Pipelines
    BY <1>1, EncoderFacts, CameraConstants DEF CameraInv, CameraTyped
  <2> HIDE DEF p
  <2>3. /\ q \in Pipelines /\ q.el = p.el /\ q.codec = p.codec /\ q.rows = p.rows
        /\ q.pay = s.codec /\ q.rate = p.rate
    <3>1. s.codec \in {"h264", "h265"}
      BY <1>1 DEF CameraStates
    <3> HIDE DEF s
    <3> QED BY <2>2, <3>1 DEF Pipelines
  <2> HIDE DEF q
  <2>4. pipes' = [pipes EXCEPT ![i] = q] /\ pipes'[i] = q
    BY <1>2 DEF q, CameraInv, CameraTyped
  <2>5. Fits(q, t, s)
    <3>1. Distance(q.rate, p.rate) <= 1000
      BY <2>2, <2>3 DEF Distance, Pipelines
    <3>2. host.asserts => p.dies # "assert"
      BY <1>2
    <3> QED BY <2>3, <3>1, <3>2 DEF Fits, p
  <2>6. PipelineFits(i)'
    <3>1. CamFile(i)' = CamFile(i)
      BY <2>1 DEF CamFile
    <3>2. s' = s /\ t' = t
      BY <2>1, <3>1 DEF CameraSettings
    <3>3. \A pp, tt, ss : Fits(pp, tt, ss)' <=> Fits(pp, tt, ss)
      BY <2>1, SameEncoders
    <3> QED BY <2>4, <2>5, <3>2, <3>3 DEF PipelineFits
  <2>7. \E x \in CameraStates : files' = [files EXCEPT ![CamFile(i)] = x]
    <3>1. files' = [files EXCEPT ![CamFile(i)] = s]
      BY <2>1, <1>1 DEF CameraInv, CameraTyped, CameraSettings
    <3> QED BY <3>1, <1>1
  <2> QED BY <1>1, <2>1, <2>3, <2>4, <2>6, <2>7, CamerasStay
<1>3. CASE pipes' = [j \in 1 .. 2 |-> NoEncoder] /\ cams' = << >> /\ phase' = "off"
  BY <1>3, CamerasEnd DEF setup, CameraInv, CameraTyped
<1> QED BY <1>2, <1>3 DEF setup

\* Whatever a parameter makes of the settings are settings.
LEMMA SettingsKept ==
  ASSUME NEW t, NEW s \in CameraStates
  PROVE  get_all_settings(t, s) \subseteq CameraStates
<1>0. Formats \subseteq Int \X Int \X Int /\ Mbits \cup Intervals \cup IntraTypes \cup SliceCounts \subseteq Int
  BY CameraAssumption
<1>1. encoder_settings(s) \subseteq CameraStates
  <2> SUFFICES ASSUME NEW r \in encoder_settings(s) PROVE r \in CameraStates
    OBVIOUS
  <2>1. \/ \E f \in Formats : r = [s EXCEPT !.fmt = f]
        \/ \E c \in {"h264", "h265"} : r = [s EXCEPT !.codec = c]
        \/ r = [s EXCEPT !.sw = ~ @]
        \/ \E k \in Int : \/ r = [s EXCEPT !.kbits = bits(k)]
                          \/ r = [s EXCEPT !.key = k]
                          \/ r = [s EXCEPT !.intra = k]
                          \/ r = [s EXCEPT !.slices = k]
    BY <1>0, SMT DEF encoder_settings
  <2>2. ASSUME NEW f \in Formats, r = [s EXCEPT !.fmt = f] PROVE r \in CameraStates
    BY <1>0, <2>2, SMT DEF CameraStates
  <2>3. ASSUME NEW c \in {"h264", "h265"}, r = [s EXCEPT !.codec = c] PROVE r \in CameraStates
    BY <2>3, SMT DEF CameraStates
  <2>4. ASSUME r = [s EXCEPT !.sw = ~ @] PROVE r \in CameraStates
    <3>1. \A x \in BOOLEAN : [s EXCEPT !.sw = x] \in CameraStates
      BY SMT DEF CameraStates
    <3>2. (~ s.sw) \in BOOLEAN
      OBVIOUS
    <3> QED BY <2>4, <3>1, <3>2, Zenon
  <2>5. ASSUME NEW k \in Int, r = [s EXCEPT !.kbits = bits(k)] PROVE r \in CameraStates
    BY <2>5, SMT DEF CameraStates, bits
  <2>6. ASSUME NEW k \in Int, r = [s EXCEPT !.key = k] \/ r = [s EXCEPT !.intra = k] \/ r = [s EXCEPT !.slices = k]
        PROVE  r \in CameraStates
    BY <2>6, SMT DEF CameraStates
  <2> QED BY <2>1, <2>2, <2>3, <2>4, <2>5, <2>6, SMT
<1>2. picture_settings(t, s) \subseteq CameraStates
  BY DEF picture_settings, CameraStates
<1> QED BY <1>1, <1>2 DEF get_all_settings

LEMMA ChangeSettingStep == ASSUME CameraInv, NEW i \in 1 .. 2, change_setting(i) PROVE CameraInv'
<1>1. i \in 1 .. Len(cams) /\ CameraSettings(i) \in CameraStates
  BY Known DEF change_setting
<1>2. \E s \in CameraStates : files' = [files EXCEPT ![CamFile(i)] = s]
  BY <1>1, SettingsKept DEF change_setting
<1>3. pipes' = [pipes EXCEPT ![i] = NoEncoder] /\ pipes'[i] = NoEncoder
  BY DEF change_setting, CameraInv, CameraTyped
<1>4. UNCHANGED << host, nodes, sensor, generic, cams, phase >>
  BY DEF change_setting
<1> QED BY <1>1, <1>2, <1>3, <1>4, CameraConstants, CamerasStay, NoEncoder' = NoEncoder

\* Only an MMAL camera is controlled through rpicamsrc.
LEMMA ControlFacts ==
  ASSUME NEW t, NEW s \in CameraStates
  PROVE  /\ ControlName(t, s) \in {"rpicamsrc", "swencoder", "sunxisrc", "rkmpih264enc", "missing"}
         /\ requires_rpi_mmal_pipeline(t) <=> ControlName(t, s) = "rpicamsrc"
  BY SMT DEF ControlName, requires_rpi_mmal_pipeline, requires_x20_cedar_pipeline, requires_rockchip_rv_pipeline,
     is_usb_camera, Dummy, CameraStates

\* A bitrate that goes into the element is that of a pipeline built from it.
LEMMA RateSet ==
  ASSUME NEW t, NEW s \in CameraStates, NEW p \in Pipelines, NEW k \in Int,
         host.hdmi_v4l2 \in BOOLEAN, Fits(p, t, s), p.el = ControlName(t, s)
  PROVE  LET r == [s EXCEPT !.kbits = k]
             value == hacked_bitrate_kbits(t, r)
             q == [p EXCEPT !.rate = IF takes_kbit(p.el) THEN value ELSE bits(value)]
         IN  q \in Pipelines /\ Fits(q, t, r)
<1> DEFINE r == [s EXCEPT !.kbits = k]
           value == hacked_bitrate_kbits(t, r)
           rate == IF takes_kbit(p.el) THEN value ELSE bits(value)
           q == [p EXCEPT !.rate = rate]
           old == create_source_encode_pipeline(t, s)
           new == create_source_encode_pipeline(t, r)
<1>1. /\ new.el = old.el /\ new.codec = old.codec /\ new.rows = old.rows /\ new.dies = old.dies
      /\ r \in CameraStates /\ r.codec = s.codec /\ r.kbits = k /\ r.fmt = s.fmt
  BY RateOnly
<1> HIDE DEF r
<1>2. /\ new \in Pipelines
      /\ new.el = "swencoder" \/ new.el = "rkmpih264enc" \/ new.el = "sunxisrc" => new.rate = k
      /\ new.el = "rpicamsrc" => /\ requires_rpi_mmal_pipeline(t)
                                 /\ new.rate = IF requires_half_bitrate_workaround(t, r)
                                               THEN bits(k) \div 2 ELSE bits(k)
      /\ new.el \notin {"missing", "none"}
  BY <1>1, EncoderFacts
<1>3. /\ p.el = new.el /\ p.codec = new.codec /\ p.rows = new.rows /\ p.pay = r.codec
      /\ host.asserts => new.dies # "assert"
  BY <1>1 DEF Fits
<1>4. value = IF requires_half_bitrate_workaround(t, r) THEN k \div 2 ELSE k
  BY <1>1 DEF hacked_bitrate_kbits
<1> HIDE DEF old, new, value
<1>5. rate \in Int /\ Distance(rate, new.rate) <= 1000
  <2>1. CASE p.el = "rpicamsrc"
    <3>1. rate = bits(value)
      BY <2>1 DEF takes_kbit
    <3>2. CASE requires_half_bitrate_workaround(t, r)
      <4>1. value = k \div 2 /\ new.rate = (k * 1000) \div 2
        BY <1>2, <1>3, <1>4, <2>1, <3>2 DEF bits
      <4> QED BY <4>1, <3>1 DEF bits, Distance
    <3>3. CASE ~requires_half_bitrate_workaround(t, r)
      <4>1. value = k /\ new.rate = k * 1000
        BY <1>2, <1>3, <1>4, <2>1, <3>3 DEF bits
      <4> QED BY <4>1, <3>1 DEF bits, Distance
    <3> QED BY <3>2, <3>3
  <2>2. CASE p.el # "rpicamsrc"
    <3>1. ~requires_rpi_mmal_pipeline(t) /\ p.el \in {"swencoder", "sunxisrc", "rkmpih264enc", "missing"}
      BY <2>2, ControlFacts
    <3>2. rate = k /\ new.rate = k
      BY <1>2, <1>3, <1>4, <2>2, <3>1 DEF takes_kbit, requires_half_bitrate_workaround
    <3> QED BY <3>2 DEF Distance
  <2> QED BY <2>1, <2>2
<1> HIDE DEF rate
<1>6. /\ q \in Pipelines /\ q.el = p.el /\ q.codec = p.codec /\ q.rows = p.rows /\ q.pay = p.pay
      /\ q.rate = rate
  BY <1>5 DEF Pipelines
<1> HIDE DEF q
<1>7. Fits(q, t, r)
  BY <1>3, <1>5, <1>6 DEF Fits, new
<1> QED BY <1>6, <1>7 DEF q, rate, value, r

LEMMA ChangeBitrateStep == ASSUME CameraInv, NEW i \in 1 .. 2, change_bitrate(i) PROVE CameraInv'
<1> DEFINE t == cams[i].type
           s == CameraSettings(i)
<1>1. /\ i \in 1 .. Len(cams) /\ s \in CameraStates /\ pipes[i] \in Pipelines
      /\ host.hdmi_v4l2 \in BOOLEAN /\ Fits(pipes[i], t, s)
  <2>1. i \in 1 .. Len(cams) /\ pipes[i] # NoEncoder
    BY DEF change_bitrate
  <2> QED BY <2>1, Known, CameraConstants DEF CameraInv, CameraTyped, PipelineFits
<1>2. UNCHANGED << host, nodes, sensor, generic, cams, phase >>
  BY DEF change_bitrate
<1>3. PICK kbits \in Kbits :
        LET k == EncoderKbits(kbits)
            r == [s EXCEPT !.kbits = k]
            name == ControlName(t, s)
            value == hacked_bitrate_kbits(t, r)
        IN  /\ files' = [files EXCEPT ![CamFile(i)] = r]
            /\ pipes' = IF ~HasElement(t, i, name) THEN [pipes EXCEPT ![i] = NoEncoder]
                        ELSE IF pipes[i].el /= name THEN pipes
                        ELSE [pipes EXCEPT ![i].rate = IF takes_kbit(name) THEN value ELSE bits(value)]
  BY DEF change_bitrate
<1> DEFINE k == EncoderKbits(kbits)
           r == [s EXCEPT !.kbits = k]
           name == ControlName(t, s)
           value == hacked_bitrate_kbits(t, r)
           q == [pipes[i] EXCEPT !.rate = IF takes_kbit(name) THEN value ELSE bits(value)]
<1>4. k \in Int
  BY CameraAssumption DEF EncoderKbits, MinKbits
<1> HIDE DEF k
<1>5. r \in CameraStates /\ files' = [files EXCEPT ![CamFile(i)] = r]
  BY <1>1, <1>3, <1>4, RateOnly DEF k
<1>6. t' = t /\ CameraSettings(i)' = r
  <2>1. CamFile(i)' = CamFile(i) /\ CamFile(i) \in DOMAIN files
    BY <1>1, <1>2 DEF CamFile, CameraInv, CameraTyped
  <2> HIDE DEF r
  <2> QED BY <1>2, <1>5, <2>1 DEF CameraSettings, CameraInv, CameraTyped
<1>7. \A p, tt, ss : Fits(p, tt, ss)' <=> Fits(p, tt, ss)
  BY <1>2, SameEncoders
<1>8. CASE ~HasElement(t, i, name)
  <2>1. pipes' = [pipes EXCEPT ![i] = NoEncoder]
    BY <1>3, <1>8
  <2>2. pipes'[i] = NoEncoder
    BY <2>1 DEF CameraInv, CameraTyped
  <2> QED BY <1>1, <1>2, <1>5, <2>1, <2>2, CameraConstants, CamerasStay, NoEncoder' = NoEncoder
<1>9. CASE HasElement(t, i, name) /\ pipes[i].el # name
  <2>1. pipes' = pipes /\ pipes' = [pipes EXCEPT ![i] = pipes[i]]
    BY <1>3, <1>9 DEF CameraInv, CameraTyped
  <2>2. requires_rpi_mmal_pipeline(t) /\ name = "rpicamsrc" /\ ~host.hdmi_v4l2
    BY <1>9 DEF HasElement
  <2>3. pipes[i].el = "swencoder"
    BY <1>1, <1>9, <2>2, EncoderFacts DEF Fits
  <2>4. Fits(pipes[i], t, r)
    <3>1. /\ create_source_encode_pipeline(t, r).el = create_source_encode_pipeline(t, s).el
          /\ create_source_encode_pipeline(t, r).codec = create_source_encode_pipeline(t, s).codec
          /\ create_source_encode_pipeline(t, r).rows = create_source_encode_pipeline(t, s).rows
          /\ create_source_encode_pipeline(t, r).dies = create_source_encode_pipeline(t, s).dies
          /\ r.codec = s.codec
      BY <1>1, <1>4, RateOnly
    <3> HIDE DEF r, s, t
    <3> DEFINE old == create_source_encode_pipeline(t, s)
               new == create_source_encode_pipeline(t, r)
    <3>2. /\ pipes[i].el = old.el /\ pipes[i].codec = old.codec /\ pipes[i].rows = old.rows
          /\ pipes[i].pay = s.codec /\ (host.asserts => old.dies # "assert")
      BY <1>1 DEF Fits
    <3>3. /\ pipes[i].el = new.el /\ pipes[i].codec = new.codec /\ pipes[i].rows = new.rows
          /\ pipes[i].pay = r.codec /\ (host.asserts => new.dies # "assert")
      BY <3>1, <3>2
    <3> HIDE DEF old, new
    <3> QED BY <2>2, <2>3, <3>3 DEF Fits, new
  <2>5. PipelineFits(i)'
    <3> HIDE DEF r
    <3> QED BY <1>6, <1>7, <2>1, <2>4 DEF PipelineFits
  <2> HIDE DEF r
  <2> QED BY <1>1, <1>2, <1>5, <2>1, <2>5, CamerasStay
<1>10. CASE HasElement(t, i, name) /\ pipes[i].el = name
  <2>1. q \in Pipelines /\ Fits(q, t, r)
    BY <1>1, <1>4, <1>10, RateSet
  <2>2. pipes' = [pipes EXCEPT ![i] = q] /\ pipes'[i] = q
    BY <1>3, <1>10 DEF CameraInv, CameraTyped, k
  <2> HIDE DEF q, r
  <2>3. PipelineFits(i)'
    BY <1>6, <1>7, <2>1, <2>2 DEF PipelineFits
  <2> QED BY <1>1, <1>2, <1>5, <2>1, <2>2, <2>3, CamerasStay
<1> QED BY <1>8, <1>9, <1>10

\* The defaults of a first start (create_default).
LEMMA DefaultFacts ==
  ASSUME host \in Hosts
  PROVE  create_default_generic \in Generics /\ create_default \in CameraStates /\ detect_camera_type \in Int
<1>1. detect_camera_type \in Int
  <2>1. sensor \in {1, 2, 3} => 70 + sensor \in Int
    OBVIOUS
  <2> QED BY <2>1 DEF detect_camera_type
<1>2. PlatformCamera[host.platform] \in Int
  <2>1. host.platform \in Platforms
    BY CameraConstants
  <2> HIDE DEF detect_camera_type
  <2> DEFINE P == [rpi |-> 20, x20 |-> detect_camera_type, a733 |-> 77, rk3566 |-> 94, rock5a |-> 84,
                   rock5b |-> 80, openipc |-> 2, xavier |-> 101, qualcomm |-> 120, orqa |-> 122,
                   nxp |-> 130, luckfox |-> 140, x86 |-> Dummy]
  <2>2. \A q \in Platforms : P[q] \in Int
    BY <1>1 DEF Platforms, Dummy
  <2>3. PlatformCamera = P
    BY DEF PlatformCamera
  <2> HIDE DEF P
  <2> QED BY <2>1, <2>2, <2>3
<1>3. create_default_generic \in Generics
  <2>1. host.sysutil \in Int
    BY CameraConstants
  <2> HIDE DEF PlatformCamera
  <2> QED BY <1>2, <2>1 DEF create_default_generic, Generics, Disabled
<1>4. create_default \in CameraStates
  <2>1. DefaultFormat \in Int \X Int \X Int
    BY CameraAssumption
  <2> QED BY <2>1 DEF create_default, CameraStates
<1> QED BY <1>1, <1>3, <1>4

\* Two cameras in the other order are the same cameras.
LEMMA Reversed ==
  ASSUME NEW c \in CameraList, Len(c) = 2
  PROVE  /\ Reverse2(c) \in CameraList /\ Len(Reverse2(c)) = 2
         /\ Reverse2(c)[1] = c[2] /\ Reverse2(c)[2] = c[1]
  BY DEF Reverse2, CameraList

\* Another choice of cameras is a choice of cameras.
LEMMA OtherCameras ==
  ASSUME NEW g \in Generics, NEW x \in Int, NEW y \in Int
  PROVE  [g EXCEPT !.primary = x, !.secondary = y] \in Generics
<1>1. [g EXCEPT !.primary = x] \in Generics
  BY SMT DEF Generics
<1>2. \A h \in Generics : [h EXCEPT !.secondary = y] \in Generics
  BY SMT DEF Generics
<1>3. [g EXCEPT !.primary = x, !.secondary = y] = [[g EXCEPT !.primary = x] EXCEPT !.secondary = y]
  OBVIOUS
<1> QED BY <1>1, <1>2, <1>3

LEMMA StartCamerasStep == ASSUME CameraInv, start_cameras PROVE CameraInv'
<1> DEFINE g == IF generic = NoFile THEN create_default_generic ELSE generic
           found == discover_cameras(g)
           saved == IF is_x20 THEN [g EXCEPT !.primary = detect_camera_type, !.secondary = Disabled] ELSE g
           swap == saved.switch /\ Len(found) = 2
<1>1. /\ generic' = saved /\ cams' = (IF swap THEN Reverse2(found) ELSE found)
      /\ files' = [f \in DOMAIN files \cup {<< cams'[i].type, i >> : i \in 1 .. Len(cams')} |->
                     IF f \in DOMAIN files THEN files[f] ELSE create_default]
      /\ phase = "off" /\ phase' = "up" /\ UNCHANGED << host, nodes, sensor, pipes >>
  BY DEF start_cameras
<1>2. host \in Hosts /\ nodes \in Nodes /\ sensor \in Sensors /\ generic \in Generics
  BY DEF CameraInv, CameraTyped
<1>3. g \in Generics
  BY <1>2, DefaultFacts
<1> HIDE DEF g
<1>4. saved \in Generics
  <2>1. detect_camera_type \in Int
    BY <1>2, DefaultFacts
  <2>2. [g EXCEPT !.primary = detect_camera_type, !.secondary = Disabled] \in Generics
    <3>1. Disabled \in Int
      BY DEF Disabled
    <3> QED BY <1>3, <2>1, <3>1, OtherCameras, Zenon
  <2> HIDE DEF detect_camera_type, Generics
  <2> QED BY <1>3, <2>1, <2>2
<1>5. /\ found \in CameraList /\ Len(found) = Len(CamTypes(g)) /\ Len(found) \in {1, 2}
      /\ \A i \in 1 .. Len(found) : found[i].type = CamTypes(g)[i]
      /\ Len(found) = 2 /\ (\A i \in 1 .. 2 : is_usb_camera(found[i].type)) =>
           found[1].usb # found[2].usb \/ Len(detect_usb_cameras) < 2
  BY <1>2, <1>3, DiscoverFacts
<1> HIDE DEF found, saved
<1>6. /\ cams' \in CameraList /\ Len(cams') = Len(found)
      /\ swap => Len(cams') = 2 /\ cams'[1] = found[2] /\ cams'[2] = found[1]
      /\ ~swap => cams' = found
  BY <1>1, <1>5, Reversed
<1> HIDE DEF swap
<1>7. \A i : CamFile(i)' = << cams'[i].type, i >>
  BY DEF CamFile
<1>8. files' \in [DOMAIN files' -> CameraStates] /\ \A i \in 1 .. Len(cams') : CamFile(i)' \in DOMAIN files'
  <2>1. files \in [DOMAIN files -> CameraStates] /\ create_default \in CameraStates
    BY <1>2, DefaultFacts DEF CameraInv, CameraTyped
  <2> HIDE DEF create_default, CameraStates
  <2> QED BY <1>1, <1>7, <2>1
<1>9. \A i \in 1 .. 2 : pipes'[i] = NoEncoder
  BY <1>1 DEF CameraInv, CameraTyped
<1>10. CameraTyped'
  <2>1. pipes' \in [1 .. 2 -> Pipelines]
    BY <1>1 DEF CameraInv, CameraTyped
  <2>2. Len(cams') \in 0 .. 2
    BY <1>5, <1>6
  <2> QED BY <1>1, <1>2, <1>4, <1>6, <1>8, <1>9, <2>1, <2>2, NoEncoder' = NoEncoder DEF CameraTyped
<1>11. UsbCamerasApart'
  <2>1. detect_usb_cameras' = detect_usb_cameras
    BY <1>1 DEF detect_usb_cameras, raw_nodes
  <2> HIDE DEF detect_usb_cameras, is_usb_camera
  <2>2. SUFFICES ASSUME Len(cams') = 2, \A i \in 1 .. 2 : is_usb_camera(cams'[i].type)
                 PROVE  cams'[1].usb # cams'[2].usb \/ Len(detect_usb_cameras) < 2
    BY <2>1 DEF UsbCamerasApart
  <2>3. Len(found) = 2 /\ \A i \in 1 .. 2 : is_usb_camera(found[i].type)
    BY <1>6, <2>2
  <2> QED BY <1>5, <1>6, <2>3
<1>12. AcceptedTypeRuns'
  <2>1. SUFFICES ASSUME ~is_x20'
                 PROVE  {cams'[i].type : i \in 1 .. Len(cams')} =
                          {CamTypes(generic)'[i] : i \in 1 .. Len(CamTypes(generic)')}
    BY DEF AcceptedTypeRuns
  <2>2. CamTypes(generic)' = CamTypes(g)
    <3>1. ~is_x20
      BY <1>1, <2>1 DEF is_x20
    <3> QED BY <1>1, <3>1 DEF saved, CamTypes
  <2>3. {found[i].type : i \in 1 .. Len(found)} = {CamTypes(g)[i] : i \in 1 .. Len(CamTypes(g))}
    BY <1>5
  <2>4. {cams'[i].type : i \in 1 .. Len(cams')} = {found[i].type : i \in 1 .. Len(found)}
    <3>1. CASE swap
      <4>1. Len(cams') = 2 /\ Len(found) = 2
        BY <1>6, <3>1
      <4>2. {cams'[i].type : i \in 1 .. 2} = {cams'[1].type, cams'[2].type}
        OBVIOUS
      <4>3. {found[i].type : i \in 1 .. 2} = {found[1].type, found[2].type}
        OBVIOUS
      <4> QED BY <1>6, <3>1, <4>1, <4>2, <4>3
    <3>2. CASE ~swap
      BY <1>6, <3>2
    <3> QED BY <3>1, <3>2
  <2>5. {CamTypes(generic)'[i] : i \in 1 .. Len(CamTypes(generic)')} = {CamTypes(g)[i] : i \in 1 .. Len(CamTypes(g))}
    BY <2>2
  <2> QED BY <2>3, <2>4, <2>5
<1> QED BY <1>9, <1>10, <1>11, <1>12, NoEncoder' = NoEncoder DEF CameraInv

\* A choice of cameras, like a stuttering step, touches nothing that runs.
LEMMA ChoiceStep ==
  ASSUME CameraInv, generic' \in Generics, UNCHANGED << host, nodes, sensor, files, cams, pipes >>,
         phase' \in {phase, "ending"}, phase # "off" \/ phase' = phase,
         phase' = "up" => phase = "up" /\ CamTypes(generic)' = CamTypes(generic)
  PROVE  CameraInv'
<1>1. \A i : CamFile(i)' = CamFile(i)
  BY DEF CamFile
<1>2. CameraTyped'
  BY <1>1, NoEncoder' = NoEncoder DEF CameraInv, CameraTyped
<1>3. ASSUME NEW i \in 1 .. 2, pipes'[i] # NoEncoder PROVE PipelineFits(i)'
  BY <1>3, CameraUntouched
<1>4. UsbCamerasApart'
  <2>1. detect_usb_cameras' = detect_usb_cameras
    BY DEF detect_usb_cameras, raw_nodes
  <2> QED BY <2>1 DEF CameraInv, UsbCamerasApart
<1>5. AcceptedTypeRuns'
  <2>1. SUFFICES ASSUME phase' = "up", ~is_x20'
                 PROVE  {cams'[i].type : i \in 1 .. Len(cams')} =
                          {CamTypes(generic)'[i] : i \in 1 .. Len(CamTypes(generic)')}
    BY DEF AcceptedTypeRuns
  <2>2. phase = "up" /\ ~is_x20 /\ CamTypes(generic)' = CamTypes(generic)
    BY <2>1 DEF is_x20
  <2>3. {cams[i].type : i \in 1 .. Len(cams)} = {CamTypes(generic)[i] : i \in 1 .. Len(CamTypes(generic))}
    BY <2>2 DEF CameraInv, AcceptedTypeRuns
  <2>4. {cams'[i].type : i \in 1 .. Len(cams')} = {cams[i].type : i \in 1 .. Len(cams)}
    OBVIOUS
  <2>5. {CamTypes(generic)'[i] : i \in 1 .. Len(CamTypes(generic)')}
          = {CamTypes(generic)[i] : i \in 1 .. Len(CamTypes(generic))}
    BY <2>2
  <2> QED BY <2>3, <2>4, <2>5
<1> QED BY <1>2, <1>3, <1>4, <1>5, NoEncoder' = NoEncoder DEF CameraInv

LEMMA SetCameraTypeStep ==
  ASSUME CameraInv, NEW primary \in BOOLEAN, x_set_camera_type(primary)
  PROVE  CameraInv'
<1>1. PICK t \in CameraChoices[host.platform] :
        Accept(primary, t) \/ UNCHANGED << generic, phase >>
  BY DEF x_set_camera_type
<1>2. t \in Int
  BY CameraAssumption, CameraConstants DEF CameraInv, CameraTyped
<1>3. UNCHANGED << host, nodes, sensor, files, cams, pipes >> /\ phase # "off"
  BY DEF x_set_camera_type, Up
<1>4. generic \in Generics
  BY DEF CameraInv, CameraTyped
<1>5. CASE Accept(primary, t)
  <2>1. generic' \in Generics /\ phase' = "ending"
    BY <1>2, <1>4, <1>5 DEF Accept, Generics
  <2> QED BY <1>3, <2>1, ChoiceStep
<1>6. CASE UNCHANGED << generic, phase >>
  <2>1. CamTypes(generic)' = CamTypes(generic)
    BY <1>6 DEF CamTypes
  <2> QED BY <1>3, <1>4, <1>6, <2>1, ChoiceStep
<1> QED BY <1>1, <1>5, <1>6

LEMMA SwitchStep == ASSUME CameraInv, set_switch PROVE CameraInv'
<1>1. generic \in Generics
  BY DEF CameraInv, CameraTyped
<1>2. generic' = [generic EXCEPT !.switch = ~ generic.switch]
  BY DEF set_switch
<1>3. generic' \in Generics /\ generic'.primary = generic.primary /\ generic'.secondary = generic.secondary
  BY <1>1, <1>2 DEF Generics
<1>4. CamTypes(generic)' = CamTypes(generic)
  BY <1>3 DEF CamTypes
<1>5. UNCHANGED << host, nodes, sensor, files, cams, pipes, phase >> /\ phase # "off"
  BY DEF set_switch, Up
<1> QED BY <1>3, <1>4, <1>5, ChoiceStep

LEMMA StopStep == ASSUME CameraInv, stop PROVE CameraInv'
  BY CamerasEnd DEF stop

LEMMA CameraStep == CameraInv /\ [CameraNext]_cameraVars => CameraInv'
<1> SUFFICES ASSUME CameraInv, [CameraNext]_cameraVars PROVE CameraInv'
  OBVIOUS
<1>1. CASE start_cameras
  BY <1>1, StartCamerasStep
<1>2. CASE stop
  BY <1>2, StopStep
<1>3. CASE set_switch
  BY <1>3, SwitchStep
<1>4. ASSUME NEW i \in 1 .. 2, setup(i) \/ change_setting(i) \/ change_bitrate(i) PROVE CameraInv'
  BY <1>4, SetupStep, ChangeSettingStep, ChangeBitrateStep
<1>5. ASSUME NEW primary \in BOOLEAN, x_set_camera_type(primary) PROVE CameraInv'
  BY <1>5, SetCameraTypeStep
<1>6. CASE UNCHANGED cameraVars
  <2>1. UNCHANGED << host, nodes, sensor, generic, files, cams, pipes, phase >>
    BY <1>6 DEF cameraVars
  <2>2. CamTypes(generic)' = CamTypes(generic)
    BY <2>1 DEF CamTypes
  <2>3. generic' \in Generics
    BY <2>1 DEF CameraInv, CameraTyped
  <2> QED BY <2>1, <2>2, <2>3, ChoiceStep
<1> QED BY <1>1, <1>2, <1>3, <1>4, <1>5, <1>6 DEF CameraNext

LEMMA CameraAlways == CameraSpec => []CameraInv
  BY CameraStart, CameraStep, PTL DEF CameraSpec

\* The encoder of a running pipeline has the bitrate a restart would give it, encodes
\* what is packed and makes no slice more than asked for, whatever settings, restarts
\* and recommendations of the link led there (change_bitrate, create...Stream).
THEOREM EncodesAsSet == CameraSpec => []EncoderAsSet
<1>1. ASSUME CameraInv PROVE EncoderAsSet
  <2>1. ASSUME NEW i \in 1 .. 2, Encoding(i)
        PROVE  LET t == cams[i].type
                   s == CameraSettings(i)
                   p == create_source_encode_pipeline(t, s)
               IN  /\ Fits(pipes[i], t, s) /\ s \in CameraStates
                   /\ pipes[i].rows \in Int /\ host.asserts \in BOOLEAN
                   /\ p.dies # "assert" /\ ~requires_a733_pipeline(t) => p.codec = s.codec
                   /\ p.rows # 0 => p.rows = rpi_calculate_number_of_mbs_in_a_slice(s.fmt[2], s.slices)
    <3>1. i \in 1 .. Len(cams) /\ pipes[i] # NoEncoder /\ host.hdmi_v4l2 \in BOOLEAN /\ host.asserts \in BOOLEAN
      BY <1>1, <2>1, CameraConstants DEF Encoding, CameraInv, CameraTyped
    <3>2. CameraSettings(i) \in CameraStates /\ Fits(pipes[i], cams[i].type, CameraSettings(i))
      BY <1>1, <3>1, Known DEF CameraInv, PipelineFits
    <3>3. pipes[i] \in Pipelines
      BY <1>1 DEF CameraInv, CameraTyped
    <3>4. pipes[i].rows \in Int
      BY <3>3 DEF Pipelines
    <3> QED BY <3>1, <3>2, <3>4, EncoderFacts
  <2>2. EncoderFollowsBitrate
    BY <2>1 DEF EncoderFollowsBitrate, Fits
  <2>3. CodecAgrees
    BY <2>1 DEF CodecAgrees, Fits
  <2>4. SlicesWithinRequest
    <3> SUFFICES ASSUME NEW i \in 1 .. 2, Encoding(i), pipes[i].rows > 0,
                        CameraSettings(i).fmt[2] % 16 \notin 1 .. 7
                 PROVE  Slices(CameraSettings(i).fmt[2], pipes[i].rows) <= CameraSettings(i).slices
      BY DEF SlicesWithinRequest
    <3>1. pipes[i].rows \in Int /\ CameraSettings(i).fmt[2] \in Int /\ CameraSettings(i).slices \in Int
      BY <2>1 DEF CameraStates
    <3>2. pipes[i].rows =
            rpi_calculate_number_of_mbs_in_a_slice(CameraSettings(i).fmt[2], CameraSettings(i).slices)
      BY <2>1, <3>1 DEF Fits
    <3> QED BY <3>1, <3>2, SlicesFit
  <2> QED BY <2>2, <2>3, <2>4 DEF EncoderAsSet
<1> QED BY <1>1, CameraAlways, PTL

\* The cameras that run are those chosen: whatever types were accepted, they run or the
\* process is ending, and two USB cameras are two devices (x_set_camera_type,
\* discover_cameras).
THEOREM CamerasRight == CameraSpec => []CamerasAsChosen
<1>1. CameraInv => CamerasAsChosen
  BY DEF CameraInv, CamerasAsChosen
<1> QED BY <1>1, CameraAlways, PTL


-----------------------------------------------------------------------------
(***************************************************************************)
(* The Mavlink monitor, for any messages, layouts, timeouts and terminals. *)
(* Its inductive invariant: what is listed, that the pings add up, that a  *)
(* message passes the filter, and where the selections are when the screen *)
(* is drawn.                                                               *)
(***************************************************************************)

Key == Nat \X Nat \X Nat
Counts == [sent : Nat, received : Nat, matched : Nat, lost : Nat, unexpected : Nat]
Choice == Nat \cup {None}

ListTyped ==
  /\ DOMAIN messages \subseteq Key /\ IsFiniteSet(DOMAIN messages)
  /\ \A k \in DOMAIN messages : messages[k] \in Nat

\* A ping gets a number that no awaited one has.
PingsFit ==
  /\ seq \in Nat /\ DOMAIN inflight \subseteq 0 .. (seq - 1)
  /\ stats \in Counts
  /\ LoopAccounting

\* Some message passes the filter.
FilterFits ==
  /\ filter \in [sys : Choice, comp : Choice, msg : Choice]
  /\ filter # NoFilter => \E k \in DOMAIN messages : Passes(k)

\* While a key is waited for, the selections are in range.
SelectionFits ==
  /\ nav \in [interactive : BOOLEAN, focus : BOOLEAN, all : Nat, filtered : Nat]
  /\ pc = "key" =>
       /\ nav.all = Clamped(nav.all, Cardinality(DOMAIN messages))
       /\ nav.filtered = Clamped(nav.filtered, Cardinality(filter_entries))
       /\ nav.focus => Cardinality(filter_entries) > 0

MonitorInv == ListTyped /\ PingsFit /\ FilterFits /\ SelectionFits

\* The keys that leave messages, filter and pings alone, and those that do not.
Walking == key /\ (key_view \/ key_move \/ key_focus)
Filtering == key /\ key_filter
Sending == key /\ key_send

LEMMA MonitorSteps ==
  ASSUME [MonitorNext]_monitorVars
  PROVE  \/ read_nothing \/ read_error \/ read_message \/ read_ping \/ auto_transmit \/ expire
         \/ clamp \/ Walking \/ Filtering \/ Sending \/ no_key \/ quit \/ UNCHANGED monitorVars
  BY DEF MonitorNext, Walking, Filtering, Sending, key

LEMMA MessageRecorded ==
  ASSUME ListTyped, NEW k \in Key, NEW len \in Nat, record_message(k, len)
  PROVE  ListTyped' /\ DOMAIN messages \subseteq DOMAIN messages'
<1>1. DOMAIN messages' = DOMAIN messages \cup {k}
  BY DEF record_message
<1>2. IsFiniteSet(DOMAIN messages')
  BY <1>1, FS_AddElement DEF ListTyped
<1>3. \A x \in DOMAIN messages' : messages'[x] \in Nat
  BY DEF record_message, ListTyped
<1> QED  BY <1>1, <1>2, <1>3 DEF ListTyped

\* A message once listed stays in the list.
LEMMA NextList ==
  ListTyped /\ [MonitorNext]_monitorVars => ListTyped' /\ DOMAIN messages \subseteq DOMAIN messages'
<1> SUFFICES ASSUME ListTyped, [MonitorNext]_monitorVars
             PROVE  ListTyped' /\ DOMAIN messages \subseteq DOMAIN messages'
  OBVIOUS
<1>1. CASE UNCHANGED messages
  BY <1>1 DEF ListTyped
<1>2. ASSUME NEW k \in Keys \cup {OwnPing}, NEW len \in Lens, record_message(k, len)
      PROVE  ListTyped' /\ DOMAIN messages \subseteq DOMAIN messages'
  BY <1>2, MessageRecorded, LoggerAssumption DEF Key, OwnPing
<1>3. ASSUME transmit_random_message
      PROVE  ListTyped' /\ DOMAIN messages \subseteq DOMAIN messages'
  <2>1. PICK g \in Generated, len \in Lens : record_message(<< 1, 1, g >>, len)
    BY <1>3 DEF transmit_random_message
  <2> QED  BY <2>1, MessageRecorded, LoggerAssumption DEF Key
<1>4. CASE read_message
  BY <1>4, <1>2 DEF read_message
<1>5. CASE read_ping
  BY <1>5, <1>2 DEF read_ping
<1>6. CASE auto_transmit
  BY <1>6, <1>1, <1>3 DEF auto_transmit
<1>7. CASE Sending
  BY <1>7, <1>1, <1>3 DEF Sending, key_send
<1>8. CASE read_nothing \/ read_error \/ expire \/ clamp \/ no_key \/ quit \/ UNCHANGED monitorVars
  BY <1>8, <1>1 DEF read_nothing, read_error, expire, clamp, no_key, quit, monitorVars
<1>9. CASE Walking \/ Filtering
  BY <1>9, <1>1 DEF Walking, Filtering, key_view, key_move, key_focus, key_filter
<1> QED  BY <1>4, <1>5, <1>6, <1>7, <1>8, <1>9, MonitorSteps

LEMMA AwaitedFinite == PingsFit => IsFiniteSet(DOMAIN inflight) /\ Cardinality(DOMAIN inflight) \in Nat
<1>1. ASSUME PingsFit PROVE IsFiniteSet(0 .. (seq - 1)) /\ DOMAIN inflight \subseteq 0 .. (seq - 1)
  <2>1. 0 \in Int /\ seq - 1 \in Int
    BY <1>1 DEF PingsFit
  <2> QED  BY <1>1, <2>1, FS_Interval DEF PingsFit
<1> QED  BY <1>1, FS_Subset, FS_CardinalityType

LEMMA PingSent ==
  ASSUME PingsFit, NEW ok \in BOOLEAN, send_loop_ping(ok)
  PROVE  PingsFit'
<1>1. CASE ok
  <2>1. DOMAIN inflight' = DOMAIN inflight \cup {seq} /\ seq' = seq + 1
    BY <1>1 DEF send_loop_ping
  <2>2. seq \notin DOMAIN inflight
    BY DEF PingsFit
  <2>3. Cardinality(DOMAIN inflight') = Cardinality(DOMAIN inflight) + 1
    BY <2>1, <2>2, AwaitedFinite, FS_AddElement
  <2>4. DOMAIN inflight' \subseteq 0 .. (seq' - 1)
    BY <2>1 DEF PingsFit
  <2>5. stats' = [stats EXCEPT !.sent = @ + 1]
    BY <1>1 DEF send_loop_ping
  <2> QED  BY <2>1, <2>3, <2>4, <2>5, AwaitedFinite DEF PingsFit, Counts, LoopAccounting
<1>2. CASE ~ok
  BY <1>2 DEF send_loop_ping, PingsFit, LoopAccounting
<1> QED  BY <1>1, <1>2

\* Two counters go up, the others stay.
LEMMA TwoCounted ==
  ASSUME NEW s \in Counts
  PROVE  /\ LET t == [s EXCEPT !.received = @ + 1, !.matched = @ + 1] IN
              /\ t \in Counts /\ t.sent = s.sent /\ t.lost = s.lost
              /\ t.unexpected = s.unexpected
              /\ t.received = s.received + 1 /\ t.matched = s.matched + 1
         /\ LET t == [s EXCEPT !.received = @ + 1, !.unexpected = @ + 1] IN
              /\ t \in Counts /\ t.sent = s.sent /\ t.lost = s.lost
              /\ t.matched = s.matched
              /\ t.received = s.received + 1 /\ t.unexpected = s.unexpected + 1
<1> DEFINE r == [s EXCEPT !.received = @ + 1]
<1>1. /\ r \in Counts /\ r.sent = s.sent /\ r.lost = s.lost /\ r.matched = s.matched
      /\ r.unexpected = s.unexpected /\ r.received = s.received + 1
  BY DEF Counts
<1>2. /\ [s EXCEPT !.received = @ + 1, !.matched = @ + 1] = [r EXCEPT !.matched = @ + 1]
      /\ [s EXCEPT !.received = @ + 1, !.unexpected = @ + 1] = [r EXCEPT !.unexpected = @ + 1]
  BY DEF Counts
<1> HIDE DEF r
<1>3. LET t == [r EXCEPT !.matched = @ + 1] IN
        /\ t \in Counts /\ t.sent = r.sent /\ t.lost = r.lost /\ t.unexpected = r.unexpected
        /\ t.received = r.received /\ t.matched = r.matched + 1
  BY <1>1 DEF Counts
<1>4. LET t == [r EXCEPT !.unexpected = @ + 1] IN
        /\ t \in Counts /\ t.sent = r.sent /\ t.lost = r.lost /\ t.matched = r.matched
        /\ t.received = r.received /\ t.unexpected = r.unexpected + 1
  BY <1>1 DEF Counts
<1> QED  BY <1>1, <1>2, <1>3, <1>4

LEMMA PingEchoed ==
  ASSUME PingsFit, read_ping
  PROVE  PingsFit'
<1>1. PICK q \in wire :
        IF mode # "loop" THEN UNCHANGED <<inflight, stats>>
        ELSE IF q \in DOMAIN inflight
        THEN /\ inflight' = [x \in DOMAIN inflight \ {q} |-> inflight[x]]
             /\ stats' = [stats EXCEPT !.received = @ + 1, !.matched = @ + 1]
        ELSE /\ stats' = [stats EXCEPT !.received = @ + 1, !.unexpected = @ + 1]
             /\ UNCHANGED inflight
  BY DEF read_ping
<1>2. seq' = seq
  BY DEF read_ping
<1>3. CASE UNCHANGED <<inflight, stats>>
  BY <1>2, <1>3 DEF PingsFit, LoopAccounting
<1>4. CASE /\ q \in DOMAIN inflight
           /\ inflight' = [x \in DOMAIN inflight \ {q} |-> inflight[x]]
           /\ stats' = [stats EXCEPT !.received = @ + 1, !.matched = @ + 1]
  <2>1. DOMAIN inflight' = DOMAIN inflight \ {q}
    BY <1>4
  <2>2. Cardinality(DOMAIN inflight') = Cardinality(DOMAIN inflight) - 1
    BY <1>4, <2>1, AwaitedFinite, FS_RemoveElement
  <2>3. /\ stats' \in Counts
        /\ stats'.sent = stats.sent /\ stats'.lost = stats.lost
        /\ stats'.unexpected = stats.unexpected
        /\ stats'.received = stats.received + 1 /\ stats'.matched = stats.matched + 1
    BY <1>4, TwoCounted DEF PingsFit
  <2>4. stats \in Counts /\ LoopAccounting /\ seq \in Nat
    BY DEF PingsFit
  <2> QED  BY <1>2, <2>1, <2>2, <2>3, <2>4, AwaitedFinite DEF PingsFit, Counts, LoopAccounting
<1>5. CASE stats' = [stats EXCEPT !.received = @ + 1, !.unexpected = @ + 1] /\ UNCHANGED inflight
  <2>1. /\ stats' \in Counts
        /\ stats'.sent = stats.sent /\ stats'.lost = stats.lost
        /\ stats'.matched = stats.matched
        /\ stats'.received = stats.received + 1 /\ stats'.unexpected = stats.unexpected + 1
    BY <1>5, TwoCounted DEF PingsFit
  <2>2. stats \in Counts /\ LoopAccounting /\ seq \in Nat
    BY DEF PingsFit
  <2> QED  BY <1>2, <1>5, <2>1, <2>2 DEF PingsFit, Counts, LoopAccounting
<1> QED  BY <1>1, <1>3, <1>4, <1>5

LEMMA PingsExpired ==
  ASSUME PingsFit, expire
  PROVE  PingsFit'
<1> DEFINE late == {q \in DOMAIN inflight : inflight[q] > Timeout}
<1>1. /\ inflight' = [q \in DOMAIN inflight \ late |-> inflight[q]]
      /\ stats' = [stats EXCEPT !.lost = @ + Cardinality(late)] /\ seq' = seq
  BY DEF expire
<1>2. late \subseteq DOMAIN inflight
  OBVIOUS
<1> HIDE DEF late
<1>3. IsFiniteSet(late) /\ Cardinality(late) \in Nat
  BY <1>2, AwaitedFinite, FS_Subset, FS_CardinalityType
<1>4. DOMAIN inflight' = DOMAIN inflight \ late
  BY <1>1
<1>5. DOMAIN inflight \cap late = late
  BY <1>2
<1>6. Cardinality(DOMAIN inflight') = Cardinality(DOMAIN inflight) - Cardinality(late)
  BY <1>4, <1>5, AwaitedFinite, FS_Difference
<1>7. stats'.lost = stats.lost + Cardinality(late)
        /\ stats' \in Counts
        /\ stats'.sent = stats.sent /\ stats'.matched = stats.matched
        /\ stats'.unexpected = stats.unexpected /\ stats'.received = stats.received
  BY <1>1, <1>3, SMT DEF PingsFit, Counts
<1> QED  BY <1>1, <1>3, <1>4, <1>6, <1>7, AwaitedFinite DEF PingsFit, Counts, LoopAccounting

LEMMA NextPings == PingsFit /\ [MonitorNext]_monitorVars => PingsFit'
<1> SUFFICES ASSUME PingsFit, [MonitorNext]_monitorVars PROVE PingsFit'
  OBVIOUS
<1>1. ASSUME DOMAIN inflight' = DOMAIN inflight, UNCHANGED << seq, stats >> PROVE PingsFit'
  BY <1>1 DEF PingsFit, LoopAccounting
<1>2. CASE read_nothing
  BY <1>1, <1>2 DEF read_nothing, Elapse
<1>3. CASE auto_transmit
  BY <1>1, <1>3, PingSent DEF auto_transmit
<1>4. CASE Sending
  BY <1>1, <1>4, PingSent DEF Sending, key_send
<1>5. CASE read_error \/ read_message \/ clamp \/ Walking \/ Filtering \/ no_key \/ quit
             \/ UNCHANGED monitorVars
  BY <1>1, <1>5 DEF read_error, read_message, clamp, Walking, key_view, key_move, key_focus,
     Filtering, key_filter, no_key, quit, monitorVars
<1> QED  BY <1>2, <1>3, <1>4, <1>5, PingEchoed, PingsExpired, MonitorSteps

-----------------------------------------------------------------------------
(* The filter.                                                              *)

LEMMA MinChosen ==
  ASSUME NEW S \in SUBSET Nat, S # {}
  PROVE  Min(S) \in S
  BY SmallestNumber DEF Min

\* The next value of a filter is one that is there, or none.
LEMMA Cycled ==
  ASSUME NEW values \in SUBSET Nat, NEW current
  PROVE  cycle_optional(values, current) \in values \cup {None}
<1> DEFINE above == {v \in values : v > current}
<1>1. above \in SUBSET Nat /\ above \subseteq values
  OBVIOUS
<1> HIDE DEF above
<1>2. cycle_optional(values, current) =
        IF values = {} THEN None ELSE IF current \notin values THEN Min(values)
        ELSE IF above = {} THEN None ELSE Min(above)
  BY DEF cycle_optional, above
<1>3. above # {} => Min(above) \in values
  BY <1>1, MinChosen
<1>4. values # {} => Min(values) \in values
  BY MinChosen
<1> QED  BY <1>2, <1>3, <1>4

LEMMA SysidsCycled ==
  ASSUME ListTyped, FilterFits, key_sysid
  PROVE  /\ filter' \in [sys : Choice, comp : Choice, msg : Choice]
         /\ filter' # NoFilter => \E k \in DOMAIN messages : Passes(k)'
<1>1. collect_sysids \in SUBSET Nat
  BY DEF collect_sysids, ListTyped, Key
<1>2. PICK v \in collect_sysids \cup {None} : filter' = [NoFilter EXCEPT !.sys = v]
  BY <1>1, Cycled DEF key_sysid
<1>3. filter' = [sys |-> v, comp |-> None, msg |-> None]
  BY <1>2 DEF NoFilter
<1>4. v # None => \E k \in DOMAIN messages : k[1] = v
  BY <1>2 DEF collect_sysids
<1> QED  BY <1>1, <1>3, <1>4 DEF Choice, NoFilter, Passes

LEMMA CompidsCycled ==
  ASSUME ListTyped, FilterFits, key_compid
  PROVE  /\ filter' \in [sys : Choice, comp : Choice, msg : Choice]
         /\ filter' # NoFilter => \E k \in DOMAIN messages : Passes(k)'
<1> DEFINE ids == collect_compids(filter.sys)
<1>1. ids \in SUBSET Nat
  BY DEF collect_compids, ListTyped, Key
<1>2. \A w \in ids : \E k \in DOMAIN messages : k[1] = filter.sys /\ k[2] = w
  BY DEF collect_compids
<1>3. PICK v \in ids \cup {None} : filter' = [filter EXCEPT !.comp = v, !.msg = None]
  <2> HIDE DEF ids
  <2>1. cycle_optional(ids, filter.comp) \in ids \cup {None}
    BY <1>1, Cycled
  <2> QED  BY <2>1 DEF key_compid, ids
<1>4. filter.sys # None /\ filter \in [sys : Choice, comp : Choice, msg : Choice]
  BY DEF key_compid, FilterFits
<1>5. \E k \in DOMAIN messages : k[1] = filter.sys
  BY <1>4 DEF FilterFits, NoFilter, Passes
<1> HIDE DEF ids
<1>6. v \in Choice
  BY <1>1, <1>3 DEF Choice
<1>7. filter' = [sys |-> filter.sys, comp |-> v, msg |-> None]
  BY <1>3, <1>4
<1>8. \E k \in DOMAIN messages : k[1] = filter.sys /\ (v # None => k[2] = v)
  BY <1>2, <1>3, <1>5
<1> QED  BY <1>4, <1>6, <1>7, <1>8 DEF Choice, Passes

LEMMA MsgidsCycled ==
  ASSUME ListTyped, FilterFits, key_msgid
  PROVE  /\ filter' \in [sys : Choice, comp : Choice, msg : Choice]
         /\ filter' # NoFilter => \E k \in DOMAIN messages : Passes(k)'
<1> DEFINE ids == collect_msgids(filter.sys, filter.comp)
<1>1. ids \in SUBSET Nat
  BY DEF collect_msgids, ListTyped, Key
<1>2. \A w \in ids : \E k \in DOMAIN messages :
                         k[1] = filter.sys /\ k[2] = filter.comp /\ k[3] = w
  BY DEF collect_msgids
<1>3. PICK v \in ids \cup {None} : filter' = [filter EXCEPT !.msg = v]
  <2> HIDE DEF ids
  <2>1. cycle_optional(ids, filter.msg) \in ids \cup {None}
    BY <1>1, Cycled
  <2> QED  BY <2>1 DEF key_msgid, ids
<1>4. /\ filter.sys # None /\ filter.comp # None
      /\ filter \in [sys : Choice, comp : Choice, msg : Choice]
  BY DEF key_msgid, FilterFits
<1>5. \E k \in DOMAIN messages : k[1] = filter.sys /\ k[2] = filter.comp
  BY <1>4 DEF FilterFits, NoFilter, Passes
<1> HIDE DEF ids
<1>6. v \in Choice
  BY <1>1, <1>3 DEF Choice
<1>7. filter' = [sys |-> filter.sys, comp |-> filter.comp, msg |-> v]
  BY <1>3, <1>4
<1>8. \E k \in DOMAIN messages :
         k[1] = filter.sys /\ k[2] = filter.comp /\ (v # None => k[3] = v)
  BY <1>2, <1>3, <1>5
<1> QED  BY <1>4, <1>6, <1>7, <1>8 DEF Choice, Passes

LEMMA NextFilter == ListTyped /\ FilterFits /\ [MonitorNext]_monitorVars => FilterFits'
<1> SUFFICES ASSUME ListTyped, FilterFits, [MonitorNext]_monitorVars PROVE FilterFits'
  OBVIOUS
<1>1. DOMAIN messages \subseteq DOMAIN messages'
  BY NextList
<1>2. CASE UNCHANGED filter
  <2>1. \A k : Passes(k) => Passes(k)'
    BY <1>2 DEF Passes
  <2> QED  BY <1>1, <1>2, <2>1 DEF FilterFits
<1>3. CASE Filtering
  <2>1. CASE filter' = NoFilter
    BY <2>1 DEF FilterFits, NoFilter, Choice
  <2>2. CASE key_sysid \/ key_compid \/ key_msgid
    BY <1>1, <2>2, SysidsCycled, CompidsCycled, MsgidsCycled DEF FilterFits, NoFilter
  <2> QED  BY <1>3, <2>1, <2>2 DEF Filtering, key_filter
<1>4. CASE read_nothing \/ read_error \/ read_message \/ read_ping \/ auto_transmit \/ expire
             \/ clamp \/ no_key \/ quit \/ UNCHANGED monitorVars
  BY <1>2, <1>4 DEF read_nothing, read_error, read_message, read_ping, auto_transmit, expire,
     clamp, no_key, quit, monitorVars
<1>5. CASE Walking \/ Sending
  BY <1>2, <1>5 DEF Walking, Sending, key_view, key_move, key_focus, key_send
<1> QED  BY <1>3, <1>4, <1>5, MonitorSteps

-----------------------------------------------------------------------------
(* The selection.                                                           *)

LEMMA InRange ==
  ASSUME NEW i \in Nat, NEW n \in Nat
  PROVE  Clamped(i, n) \in Nat /\ Clamped(Clamped(i, n), n) = Clamped(i, n)
  BY DEF Clamped

LEMMA CountsKnown ==
  ASSUME ListTyped
  PROVE  /\ Cardinality(DOMAIN messages) \in Nat
         /\ IsFiniteSet(filter_entries) /\ Cardinality(filter_entries) \in Nat
         /\ filter_entries # {} <=> Cardinality(filter_entries) > 0
<1>1. filter_entries \subseteq DOMAIN messages
  BY DEF filter_entries, gather_sorted_entries
<1>2. IsFiniteSet(filter_entries)
  BY <1>1, FS_Subset DEF ListTyped
<1> QED  BY <1>2, FS_CardinalityType, FS_EmptySet DEF ListTyped

LEMMA NextSelection ==
  ListTyped /\ SelectionFits /\ [MonitorNext]_monitorVars => SelectionFits'
<1> SUFFICES ASSUME ListTyped, SelectionFits, [MonitorNext]_monitorVars PROVE SelectionFits'
  OBVIOUS
<1> DEFINE Nav == [interactive : BOOLEAN, focus : BOOLEAN, all : Nat, filtered : Nat]
<1>0. nav \in Nav
  BY DEF SelectionFits
<1>1. CASE clamp
  <2> DEFINE a == Clamped(nav.all, Cardinality(DOMAIN messages))
             f == Clamped(nav.filtered, Cardinality(filter_entries))
  <2>1. nav' = [nav EXCEPT !.all = a, !.filtered = f,
                           !.focus = @ /\ Cardinality(filter_entries) > 0]
    BY <1>1 DEF clamp
  <2>2. UNCHANGED << messages, filter >>
    BY <1>1 DEF clamp
  <2>3. filter_entries' = filter_entries
    BY <2>2 DEF filter_entries, gather_sorted_entries, Passes
  <2>4. a \in Nat /\ f \in Nat
    BY <1>0, CountsKnown, InRange
  <2>5. /\ a = Clamped(a, Cardinality(DOMAIN messages))
        /\ f = Clamped(f, Cardinality(filter_entries))
    BY <1>0, CountsKnown, InRange
  <2> HIDE DEF a, f
  <2>6. /\ nav' \in Nav /\ nav'.all = a /\ nav'.filtered = f
        /\ nav'.focus => Cardinality(filter_entries) > 0
    <3> DEFINE g == nav.focus /\ Cardinality(filter_entries) > 0
               n == [nav EXCEPT !.all = a]
               m == [n EXCEPT !.filtered = f]
    <3>1. n \in Nav /\ n.all = a /\ n.focus = nav.focus
      BY <1>0, <2>4
    <3>2. m \in Nav /\ m.all = n.all /\ m.filtered = f /\ m.focus = n.focus
      <4> HIDE DEF n
      <4> QED  BY <2>4, <3>1
    <3>3. nav' = [m EXCEPT !.focus = g]
      BY <1>0, <2>1
    <3>4. g \in BOOLEAN
      OBVIOUS
    <3>5. g => Cardinality(filter_entries) > 0
      OBVIOUS
    <3> HIDE DEF m, g
    <3>6. [m EXCEPT !.focus = g] \in Nav
      BY <3>2, <3>4
    <3>7. /\ [m EXCEPT !.focus = g].all = m.all /\ [m EXCEPT !.focus = g].filtered = m.filtered
          /\ [m EXCEPT !.focus = g].focus = g
      BY <3>2
    <3> QED  BY <3>1, <3>2, <3>3, <3>5, <3>6, <3>7
  <2> QED  BY <2>2, <2>3, <2>5, <2>6 DEF SelectionFits
<1>2. CASE Walking
  <2>1. pc' = "read"
    BY <1>2 DEF Walking, key
  <2>2. CASE key_view
    BY <1>0, <2>1, <2>2 DEF key_view, SelectionFits
  <2>3. CASE key_move
    <3>1. PICK j \in Int : 0 <= j /\ nav' \in {[nav EXCEPT !.filtered = j], [nav EXCEPT !.all = j]}
      BY <1>0, <2>3 DEF key_move
    <3> QED  BY <1>0, <2>1, <3>1 DEF SelectionFits
  <2>4. CASE key_focus
    <3>1. Clamped(nav.filtered, Cardinality(filter_entries)) \in Nat
      BY <1>0, CountsKnown, InRange
    <3> QED  BY <1>0, <2>1, <2>4, <3>1 DEF key_focus, SelectionFits
  <2> QED  BY <1>2, <2>2, <2>3, <2>4 DEF Walking
<1>3. CASE Filtering \/ Sending
  BY <1>3 DEF Filtering, Sending, key, key_filter, key_send, SelectionFits
<1>4. CASE read_nothing \/ read_error \/ read_message \/ read_ping \/ auto_transmit \/ expire
             \/ no_key \/ quit
  BY <1>4 DEF read_nothing, read_error, read_message, read_ping, auto_transmit, expire, no_key,
     quit, SelectionFits
<1>5. CASE UNCHANGED monitorVars
  <2>1. filter_entries' = filter_entries
    BY <1>5 DEF monitorVars, filter_entries, gather_sorted_entries, Passes
  <2> QED  BY <1>5, <2>1 DEF monitorVars, SelectionFits
<1> QED  BY <1>1, <1>2, <1>3, <1>4, <1>5, MonitorSteps

\* A table drawn with the selection in it shows the selected row.
LEMMA RowShown ==
  ASSUME NEW S, Cardinality(S) \in Nat, NEW i \in Nat, i = Clamped(i, Cardinality(S)),
         NEW h \in Nat, Window(S, i, h, TRUE).shown # {}
  PROVE  i \in Window(S, i, h, TRUE).shown
<1> DEFINE n == Cardinality(S)
           first == IF h > 0 /\ n > h /\ i >= h THEN i - h + 1 ELSE 0
<1>1. Window(S, i, h, TRUE).shown = {r \in 0..(n - 1) : first <= r /\ r < first + h}
  BY DEF Window
<1>2. n \in Nat /\ first \in Int
  OBVIOUS
<1>3. PICK r \in 0 .. (n - 1) : first <= r /\ r < first + h
  BY <1>1
<1>4. n > 0 /\ h > 0
  <2> HIDE DEF n, first
  <2> QED  BY <1>2, <1>3
<1>5. i < n
  BY <1>4, SMT DEF Clamped
<1>6. first <= i /\ i < first + h
  <2> HIDE DEF n
  <2> QED  BY <1>2, <1>4, <1>5
<1>7. i \in 0 .. (n - 1)
  <2> HIDE DEF n, first
  <2> QED  BY <1>2, <1>5
<1> HIDE DEF n, first
<1> QED  BY <1>1, <1>6, <1>7

LEMMA LargerOf ==
  ASSUME NEW a \in Int, NEW b \in Int
  PROVE  Max({a, b}) \in {a, b}
<1>1. \E x \in {a, b} : \A y \in {a, b} : x >= y
  OBVIOUS
<1> QED  BY <1>1 DEF Max

LEMMA RestTyped ==
  ASSUME NEW S, Cardinality(S) \in Nat, NEW i \in Nat, NEW rows \in Int, NEW focus \in BOOLEAN
  PROVE  render_table(S, i, rows, focus).rest \in Int
<1> DEFINE shown == render_table(S, i, rows, focus).shown
<1>1. shown \subseteq 0 .. (Cardinality(S) - 1)
  BY DEF render_table, Window
<1>2. Cardinality(shown) \in Nat
  <2> HIDE DEF shown
  <2>1. 0 \in Int /\ Cardinality(S) - 1 \in Int
    OBVIOUS
  <2>2. IsFiniteSet(0 .. (Cardinality(S) - 1))
    BY <2>1, FS_Interval
  <2> QED  BY <1>1, <2>2, FS_Subset, FS_CardinalityType
<1>3. render_table(S, i, rows, focus).rest = Max({0, rows - 4 - Max({1, Cardinality(shown)})})
  BY DEF render_table
<1> HIDE DEF shown
<1>4. Max({1, Cardinality(shown)}) \in Int
  BY <1>2, LargerOf
<1>5. rows - 4 - Max({1, Cardinality(shown)}) \in Int
  BY <1>4
<1> QED  BY <1>3, <1>5, LargerOf

LEMMA ScreenShows == ListTyped /\ SelectionFits => SelectionVisible
<1> SUFFICES ASSUME ListTyped, SelectionFits, pc = "key", nav.interactive, NEW rows \in Heights
             PROVE  LET screen == render_ui(rows)
                    IN  /\ ~nav.focus /\ screen.all # {} => nav.all \in screen.all
                        /\ nav.focus /\ screen.filtered # {} => nav.filtered \in screen.filtered
  BY DEF SelectionVisible
<1> DEFINE all == render_table(gather_sorted_entries, nav.all, rows, ~nav.focus)
           below == all.rest - 1
           part == render_table(filter_entries, nav.filtered, below, nav.focus)
<1>1. /\ Cardinality(gather_sorted_entries) \in Nat /\ Cardinality(filter_entries) \in Nat
      /\ rows \in Nat /\ nav.all \in Nat /\ nav.filtered \in Nat /\ nav.focus \in BOOLEAN
  BY CountsKnown, LoggerAssumption DEF gather_sorted_entries, SelectionFits
<1>2. ~nav.focus /\ all.shown # {} => nav.all \in all.shown
  <2> DEFINE h == IF rows > 4 THEN rows - 4 ELSE 0
  <2>1. h \in Nat /\ all.shown = Window(gather_sorted_entries, nav.all, h, ~nav.focus).shown
    BY <1>1 DEF render_table
  <2> HIDE DEF all, h
  <2>2. nav.all = Clamped(nav.all, Cardinality(gather_sorted_entries))
    BY DEF SelectionFits, gather_sorted_entries
  <2> QED  BY <1>1, <2>1, <2>2, RowShown
<1>3. below \in Int
  <2>1. all.rest \in Int
    <3>1. (~nav.focus) \in BOOLEAN /\ rows \in Int
      BY <1>1
    <3> QED  BY <1>1, <3>1, RestTyped
  <2> HIDE DEF all
  <2> QED  BY <2>1
<1>4. nav.focus /\ part.shown # {} => nav.filtered \in part.shown
  <2> DEFINE h == IF below > 4 THEN below - 4 ELSE 0
  <2>1. part.shown = Window(filter_entries, nav.filtered, h, nav.focus).shown
    BY DEF render_table
  <2>2. h \in Nat
    <3> HIDE DEF below
    <3> QED  BY <1>3
  <2> HIDE DEF part, h
  <2>3. nav.filtered = Clamped(nav.filtered, Cardinality(filter_entries))
    BY DEF SelectionFits
  <2> QED  BY <1>1, <2>1, <2>2, <2>3, RowShown
<1>5. /\ render_ui(rows).all = all.shown
      /\ render_ui(rows).filtered # {} => render_ui(rows).filtered = part.shown
  BY DEF render_ui
<1> HIDE DEF all, part
<1> QED  BY <1>2, <1>4, <1>5

\* What the decoder reads of a field lies inside the message (decode_payload).
LEMMA DecodedInside ==
  ASSUME NEW f \in [offset : Nat, size : {1, 2, 4, 8}, count : Nat], NEW len \in Nat,
         decode_field(f, len).read > 0
  PROVE  f.offset + decode_field(f, len).read * f.size <= len
<1> DEFINE a == len - f.offset
           read == decode_field(f, len).read
<1>1. f.offset < len /\ f.offset \in Nat
  BY DEF decode_field
<1>2. a \in Nat
  BY <1>1
<1>3. read <= a \div f.size /\ read \in Int
  <2>1. a \div f.size \in Int
    BY <1>2
  <2>2. read = IF a \div f.size < (IF f.count > 0 THEN f.count ELSE 1) THEN a \div f.size
               ELSE IF f.count > 0 THEN f.count ELSE 1
    BY <1>1 DEF decode_field
  <2>3. f.count \in Nat
    OBVIOUS
  <2> HIDE DEF a, read
  <2> QED  BY <2>1, <2>2, <2>3
<1> HIDE DEF read
<1>4. read * f.size <= a
  <2> HIDE DEF a
  <2>1. CASE f.size = 1
    BY <1>2, <1>3, <2>1
  <2>2. CASE f.size = 2
    BY <1>2, <1>3, <2>2
  <2>3. CASE f.size = 4
    BY <1>2, <1>3, <2>3
  <2>4. CASE f.size = 8
    BY <1>2, <1>3, <2>4
  <2> QED  BY <2>1, <2>2, <2>3, <2>4
<1>5. f.size \in Int
  OBVIOUS
<1> QED  BY <1>1, <1>3, <1>4, <1>5 DEF read

LEMMA MonitorStarts == MonitorInit => MonitorInv
<1> SUFFICES ASSUME MonitorInit PROVE MonitorInv
  OBVIOUS
<1>1. DOMAIN messages = {} /\ DOMAIN inflight = {}
  BY DEF MonitorInit
<1>2. Cardinality(DOMAIN inflight) = 0 /\ IsFiniteSet(DOMAIN messages)
  BY <1>1, FS_EmptySet
<1>3. ListTyped
  BY <1>1, <1>2 DEF ListTyped
<1>4. PingsFit
  BY <1>1, <1>2 DEF MonitorInit, PingsFit, LoopAccounting, NoStats, Counts
<1>5. FilterFits
  BY DEF MonitorInit, FilterFits, NoFilter, Choice
<1>6. SelectionFits
  BY DEF MonitorInit, SelectionFits
<1> QED  BY <1>3, <1>4, <1>5, <1>6 DEF MonitorInv

\* Whatever arrives, is lost, echoed twice or late, and whatever keys are pressed: the
\* pings add up, the filter shows a message, the table shows the selected row, and
\* nothing is decoded from behind the end of a message (main, render_table,
\* decode_payload of mavlink_uart_logger).
THEOREM MonitorTells == MonitorSpec => []MonitorConsistent
<1>1. MonitorInv /\ [MonitorNext]_monitorVars => MonitorInv'
  BY NextList, NextPings, NextFilter, NextSelection DEF MonitorInv
<1>2. MonitorInv => MonitorConsistent
  <2> SUFFICES ASSUME MonitorInv PROVE MonitorConsistent
    OBVIOUS
  <2>1. LoopAccounting
    BY DEF MonitorInv, PingsFit
  <2>2. FilterNeverEmpty
    BY DEF MonitorInv, FilterFits, FilterNeverEmpty, filter_entries, gather_sorted_entries
  <2>3. SelectionVisible
    BY ScreenShows DEF MonitorInv
  <2>4. DecodeInBounds
    BY DecodedInside, LoggerAssumption DEF MonitorInv, ListTyped, DecodeInBounds
  <2> QED  BY <2>1, <2>2, <2>3, <2>4 DEF MonitorConsistent
<1> QED  BY <1>1, <1>2, MonitorStarts, PTL DEF MonitorSpec
=============================================================================
