----------------------------- MODULE VideoPath ------------------------------
(***************************************************************************)
(* Video from the encoder to the ports of the ground station. The thread   *)
(* of each camera pulls samples from gstreamer, puts the RTP fragments of  *)
(* a frame together (or, with exp_raw.txt, splits and packetises the raw   *)
(* stream itself) and hands the frame to the link. The link queues it for  *)
(* the injecting thread or refuses it; the ground forwards what arrives. A *)
(* codec set by the user is read by the frame assembly at once, while the  *)
(* running pipeline keeps its own until the restart. The transmit queues,  *)
(* the radio and its FEC belong to wifibroadcast and are external.         *)
(***************************************************************************)
EXTENDS Integers, Sequences, SequencesExt

CONSTANTS
  Paths,         \* configurations: cameras, codec, link, raw, intra refresh,
                 \* and how many slices, restarts and closed gates to look at
  QueueSize,     \* block_data_queue_size
  FragmentLimit, \* fragments after which a frame is cut
  Shapes         \* how the payloader may split a slice

ASSUME SizesAssumption == {QueueSize, FragmentLimit} \subseteq Nat \ {0}

Codecs == {"h264", "h265"}
Parts == {"single", "start", "middle", "end"}

ASSUME PathsAssumption ==
    Paths \subseteq [use : BOOLEAN, cams : SUBSET Nat, codec : Codecs,
                     link : {"wb", "ethernet", "microhard"}, raw : BOOLEAN, intra : BOOLEAN,
                     record_only : BOOLEAN, switch : BOOLEAN, slices : Nat, restarts : Nat,
                     gates : Nat, audio : Nat]

\* A payloader sends a slice as one packet, or as fragmentation units of which
\* the first and the last are marked.
ASSUME ShapesAssumption ==
    /\ Shapes \subseteq Seq(Parts)
    /\ \A shape \in Shapes :
        \/ shape = << "single" >>
        \/ /\ Len(shape) > 1 /\ shape[1] = "start" /\ shape[Len(shape)] = "end"
           /\ \A i \in 2 .. Len(shape) - 1 : shape[i] = "middle"

VARIABLES
  path,     \* the configuration
  codec,    \* streamed_video_format.videoCodec of each camera's settings
  enc,      \* the encoder and payloader of each running pipeline
  asm,      \* m_frame_fragments and m_last_fu_s_idr
  rtp,      \* RTPHelper: the saved config, and whether it is to be sent again
  gate,     \* m_air_close_video_in, or a thermal level that disables video
  net,      \* transmit queues, drop counters, ports of the ground station
  audio,    \* GstAudioStream: its thread, its pipeline, the microphone
  left      \* restarts and gate changes that may still happen

videoVars == << path, codec, enc, asm, rtp, gate, net, audio, left >>

Streams == 0 .. 1
NoNal == [kind |-> "none", ver |-> 0]
Helper == [sps |-> NoNal, pps |-> NoNal, due |-> FALSE]
Encoder(n, c, v) == [run |-> n, codec |-> c, todo |-> << >>, slices |-> 0, seq |-> 0, ver |-> v]
Nothing == [frags |-> << >>, idr |-> FALSE]

VideoInit ==
    /\ path \in Paths
    /\ codec = [c \in path.cams |-> path.codec]
    /\ enc = [c \in path.cams |-> Encoder(1, path.codec, 1)]
    /\ asm = [c \in path.cams |-> Nothing]
    /\ rtp = [c \in path.cams |-> Helper]
    /\ gate = "open"
    /\ net = [queue |-> [s \in Streams |-> << >>],   \* blocks waiting for injection
              drops |-> [s \in Streams |-> 0],       \* m_primary_, m_secondary_total_dropped_frames
              taken |-> [s \in Streams |-> 0],       \* frames that passed the gate
              injected |-> [s \in Streams |-> 0],
              port |-> [s \in Streams |-> << >>]]    \* last block on ports 5600, 5601
    /\ audio = [at |-> IF path.audio = 0 THEN "off" ELSE "start", keep |-> TRUE, alive |-> FALSE,
                device |-> TRUE, changes |-> path.audio]
    /\ left = [restarts |-> path.restarts, gates |-> path.gates]

---------------------------------------------------------------------------
(* The link.                                                               *)

\* enqueue_block_dropping makes room by removing n older blocks.
Room(q, n) == IF Len(q) < QueueSize THEN 0 ELSE n

use_dropping_enqueue(idr) == path.intra \/ idr

Dropped(full, gone) == IF full THEN 1 ELSE gone

wb_transmit(s, frags, idr, n, t) ==
    LET gone == IF use_dropping_enqueue(idr) THEN Room(t.queue[s], n) ELSE 0
        full == Len(t.queue[s]) - gone = QueueSize
    IN  IF gate # "open" THEN t
        ELSE [t EXCEPT !.taken[s] = @ + 1, !.drops[s] = @ + Dropped(full, gone),
                       !.queue[s] = IF full THEN @ ELSE Append(SubSeq(@, gone + 1, Len(@)), frags)]

\* The other links send the fragments as they come, the ethernet link those
\* of every stream, and their ground unit takes all it hears for stream 0.
GroundStream(s) == 0
ethernet_transmit(s, frags, t) == [t EXCEPT !.port[GroundStream(s)] = frags]
microhard_transmit(s, frags, t) == IF s = 0 THEN [t EXCEPT !.port[GroundStream(s)] = frags] ELSE t

transmit_video_data(s, frags, idr, n, t) ==
    CASE path.link = "wb" -> wb_transmit(s, frags, idr, n, t)
      [] path.link = "ethernet" -> ethernet_transmit(s, frags, t)
      [] path.link = "microhard" -> microhard_transmit(s, frags, t)

\* OHDVideoAir::on_video_data.
on_video_data(s, frags, idr, n, t) ==
    IF path.record_only \/ s \notin Streams THEN t ELSE transmit_video_data(s, frags, idr, n, t)

\* OHDVideoGround::on_video_data.
on_receive_video_data(s, block, ports) ==
    IF s \in Streams THEN [ports EXCEPT ![s] = block] ELSE ports

\* The injecting thread takes a block; its FEC recovers it on the ground or
\* not.
inject(s, received) ==
    /\ net.queue[s] # << >>
    /\ net' = [net EXCEPT !.queue[s] = Tail(@), !.injected[s] = @ + 1,
                          !.port = IF received THEN on_receive_video_data(s, Head(net.queue[s]), @) ELSE @]
    /\ UNCHANGED << path, codec, enc, asm, rtp, gate, audio, left >>

\* The worker closes the input for a scan or the temperature does, and back.
set_gate ==
    /\ path.link = "wb" /\ left.gates > 0
    /\ gate' = IF gate = "open" THEN "closed" ELSE "open"
    /\ left' = [left EXCEPT !.gates = @ - 1]
    /\ UNCHANGED << path, codec, enc, asm, rtp, audio, net >>

---------------------------------------------------------------------------
(* Frames from RTP fragments. A payload read as the wrong codec has a type  *)
(* that is not a fragmentation unit.                                       *)

Unknown == [start |-> FALSE, end |-> FALSE, nal |-> "unknown"]

h264_more_info(f) ==
    CASE f.codec = "h264" /\ f.part = "end" -> [Unknown EXCEPT !.end = TRUE]
      [] f.codec = "h264" /\ f.part = "start" -> [Unknown EXCEPT !.start = TRUE, !.nal = f.nal]
      [] OTHER -> Unknown

\* The type of the NALU is never filled in.
h265_more_info(f) ==
    CASE f.codec = "h265" /\ f.part = "end" -> [Unknown EXCEPT !.end = TRUE]
      [] f.codec = "h265" /\ f.part = "start" -> [Unknown EXCEPT !.start = TRUE]
      [] OTHER -> Unknown

is_idr_frame(nal) == nal = "idr"

Info(c, f) == IF codec[c] = "h265" THEN h265_more_info(f) ELSE h264_more_info(f)

on_new_rtp_frame_fragment(c, f, n) ==
    LET info == Info(c, f)
        frags == Append(asm[c].frags, f)
        idr == IF info.start THEN is_idr_frame(info.nal) ELSE asm[c].idr
    IN  IF info.end \/ Len(frags) > FragmentLimit
        THEN /\ net' = on_video_data(c, frags, idr, n, net)
             /\ asm' = [asm EXCEPT ![c] = Nothing]
        ELSE /\ asm' = [asm EXCEPT ![c] = [frags |-> frags, idr |-> idr]]
             /\ UNCHANGED net

\* The next fragment of a NALU: of the one being emitted, of a parameter set,
\* or of a new slice.
Fragment(c, nal, part) ==
    [run |-> enc[c].run, seq |-> enc[c].seq, codec |-> enc[c].codec, nal |-> nal, part |-> part]

pull_sample(c) ==
    /\ ~path.raw
    /\ UNCHANGED << path, codec, rtp, gate, audio, left >>
    /\ \E n \in 1 .. QueueSize :
        IF enc[c].todo # << >>
        THEN LET h == Head(enc[c].todo) IN
             /\ enc' = [enc EXCEPT ![c].todo = Tail(@), ![c].seq = @ + 1]
             /\ on_new_rtp_frame_fragment(c, Fragment(c, h.nal, h.part), n)
        ELSE /\ enc[c].slices < path.slices
             /\ \E nal \in {"config", "idr", "slice"} :
                \E shape \in (IF nal = "config" THEN {<< "single" >>} ELSE Shapes) :
                    LET parts == [i \in 1 .. Len(shape) |-> [nal |-> nal, part |-> shape[i]]] IN
                    /\ enc' = [enc EXCEPT ![c].todo = Tail(parts), ![c].seq = @ + 1, ![c].slices = @ + 1]
                    /\ on_new_rtp_frame_fragment(c, Fragment(c, nal, shape[1]), n)

---------------------------------------------------------------------------
(* Frames from the raw stream. A sample holds the NALUs of one picture; the *)
(* helper takes each for H264 whatever the codec, so that of H265 no        *)
(* parameter set is ever recognised (its PPS bears no known type).          *)

Kind(nal, c) == IF enc[c].codec = "h265" THEN "other" ELSE nal.kind

all_config_available(h, c) ==
    enc[c].codec = "h264" /\ h.sps # NoNal /\ h.pps # NoNal

save_if_config(h, nal, c) ==
    CASE Kind(nal, c) = "sps" -> [h EXCEPT !.sps = nal]
      [] Kind(nal, c) = "pps" -> [h EXCEPT !.pps = nal]
      [] OTHER -> h

\* Mutant: a parameter set that differs is taken for the old one.
MutSameConfig(h, nal) == TRUE

check_is_still_same_config_data(h, nal) ==
    nal = (IF nal.kind = "sps" THEN h.sps ELSE h.pps)

reset(h) == [h EXCEPT !.sps = NoNal, !.pps = NoNal]

\* What on_new_split_nalu remembers, and what it forwards once it knows a
\* whole config.
Kept(c, nal) ==
    CASE ~all_config_available(rtp[c], c) -> save_if_config(rtp[c], nal, c)
      [] all_config_available(rtp[c], c) /\ nal.kind \in {"sps", "pps"} ->
           IF check_is_still_same_config_data(rtp[c], nal) THEN rtp[c]
           ELSE save_if_config(reset(rtp[c]), nal, c)
      [] OTHER -> rtp[c]

Forwards(c, nal) ==
    all_config_available(rtp[c], c) /\ nal.kind \notin {"sps", "pps", "sei", "aud"}

\* The config goes first when a second has passed since it was last sent (or
\* since the helper was made).
on_new_nalu_frame(c, nal, n) ==
    LET config == << rtp[c].sps, rtp[c].pps >>
        sent == IF rtp[c].due THEN on_video_data(c, config, FALSE, n, net) ELSE net
    IN  /\ net' = on_video_data(c, << nal >>, FALSE, n, sent)
        /\ rtp' = [rtp EXCEPT ![c].due = FALSE]

on_new_split_nalu(c, nal, n) ==
    IF Forwards(c, nal) THEN on_new_nalu_frame(c, nal, n)
    ELSE rtp' = [rtp EXCEPT ![c] = Kept(c, nal)] /\ UNCHANGED net

\* The samples of a picture: the encoder repeats its parameter sets before a
\* keyframe, and changes them only there.
Sample(nal, v) ==
    IF nal = "idr" THEN << [kind |-> "sps", ver |-> v], [kind |-> "pps", ver |-> v], [kind |-> "idr", ver |-> v] >>
    ELSE << [kind |-> "aud", ver |-> v], [kind |-> "slice", ver |-> v] >>

\* feed_multiple_nalu: one NALU after the other, while blocks are injected.
pull_raw_sample(c) ==
    /\ path.raw
    /\ UNCHANGED << path, codec, asm, gate, audio, left >>
    /\ \E n \in 1 .. QueueSize :
        IF enc[c].todo # << >>
        THEN /\ enc' = [enc EXCEPT ![c].todo = Tail(@)]
             /\ on_new_split_nalu(c, Head(enc[c].todo), n)
        ELSE /\ enc[c].slices < path.slices
             /\ \E nal \in {"idr", "slice"}, changed \in BOOLEAN :
                LET v == IF nal = "idr" /\ changed THEN 3 - enc[c].ver ELSE enc[c].ver IN
                /\ enc' = [enc EXCEPT ![c].todo = Tail(Sample(nal, v)), ![c].slices = @ + 1, ![c].ver = v]
                /\ on_new_split_nalu(c, Head(Sample(nal, v)), n)

second_passes(c) ==
    /\ path.raw /\ ~rtp[c].due
    /\ rtp' = [rtp EXCEPT ![c].due = TRUE]
    /\ UNCHANGED << path, codec, enc, asm, gate, net, audio, left >>

---------------------------------------------------------------------------
(* The user changes the codec: the field is assigned here, the restart it   *)
(* requests comes later. A pipeline may also fail by itself.                *)
set_codec(c) ==
    /\ path.switch /\ left.restarts > 0
    /\ codec' = [codec EXCEPT ![c] = IF @ = "h264" THEN "h265" ELSE "h264"]
    /\ left' = [left EXCEPT !.restarts = @ - 1]
    /\ UNCHANGED << path, enc, asm, rtp, gate, net, audio >>

\* Mutant: fragments of the old pipeline stay.
MutRestarted(c) == asm

Restarted(c) == [asm EXCEPT ![c].frags = << >>]

\* The thread that pulls is the one that restarts: never inside a sample.
restart(c) ==
    /\ path.raw => enc[c].todo = << >>
    /\ \/ codec[c] # enc[c].codec /\ UNCHANGED left
       \/ left.restarts > 0 /\ left' = [left EXCEPT !.restarts = @ - 1]
    /\ asm' = Restarted(c)
    /\ enc' = [enc EXCEPT ![c] = [Encoder(@.run + 1, codec[c], @.ver) EXCEPT !.slices = enc[c].slices]]
    /\ rtp' = [rtp EXCEPT ![c] = Helper]
    /\ UNCHANGED << path, codec, gate, net, audio >>

(* The audio stream: a thread that builds its pipeline, passes packets on,  *)
(* gives up after five seconds without one, pauses, and builds it again.    *)
AudioStep(from, to) == audio.at = from /\ audio' = [audio EXCEPT !.at = to]

audio_builds ==
    /\ audio.at = "start"
    /\ audio' = [audio EXCEPT !.at = "play", !.alive = audio.device]

stream_once ==                                   \* without a pipeline, or one that does not play
    audio_builds \/ AudioStep("start", "pause")

audio_silent == ~audio.alive /\ AudioStep("play", "pause")

audio_pause == AudioStep("pause", IF audio.keep THEN "start" ELSE "ended")

\* m_keep_looping is read at every packet.
audio_leaves == ~audio.keep /\ AudioStep("play", "pause")

stop_looping ==
    /\ audio.keep /\ audio.changes > 0
    /\ audio' = [audio EXCEPT !.keep = FALSE, !.changes = @ - 1]

\* The microphone goes or comes; a pipeline may die under it.
microphone ==
    /\ audio.changes > 0
    /\ \E d \in BOOLEAN : audio' = [audio EXCEPT !.device = d, !.alive = FALSE, !.changes = @ - 1]

AudioOnly(action) == action /\ UNCHANGED << path, codec, enc, asm, rtp, gate, net, left >>

AudioFairness ==
    /\ WF_videoVars(AudioOnly(stream_once)) /\ SF_videoVars(AudioOnly(audio_builds))
    /\ WF_videoVars(AudioOnly(audio_silent)) /\ WF_videoVars(AudioOnly(audio_pause))
    /\ WF_videoVars(AudioOnly(audio_leaves))

AudioNext ==
    /\ audio.at # "off"
    /\ AudioOnly(stream_once \/ audio_silent \/ audio_pause \/ audio_leaves \/ stop_looping \/ microphone)

VideoNext ==
    \/ \E c \in path.cams : pull_sample(c) \/ pull_raw_sample(c) \/ second_passes(c)
                            \/ set_codec(c) \/ restart(c)
    \/ \E s \in Streams, received \in BOOLEAN : inject(s, received)
    \/ set_gate
    \/ AudioNext

---------------------------------------------------------------------------
\* A block is a piece of what one run of the pipeline emitted, without gap.
Unbroken(b) ==
    \A i \in 2 .. Len(b) : b[i].run = b[i - 1].run /\ b[i].seq = b[i - 1].seq + 1

(* Whatever is cut, restarted or switched to another codec in between, a    *)
(* frame handed to the link never holds fragments of two pipelines, twice   *)
(* the same, or with one missing (on_new_rtp_frame_fragment and the clean   *)
(* up after loop_pull_samples).                                            *)
FramesUnbroken ==
    ~path.raw => \A s \in Streams :
        /\ \A i \in 1 .. Len(net.queue[s]) : Unbroken(net.queue[s][i])
        /\ Unbroken(net.port[s])

(* Every frame that passed the gate is queued, injected, or counted as      *)
(* dropped for its stream (transmit_video_data).                            *)
DropsAccounted ==
    path.link = "wb" => \A s \in Streams :
        net.taken[s] = Len(net.queue[s]) + net.injected[s] + net.drops[s]

(* What the link is given is whole, and what it drops is counted.           *)
VideoIntact == FramesUnbroken /\ DropsAccounted

(* The raw path hands over a picture only while it holds the parameter sets *)
(* that belong to it and would send these, however often the encoder        *)
(* changes them (CodecConfigFinder).                                        *)
ConfigCurrent ==
    [][path.raw => \A c \in path.cams \cap Streams :
        (net'.queue[c] # net.queue[c] /\ Len(net'.queue[c]) >= Len(net.queue[c]))
            => LET nal == Last(Last(net'.queue[c])) IN
               nal.kind \in {"idr", "slice"} =>
                    rtp'[c].sps.ver = nal.ver /\ rtp'[c].pps.ver = nal.ver]_videoVars

(* While nobody changes the codec, a keyframe of H264 that spans several    *)
(* fragments is never the one a full queue turns away (is_idr_frame,        *)
(* use_dropping_enqueue).                                                   *)
KeyFramesGoThrough ==
    [][\A c \in path.cams \cap Streams :
        (/\ path.link = "wb" /\ ~path.record_only /\ gate = "open"
         /\ ~path.switch /\ path.codec = "h264"
         /\ \E i \in 1 .. Len(asm[c].frags) : asm[c].frags[i].nal = "idr" /\ asm[c].frags[i].part = "start"
         /\ asm'[c].frags = << >> /\ enc'[c].run = enc[c].run)
        => /\ net'.queue[c] # << >>
           /\ IsPrefix(asm[c].frags, Last(net'.queue[c]))]_videoVars

(* What a receiver needs first gets through: parameter sets, keyframes.     *)
VideoForwarded == ConfigCurrent /\ KeyFramesGoThrough

(* While the microphone is there, the audio thread ends up with a pipeline  *)
(* that delivers, whatever failed before; told to stop, it ends             *)
(* (GstAudioStream::loop_infinite, stop_looping).                           *)
AudioSettles ==
    /\ <>[](audio.device /\ audio.keep /\ audio.at # "off") => []<>(audio.at = "play" /\ audio.alive)
    /\ ~audio.keep ~> audio.at = "ended"
=============================================================================
