--------------------------- MODULE CameraPipeline ---------------------------
(***************************************************************************)
(* Which cameras an air unit runs and the pipeline each of them gets:      *)
(* OHDVideoAir::discover_cameras and its constructor, the settings of a    *)
(* camera (CameraHolder), the choice and the encoder part of the pipeline  *)
(* (create_source_encode_pipeline, gst_helper.hpp) and the element through *)
(* which the link changes the bitrate of a running pipeline.               *)
(*                                                                         *)
(* How a pipeline is restarted while settings change is in VideoAir; here  *)
(* a changed setting takes the pipeline down and setup builds it again.    *)
(* gstreamer, the cameras and sysutils are external.                       *)
(***************************************************************************)
EXTENDS Integers, Sequences, FiniteSets

CONSTANTS
  Hosts,         \* [platform, sysutil: camera type sysutils names or NoType,
                 \*  hdmi_v4l2: hdmi_v4l2.txt exists, asserts: built with assertions]
  CameraChoices, \* [platform -> camera types a user may ask for]
  Nodes,         \* sets of video devices: [dev, bus, raw]
  Sensors,       \* what detect_runcam.sh prints on an X20, 0: nothing usable
  Mbits,         \* bitrates a user enters
  Kbits,         \* bitrates the link recommends (kbit/s)
  Formats,       \* << width, height, fps >> a user enters
  SliceCounts, Intervals, IntraTypes,
  DefaultFormat,
  MaxUpdates     \* changes and restarts in a run

Platforms == {"rpi", "x20", "a733", "rk3566", "rock5a", "rock5b", "openipc", "xavier",
              "qualcomm", "orqa", "nxp", "luckfox", "x86"}

\* A video device has a number of its own.
ASSUME CameraAssumption ==
  /\ Hosts \subseteq [platform : Platforms, sysutil : Int, hdmi_v4l2 : BOOLEAN, asserts : BOOLEAN]
  /\ CameraChoices \in [Platforms -> SUBSET Int]
  /\ \A ns \in Nodes : /\ IsFiniteSet(ns) /\ \A n \in ns : n.dev \in Nat
                       /\ \A n, m \in ns : n.dev = m.dev => n = m
  /\ Sensors \cup Mbits \cup Kbits \cup SliceCounts \cup Intervals \cup IntraTypes \subseteq Int
  /\ Formats \cup {DefaultFormat} \subseteq Int \X Int \X Int
  /\ MaxUpdates \in Nat

VARIABLES
  host, nodes, sensor,
  generic,     \* AirCameraGenericSettings in the file, NoFile at first
  files,       \* settings of each camera that has been used: << type, index >>
  cams,        \* the cameras in use, in the order of their index
  pipes,       \* the pipeline of each camera
  phase,       \* off, up, ending (TerminateHelper or a reboot is on its way)
  boot,        \* camera type sysutils has prepared the boot configuration for
  updates

cameraVars == << host, nodes, sensor, generic, files, cams, pipes, phase, boot, updates >>

NoType == -1
NoFile == [primary |-> NoType, secondary |-> NoType, switch |-> FALSE]
Disabled == 255

\* camera.hpp: ranges of camera types.
requires_rpi_mmal_pipeline(t) == t = 20
requires_rpi_libcamera_pipeline(t) == t \in 30 .. 59
requires_rpi_veye_pipeline(t) == t \in 60 .. 69
requires_x20_cedar_pipeline(t) == t \in 70 .. 76
requires_a733_pipeline(t) == t \in 77 .. 79
requires_rockchip_mpp_pipeline(t) == t \in 80 .. 99
requires_orqa_pipeline(t) == t \in 122 .. 123
requires_nxp_imx8_v4l2_pipeline(t) == t \in 130 .. 139
requires_rockchip_rv_pipeline(t) == t = 140
is_rpi_csi_camera(t) == t \in 20 .. 69
is_rock_csi_camera(t) == t \in 80 .. 99
is_usb_camera(t) == t \in 10 .. 18
is_valid_primary_cam_type(t) == t \in 0 .. 254
is_valid_secondary_cam_type(t) == is_usb_camera(t) \/ t \in {0, 2, 3, Disabled}
Dummy == 0
Filesrc == 4

is_rpi == host.platform = "rpi"
is_rock == host.platform \in {"rk3566", "rock5a", "rock5b"}
is_x20 == host.platform = "x20"

-----------------------------------------------------------------------------
(* Discovery.                                                              *)

\* The nodes whose driver lists an output that can be taken as it is.
raw_nodes == {n \in nodes : n.raw}

\* One camera per bus: its lowest such node, in the order of the nodes.
detect_usb_cameras ==
  LET first == {n \in raw_nodes : \A m \in raw_nodes : m.bus = n.bus => n.dev <= m.dev}
      Below(d) == Cardinality({n \in first : n.dev < d})
  IN  [i \in 1 .. Cardinality(first) |->
         (CHOOSE n \in first : Below(n.dev) = i - 1).dev]

\* After 10 s the missing ones are guessed.
x_discover_usb_cameras(number) ==
  [i \in 1 .. number |->
     IF i <= Len(detect_usb_cameras) THEN detect_usb_cameras[i]
     ELSE IF i = 1 THEN 0 ELSE 1]

CamTypes(g) == IF g.secondary = Disabled THEN << g.primary >> ELSE << g.primary, g.secondary >>
get_num_usb_cameras(types, n) == Cardinality({i \in 1 .. n : is_usb_camera(types[i])})

UsbDevice(found, types, i) == found[get_num_usb_cameras(types, i)]

discover_cameras(g) ==
  LET types == CamTypes(g)
      found == x_discover_usb_cameras(get_num_usb_cameras(types, Len(types)))
  IN  [i \in 1 .. Len(types) |->
         [type |-> types[i],
          usb |-> IF is_usb_camera(types[i]) THEN UsbDevice(found, types, i) ELSE 0]]

detect_camera_type == IF sensor \in {1, 2, 3} THEN 70 + sensor
                      ELSE IF sensor = 90 THEN 74 ELSE 70

\* AirCameraGenericSettingsHolder::create_default.
PlatformCamera ==
  [rpi |-> 20, x20 |-> detect_camera_type, a733 |-> 77, rk3566 |-> 94, rock5a |-> 84,
   rock5b |-> 80, openipc |-> 2, xavier |-> 101, qualcomm |-> 120, orqa |-> 122,
   nxp |-> 130, luckfox |-> 140, x86 |-> Dummy]
create_default_generic ==
  [primary |-> IF host.sysutil /= NoType THEN host.sysutil ELSE PlatformCamera[host.platform],
   secondary |-> Disabled, switch |-> FALSE]

CamFile(i) == << cams[i].type, i >>
create_default ==
  [codec |-> "h264", kbits |-> 8000, fmt |-> DefaultFormat, key |-> IF is_x20 THEN 8 ELSE 5,
   intra |-> -1, slices |-> 0, sw |-> FALSE, iq |-> FALSE]
CameraSettings(i) == files[CamFile(i)]

-----------------------------------------------------------------------------
(* gst_helper.hpp: the encoder of a pipeline. rate is the value written to *)
(* the element, in the unit of that element; rows are the rows of          *)
(* macroblocks of a slice; dies names what the build of the text may hit.  *)

Encoder(element, codec, rate, rows, dies) ==
  [el |-> element, codec |-> codec, pay |-> "none", rate |-> rate, rows |-> rows, dies |-> dies]
Enc(element, codec, rate) == Encoder(element, codec, rate, 0, "no")
NoEncoder == Enc("none", "none", 0)
bits(kbits) == kbits * 1000
Lower(a, b) == IF a < b THEN a ELSE b

createSwEncoder(s) == Enc("swencoder", s.codec, s.kbits)

SliceRows(rows, n) == (rows \div n) + (IF rows % n > 0 THEN 1 ELSE 0)

ALIGN_UP(value, multiple) == value + (value % multiple)
rpi_calculate_number_of_mbs_in_a_slice(height, n) ==
  LET rows == ALIGN_UP(height, 16) \div 16
  IN  IF n < 2 THEN 0 ELSE IF n > rows THEN rows ELSE SliceRows(rows, n)

\* An interval of 0 is a division by zero: the process dies or goes on with a value.
create_rpi_v4l2_h264_encoder(s) ==
  Encoder("rpi_v4l2_encoder", "h264", bits(s.kbits),
          rpi_calculate_number_of_mbs_in_a_slice(s.fmt[2], s.slices),
          IF s.codec /= "h264" THEN "assert"
          ELSE IF s.intra /= -1 /\ s.key = 0 THEN "zero" ELSE "no")

RpiEncoder(s) ==
  IF s.codec = "h264" /\ ~s.sw THEN create_rpi_v4l2_h264_encoder(s) ELSE createSwEncoder(s)

requires_half_bitrate_workaround(t, s) == requires_rpi_mmal_pipeline(t) /\ s.fmt[3] /= 60

createRpicamsrcStream(s) ==
  IF s.codec = "h264" /\ ~s.sw
  THEN Enc("rpicamsrc", "h264",
           IF requires_half_bitrate_workaround(20, s) THEN bits(s.kbits) \div 2 ELSE bits(s.kbits))
  ELSE createSwEncoder(s)

createLibcamerasrcStream(s) == RpiEncoder(s)
create_veye_vl2_stream(s) == RpiEncoder([s EXCEPT !.sw = FALSE])
createV4l2SrcRawAndSwEncodeStream(s) == createSwEncoder(s)

\* (bits / 2) * 95 / 100 in 32 bits: it wraps above 45 Mbit/s.
createRockchipEncoderPipeline(s) ==
  LET exact == s.kbits * 475
      actual == IF s.kbits * 500 > 22605091 THEN exact - 42949672 ELSE exact
  IN  Enc("mpp", s.codec, Lower(actual, 6650000))

create_nxp_imx8_v4l2_stream(s) == Enc("imxvpuenc", s.codec, s.kbits)
createAllwinnerCsiStream(s) == Enc("omxh264videoenc", "h264", bits(s.kbits))
createAllwinnerStream(s) ==
  Encoder("sunxisrc", "h264", s.kbits, 0, IF s.codec /= "h264" THEN "assert" ELSE "no")
create_orqa_camera1_stream(s) == Enc("vpuenc", s.codec, s.kbits)
create_qualcomm_camera1_stream(s) == Enc("qtic2venc", s.codec, bits(s.kbits))
create_nvidia_xavier_stream(s) == Enc("nvidia", s.codec, bits(s.kbits))
createRv1106Stream(s) == Enc("rkmpih264enc", s.codec, s.kbits)
create_input_custom_udp_rtp_port(s) == Enc("udpsrc", s.codec, 0)

\* createDummyStreamX takes the encoder of the platform, whatever the codec.
createDummyStreamX(s) ==
  CASE s.sw -> createSwEncoder(s)
    [] ~s.sw /\ is_rpi -> create_rpi_v4l2_h264_encoder(s)
    [] ~s.sw /\ is_rock -> createRockchipEncoderPipeline(s)
    [] OTHER -> createSwEncoder(s)

create_dummy_filesrc_stream(s) ==
  CASE is_rpi -> RpiEncoder(s)
    [] is_rock /\ ~s.sw -> createRockchipEncoderPipeline(s)
    [] OTHER -> createSwEncoder(s)

\* The scripts initialize_resolution runs beforehand for an HDMI adapter set timings of the
\* adapter, which is external; the program neither reads them back nor keeps anything.
create_source_encode_pipeline(t, s) ==
  CASE requires_rpi_mmal_pipeline(t) ->
         IF host.hdmi_v4l2 THEN create_rpi_v4l2_h264_encoder(s) ELSE createRpicamsrcStream(s)
    [] requires_rpi_libcamera_pipeline(t) -> createLibcamerasrcStream(s)
    [] requires_rpi_veye_pipeline(t) -> create_veye_vl2_stream(s)
    [] requires_rockchip_mpp_pipeline(t) -> createRockchipEncoderPipeline(s)
    [] requires_x20_cedar_pipeline(t) -> createAllwinnerStream(s)
    [] requires_a733_pipeline(t) -> createAllwinnerCsiStream(s)
    [] requires_orqa_pipeline(t) -> create_orqa_camera1_stream(s)
    [] requires_nxp_imx8_v4l2_pipeline(t) -> create_nxp_imx8_v4l2_stream(s)
    [] is_usb_camera(t) -> createV4l2SrcRawAndSwEncodeStream(s)
    [] t \in {2, 3} -> create_input_custom_udp_rtp_port(s)
    [] t = Filesrc -> create_dummy_filesrc_stream(s)
    [] t = 101 -> create_nvidia_xavier_stream(s)
    [] t = 120 -> create_qualcomm_camera1_stream(s)
    [] requires_rockchip_rv_pipeline(t) -> createRv1106Stream(s)
    [] OTHER -> createDummyStreamX(s)

\* gst_bitrate_controll_wrapper.hpp: the element to look for in the pipeline.
ControlName(t, s) ==
  CASE requires_rpi_mmal_pipeline(t) -> "rpicamsrc"
    [] ~requires_rpi_mmal_pipeline(t) /\ (t = Dummy \/ is_usb_camera(t) \/ s.sw) -> "swencoder"
    [] ~s.sw /\ requires_x20_cedar_pipeline(t) -> "sunxisrc"
    [] ~s.sw /\ requires_rockchip_rv_pipeline(t) -> "rkmpih264enc"
    [] OTHER -> "missing"

\* The source of an MMAL camera carries that name whichever encoder follows it.
HasElement(t, i, name) ==
  \/ pipes[i].el = name
  \/ name = "rpicamsrc" /\ requires_rpi_mmal_pipeline(t) /\ ~host.hdmi_v4l2

takes_kbit(name) == name /= "rpicamsrc"

-----------------------------------------------------------------------------
CameraInit ==
  /\ host \in Hosts
  /\ nodes \in Nodes
  /\ sensor \in Sensors
  /\ generic = NoFile
  /\ files = << >>
  /\ cams = << >>
  /\ pipes = [i \in 1 .. 2 |-> NoEncoder]
  /\ phase = "off"
  /\ boot = host.sysutil
  /\ updates = MaxUpdates

Update == updates > 0 /\ updates' = updates - 1
Up == phase \in {"up", "ending"}

Reverse2(s) == << s[2], s[1] >>

\* main: discover_cameras, then the constructor of OHDVideoAir, which detects the
\* camera of an X20 only for the file, and swaps two cameras if asked to.
start_cameras ==
  /\ phase = "off"
  /\ LET g == IF generic = NoFile THEN create_default_generic ELSE generic
         found == discover_cameras(g)
         saved == IF is_x20 THEN [g EXCEPT !.primary = detect_camera_type, !.secondary = Disabled]
                  ELSE g
     IN  /\ generic' = saved
         /\ cams' = IF saved.switch /\ Len(found) = 2 THEN Reverse2(found) ELSE found
         /\ files' = [f \in DOMAIN files \cup {<< cams'[i].type, i >> : i \in 1 .. Len(cams')} |->
                        IF f \in DOMAIN files THEN files[f] ELSE create_default]
  /\ phase' = "up"
  /\ UNCHANGED << host, nodes, sensor, pipes, boot, updates >>

\* setup of a stream. A failed assertion ends the process.
setup(i) ==
  /\ Up /\ i \in 1 .. Len(cams) /\ pipes[i] = NoEncoder
  /\ LET p == create_source_encode_pipeline(cams[i].type, CameraSettings(i))
     IN  \/ /\ p.dies = "assert" => ~host.asserts
            /\ pipes' = [pipes EXCEPT ![i] = [p EXCEPT !.pay = CameraSettings(i).codec]]
            /\ UNCHANGED << cams, phase >>
         \/ /\ p.dies = "zero" \/ (p.dies = "assert" /\ host.asserts)
            /\ pipes' = [j \in 1 .. 2 |-> NoEncoder]
            /\ cams' = << >> /\ phase' = "off"
  /\ UNCHANGED << host, nodes, sensor, generic, files, boot, updates >>

\* CameraHolder::get_all_settings: what one parameter can make of the settings. Every
\* accepted change restarts the pipeline.
encoder_settings(s) ==
  LET unlessX20(set) == IF is_x20 THEN {} ELSE set
  IN  unlessX20({[s EXCEPT !.fmt = f] : f \in {f \in Formats : \A k \in 1 .. 3 : f[k] >= 0}})
      \cup unlessX20({[s EXCEPT !.codec = c] : c \in {"h264", "h265"}})
      \cup unlessX20({[s EXCEPT !.sw = ~ @]})
      \cup {[s EXCEPT !.kbits = bits(m)] : m \in {m \in Mbits : m \in 1 .. 50}}
      \cup {[s EXCEPT !.key = k] : k \in {k \in Intervals : k >= -1}}
      \cup {[s EXCEPT !.intra = k] : k \in {k \in IntraTypes : k \in -1 .. 2 \/ k = 2130706433}}
      \cup {[s EXCEPT !.slices = n] : n \in SliceCounts}

\* Brightness, exposure and the like do not reach the encoder: one flag stands for them.
picture_settings(t, s) ==
  IF requires_rpi_libcamera_pipeline(t) \/ t \in 71 .. 76 THEN {[s EXCEPT !.iq = ~ @]} ELSE {}

get_all_settings(t, s) == encoder_settings(s) \cup picture_settings(t, s)

change_setting(i) ==
  /\ Up /\ i \in 1 .. Len(cams) /\ Update
  /\ \E s \in get_all_settings(cams[i].type, CameraSettings(i)) :
       files' = [files EXCEPT ![CamFile(i)] = s]
  /\ pipes' = [pipes EXCEPT ![i] = NoEncoder]
  /\ UNCHANGED << host, nodes, sensor, generic, cams, phase, boot >>

\* Mutant: the half bitrate of the HDMI adapter is forgotten for a running pipeline.
MutHacked(t, s) == s.kbits
hacked_bitrate_kbits(t, s) ==
  IF requires_half_bitrate_workaround(t, s) THEN s.kbits \div 2 ELSE s.kbits

\* A stream does not take less than its least bitrate from the link.
MinKbits == IF is_rpi THEN 2000 ELSE 1000
EncoderKbits(k) == IF k < MinKbits THEN MinKbits ELSE k

\* A new bitrate of the link: into the element, or by a restart if there is none.
change_bitrate(i) ==
  /\ Up /\ i \in 1 .. Len(cams) /\ pipes[i] /= NoEncoder /\ Update
  /\ \E k \in Kbits :
       LET t == cams[i].type
           s == [CameraSettings(i) EXCEPT !.kbits = EncoderKbits(k)]
           name == ControlName(t, CameraSettings(i))
           value == hacked_bitrate_kbits(t, s)
       IN  /\ files' = [files EXCEPT ![CamFile(i)] = s]
           /\ pipes' = IF ~HasElement(t, i, name) THEN [pipes EXCEPT ![i] = NoEncoder]
                       ELSE IF pipes[i].el /= name THEN pipes
                       ELSE [pipes EXCEPT ![i].rate = IF takes_kbit(name) THEN value ELSE bits(value)]
  /\ UNCHANGED << host, nodes, sensor, generic, cams, phase, boot >>

\* The CAMERA_TYPE parameters. sysutils may do what it is asked and answer too late.
requires_boot_config(primary, t) ==
  primary /\ ((is_rpi /\ is_rpi_csi_camera(t)) \/ (is_rock /\ is_rock_csi_camera(t)))

\* Mutant: a camera that needs no boot configuration is taken without a restart.
MutAccept(primary, t) ==
  /\ generic' = IF primary THEN [generic EXCEPT !.primary = t] ELSE [generic EXCEPT !.secondary = t]
  /\ phase' = IF requires_boot_config(primary, t) THEN "ending" ELSE phase

Accept(primary, t) ==
  /\ generic' = IF primary THEN [generic EXCEPT !.primary = t] ELSE [generic EXCEPT !.secondary = t]
  /\ phase' = "ending"

x_set_camera_type(primary) ==
  /\ Up /\ Update /\ ~is_x20 /\ host.platform /= "luckfox"
  /\ \E t \in CameraChoices[host.platform] :
       /\ IF primary THEN is_valid_primary_cam_type(t) ELSE is_valid_secondary_cam_type(t)
       /\ \/ /\ Accept(primary, t)
             /\ boot' = IF requires_boot_config(primary, t) THEN t ELSE boot
          \/ /\ requires_boot_config(primary, t)
             /\ boot' \in {boot, t}
             /\ UNCHANGED << generic, phase >>
  /\ UNCHANGED << host, nodes, sensor, files, cams, pipes >>

\* V_SWITCH_CAM waits for the next start.
set_switch ==
  /\ Up /\ Len(cams) = 2 /\ Update
  /\ generic' = [generic EXCEPT !.switch = ~ @]
  /\ UNCHANGED << host, nodes, sensor, files, cams, pipes, phase, boot >>

\* The end of the process, asked for or not; cameras may be plugged differently after.
stop ==
  /\ \/ phase = "up" /\ Update
     \/ phase = "ending" /\ UNCHANGED updates
  /\ phase' = "off"
  /\ cams' = << >>
  /\ pipes' = [i \in 1 .. 2 |-> NoEncoder]
  /\ nodes' \in Nodes /\ sensor' \in Sensors
  /\ UNCHANGED << host, generic, files, boot >>

CameraNext ==
  \/ start_cameras \/ stop \/ set_switch
  \/ \E i \in 1 .. 2 : setup(i) \/ change_setting(i) \/ change_bitrate(i)
  \/ \E primary \in BOOLEAN : x_set_camera_type(primary)

CameraSpec == CameraInit /\ [][CameraNext]_cameraVars

-----------------------------------------------------------------------------
(* Properties                                                              *)

Encoding(i) == i \in 1 .. Len(cams) /\ pipes[i] /= NoEncoder
Distance(a, b) == IF a < b THEN b - a ELSE a - b

\* The bitrate in the encoder of a running pipeline is the one a restart would give
\* it, to a kbit/s, whatever mix of settings, restarts and recommendations of the
\* link led there and whatever the unit of the element (change_bitrate and the
\* create...Stream functions). Not so for software encoding behind rpicamsrc.
EncoderFollowsBitrate ==
  \A i \in 1 .. 2 : Encoding(i) =>
    \/ requires_rpi_mmal_pipeline(cams[i].type) /\ pipes[i].el = "swencoder"
    \/ Distance(pipes[i].rate,
                create_source_encode_pipeline(cams[i].type, CameraSettings(i)).rate) <= 1000

\* A pipeline with assertions that has been built packs the codec it encodes
\* (create_parse_and_rtp_packetize after create_source_encode_pipeline). On the A733
\* the encoder ignores the codec.
CodecAgrees ==
  \A i \in 1 .. 2 : Encoding(i) /\ host.asserts /\ ~requires_a733_pipeline(cams[i].type)
    => pipes[i].codec = pipes[i].pay

\* Slices that the rows of macroblocks of a frame make.
Slices(height, rows) == ((height + 15) \div 16 + rows - 1) \div rows

\* The slices of a frame are never more than asked for: a slice has its rows rounded up
\* "to avoid extra slice" (gst_helper.hpp:298), whatever the height.
NoExtraSlice ==
  \A i \in 1 .. 2 : Encoding(i) /\ pipes[i].rows > 0 =>
    Slices(CameraSettings(i).fmt[2], pipes[i].rows) <= CameraSettings(i).slices

\* So it is unless the last row has less than 8 lines: ALIGN_UP adds the remainder, not
\* what is missing, and the division then loses that row (1600x900).
SlicesWithinRequest ==
  \A i \in 1 .. 2 :
    Encoding(i) /\ pipes[i].rows > 0 /\ CameraSettings(i).fmt[2] % 16 \notin 1 .. 7 =>
      Slices(CameraSettings(i).fmt[2], pipes[i].rows) <= CameraSettings(i).slices

\* All three: the encoder does what was set.
EncoderAsSet == EncoderFollowsBitrate /\ CodecAgrees /\ SlicesWithinRequest

\* Two USB cameras that were found are two devices, in whatever order they are used.
UsbCamerasApart ==
  Len(cams) = 2 /\ (\A i \in 1 .. 2 : is_usb_camera(cams[i].type))
    => cams[1].usb /= cams[2].usb \/ Len(detect_usb_cameras) < 2

\* Whatever camera types were accepted, the unit runs them or is about to restart;
\* on an X20 the file is ahead of the cameras by one start.
AcceptedTypeRuns ==
  phase = "up" /\ ~is_x20 =>
    {cams[i].type : i \in 1 .. Len(cams)} = {CamTypes(generic)[i] : i \in 1 .. Len(CamTypes(generic))}

\* Both: the cameras that run are those chosen.
CamerasAsChosen == UsbCamerasApart /\ AcceptedTypeRuns
=============================================================================
