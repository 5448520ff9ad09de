--------------------------- MODULE MCLinkTraffic ----------------------------
(***************************************************************************)
(* Frames of one and of two cameras over each link, in both codecs, from   *)
(* RTP and from the raw stream; the audio thread; remote control; the      *)
(* parameters of an air and of a ground unit.                              *)
(***************************************************************************)
EXTENDS LinkTraffic

Path == [use |-> TRUE, cams |-> {0}, codec |-> "h264", link |-> "wb", raw |-> FALSE, intra |-> FALSE,
         record_only |-> FALSE, switch |-> FALSE, slices |-> 3, restarts |-> 1, gates |-> 0, audio |-> 0]

MCPaths ==
    { [Path EXCEPT !.use = FALSE], Path,
      [Path EXCEPT !.gates = 2, !.switch = TRUE],
      [Path EXCEPT !.codec = "h265", !.intra = TRUE, !.switch = TRUE],
      [Path EXCEPT !.cams = {0, 1}, !.slices = 2, !.restarts = 0],
      [Path EXCEPT !.cams = {0, 1}, !.slices = 2, !.restarts = 0, !.link = "ethernet"],
      [Path EXCEPT !.cams = {0, 1}, !.slices = 1, !.restarts = 0, !.link = "microhard"],
      [Path EXCEPT !.raw = TRUE, !.slices = 4, !.switch = TRUE],
      [Path EXCEPT !.record_only = TRUE, !.slices = 1],
      [Path EXCEPT !.slices = 0, !.restarts = 0, !.audio = 3] }

MCShapes == { << "single" >>, << "start", "end" >>, << "start", "middle", "end" >> }

Change == [use |-> TRUE, air |-> TRUE, stbc_ldpc_sgi |-> TRUE,
           params |-> {<< "video", 50 >>, << "video", 500 >>, << "telemetry", 20 >>, << "rc", 5 >>}]
MCChanges ==
    { [Change EXCEPT !.use = FALSE, !.params = {}], Change,
      [Change EXCEPT !.params = {<< "stbc", 2 >>, << "stbc", 4 >>, << "ldpc", 1 >>, << "sgi", 1 >>,
                                 << "high_retransmit", 1 >>, << "rtx", 1 >>, << "rtx_video", 1 >>}],
      [Change EXCEPT !.params = {<< "fec", 0 >>, << "fec", 50 >>, << "qp_max", 52 >>, << "qp_min", 0 >>,
                                 << "rate_percent", 5 >>, << "block", 200 >>}],
      [Change EXCEPT !.air = FALSE,
                     !.params = {<< "retries", 3 >>, << "retries", 0 >>, << "redundant", 1 >>,
                                 << "rtx_telemetry", 1 >>, << "rtx_rc", 1 >>, << "fec", 50 >>,
                                 << "telemetry", 20 >>}] }
=============================================================================
