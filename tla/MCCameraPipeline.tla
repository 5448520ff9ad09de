------------------------- MODULE MCCameraPipeline -------------------------
(* Every platform with the cameras that take a pipeline of their own there. *)
EXTENDS CameraPipeline

Host(p) == [platform |-> p, sysutil |-> NoType, hdmi_v4l2 |-> FALSE, asserts |-> TRUE]
MCHosts ==
  {Host(p) : p \in {"rpi", "x20", "a733", "rk3566", "rock5a", "rock5b", "openipc", "xavier",
                    "qualcomm", "orqa", "nxp", "luckfox", "x86"}}
  \cup {[Host("rpi") EXCEPT !.hdmi_v4l2 = TRUE, !.asserts = FALSE],
        [Host("rpi") EXCEPT !.sysutil = 30], [Host("x86") EXCEPT !.sysutil = Filesrc]}
MCChoices ==
  [rpi |-> {0, 4, 10, 20, 30, 60, 255}, x20 |-> {}, a733 |-> {77, 0}, rk3566 |-> {0, 4, 95},
   rock5a |-> {82, 256}, rock5b |-> {81, 2}, openipc |-> {110, 3}, xavier |-> {101},
   qualcomm |-> {120}, orqa |-> {123}, nxp |-> {130}, luckfox |-> {}, x86 |-> {10, 11, 0}]
MCNodes == {{[dev |-> 0, bus |-> "a", raw |-> FALSE], [dev |-> 1, bus |-> "a", raw |-> TRUE],
             [dev |-> 2, bus |-> "b", raw |-> TRUE], [dev |-> 3, bus |-> "b", raw |-> TRUE]},
            {[dev |-> 0, bus |-> "b", raw |-> TRUE]}}
MCFormats == {<< 1280, 720, 49 >>, << 1920, 1080, 30 >>, << 0, 0, 0 >>, << -1, 480, 30 >>,
              << 1600, 900, 30 >>}
MCIntraTypes == {-1, 0, 3}
MCDefaultFormat == << 1280, 720, 60 >>
===========================================================================
