---------------------------- MODULE LinkTraffic -----------------------------
(***************************************************************************)
(* What crosses the link, composed: the video and audio path, remote       *)
(* control, and the parameters of the link that act on both without the    *)
(* worker. They share the process and the link object, not their state, so *)
(* a step of one leaves the others alone.                                  *)
(***************************************************************************)
EXTENDS VideoPath, RcJoystick, WBLinkSettings

vars == << videoVars, rcVars, linkVars >>

\* One question at a time: the parts that a behaviour is not about stay idle.
Init ==
    /\ VideoInit /\ RcInit /\ LinkInit
    /\ \/ path.use /\ ~rcUse /\ ~change.use
       \/ ~path.use /\ rcUse /\ ~change.use
       \/ ~path.use /\ ~rcUse /\ change.use

Next ==
    \/ path.use /\ VideoNext /\ UNCHANGED << rcVars, linkVars >>
    \/ rcUse /\ RcNext /\ UNCHANGED << videoVars, linkVars >>
    \/ change.use /\ LinkNext /\ UNCHANGED << videoVars, rcVars >>

\* Every thread of the program is scheduled again and again; the radio
\* delivers some packet of an unending stream, the microphone's pipeline can
\* be built when its device is there.
Spec ==
    /\ Init /\ [][Next]_vars
    /\ RcFairness /\ LinkFairness /\ AudioFairness

(* The streams that nothing repeats end on what is so now: remote control   *)
(* on the stick, audio on the setting.                                      *)
LiveStreams == RcFollowsStick /\ AudioSettles
=============================================================================
