---------------------------- MODULE ProgramStart ----------------------------
(***************************************************************************)
(* main() and the socket it reports and asks through. Startup takes a      *)
(* request for one step that is answered or not, and a report for one that *)
(* ends; Sysutils looks into these steps. A behaviour is about one of them.*)
(***************************************************************************)
EXTENDS Startup, Sysutils

\* The part a behaviour is not about stays idle, in one of its initial states.
ProgramInit == Init /\ SysInit /\ (plan.use => su.up /\ ~su.reset /\ su.mode = None)

ProgramNext ==
    \/ ~plan.use /\ Next /\ UNCHANGED sysVars
    \/ plan.use /\ SysNext /\ UNCHANGED vars

ProgramSpec == ProgramInit /\ [][ProgramNext]_<< vars, sysVars >> /\ Fairness /\ SysFairness

(* What is called is there, in whatever order main() builds and destroys.   *)
ModulesThere == CallsReachModules /\ VideoHasLink

(* The program ends when it is to, and the threads in a request or report   *)
(* come out of it although the daemon does not answer.                      *)
ProgramEnds == TerminationCompletes /\ CallsReturn
=============================================================================
