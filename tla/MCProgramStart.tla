--------------------------- MODULE MCProgramStart ---------------------------
(***************************************************************************)
(* main() with and without options over two starts; the sysutils client    *)
(* with one thread that lives through a start, and two that ask and report *)
(* at once while the daemon is restarted.                                  *)
(***************************************************************************)
EXTENDS ProgramStart

MCCommandLines == {<< >>, << "r", "t" >>, << "g", "r" >>}
MCHardware == {[card |-> TRUE, link |-> TRUE, camera |-> FALSE]}

Report(s) == [op |-> "report", state |-> s]
Ask(k) == [op |-> "request", kind |-> k]
Code(c) == [op |-> "status", code |-> c]
Just(o) == [op |-> o]

NoPlan == [use |-> FALSE, calls |-> << >>, restarts |-> 0, days |-> 0]
MCPlans ==
    { NoPlan,
      [use |-> TRUE, restarts |-> 1, days |-> 1,
       calls |-> [main |-> << Just("wait"), Report("BOOTING"), Ask("update"), Report("READY"), Report("READY"), Just("exit") >>]],
      [use |-> TRUE, restarts |-> 0, days |-> 1,
       calls |-> [main |-> << Report("READY"), Code("no_link"), Just("clear") >>,
                  link |-> << Code("no_link"), Code("no_link") >>]],
      [use |-> TRUE, restarts |-> 1, days |-> 0,
       calls |-> [main |-> << Ask("platform"), Ask("settings") >>, link |-> << Ask("camera") >>]],
      [use |-> TRUE, restarts |-> 1, days |-> 0,
       calls |-> [main |-> << Report("STOPPED"), Just("exit") >>, link |-> << Ask("cards") >>]] }
=============================================================================
