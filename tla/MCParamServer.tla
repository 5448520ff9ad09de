---------------------------- MODULE MCParamServer ----------------------------
(* The polled frequency, a read-only string, another queued and a direct one. *)
EXTENDS ParamServer

MCParams ==
  << [string |-> FALSE, callback |-> "queued", polled |-> TRUE],
     [string |-> TRUE, callback |-> "read_only", polled |-> FALSE],
     [string |-> FALSE, callback |-> "queued", polled |-> FALSE],
     [string |-> FALSE, callback |-> "direct", polled |-> FALSE] >>

MCDefaults == [p \in 1 .. Len(MCParams) |-> "a"]

=============================================================================
