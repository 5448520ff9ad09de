--------------------------- MODULE MCWBLinkWorker ---------------------------
(***************************************************************************)
(* Instances of WBLinkWorker: an air unit with one card and a ground unit  *)
(* with two. Card 0 is an RTL_88X2AU with a profile for every level, card  *)
(* 1 another one without value for all but the lowest.                     *)
(***************************************************************************)
EXTENDS WBLinkWorker

Air == [is_air |-> TRUE, cards |-> 1, calls |-> 2]
Ground == [is_air |-> FALSE, cards |-> 2, calls |-> 1]
MCUnits == {Air, Ground}
MCCapable == [wide |-> TRUE, mcs |-> TRUE]
MCCardInfo ==
  [c \in Slots |->
    IF c = 0 THEN [mode |-> "", power |-> [l \in 0 .. 3 |-> IF l = 0 THEN 10 ELSE 60]]
             ELSE [mode |-> "INDEX", power |-> [l \in 0 .. 3 |-> IF l = 0 THEN 10 ELSE NoPower]]]
=============================================================================
