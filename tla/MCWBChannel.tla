---------------------------- MODULE MCWBChannel ----------------------------
(***************************************************************************)
(* Two channels, one of which the ground unit's card does not support: of  *)
(* the three kinds of scan one visits an unsupported channel, one a        *)
(* supported one and one none.                                             *)
(***************************************************************************)
EXTENDS WBChannel

MCAirCard == [type |-> "88x2au", iw |-> {}, answers |-> FALSE, x20 |-> TRUE]
MCGndCard == [type |-> "other", iw |-> {5180}, answers |-> TRUE, x20 |-> FALSE]
MCGndCards == {MCGndCard}
=============================================================================
