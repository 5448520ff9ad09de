----------------------------- MODULE MessageBus -----------------------------
(***************************************************************************)
(* What the telemetry of an air and a ground unit promises: a message that *)
(* somebody has published is given to a consumer at most once, and only to *)
(* consumers the routing policy allows; a reply is published by a unit     *)
(* that has been given the request.                                        *)
(***************************************************************************)
EXTENDS Naturals

CONSTANTS Messages, Consumers, Allowed(_, _, _), Cause(_)

VARIABLES published,
          given,  \* << consumer, message >>
          again,  \* the same, given a second time
          echo    \* something outside gives what a unit sends back to it

busvars == << published, given, again, echo >>

Init == /\ echo \in BOOLEAN
        /\ published = {}
        /\ given = {} /\ again = {}

\* Messages may be published and given to several consumers in one step.
Publish == published \subseteq published' /\ published' \subseteq Messages

Give ==
  /\ given \subseteq given' /\ given' \subseteq Consumers \X Messages
  /\ \A d \in given' \ given : d[2] \in published' /\ Allowed(d[2], d[1], echo)
  /\ again' = {}

Answer == \A m \in published' \ published : Cause(m) \subseteq given'

Next == UNCHANGED echo /\ Publish /\ Give /\ Answer

Spec == Init /\ [][Next]_busvars
=============================================================================
