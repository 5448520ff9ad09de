----------------------------- MODULE ParamServer -----------------------------
(***************************************************************************)
(* The mavlink parameter server of an OpenHD unit: XMavlinkParamProvider   *)
(* with its MavlinkParameterReceiver and MavlinkParameterSet.              *)
(*                                                                         *)
(* Two threads meet here.  The telemetry thread runs                       *)
(* process_mavlink_messages for every batch of messages it receives: it    *)
(* polls the settings that the program itself may change, handles the      *)
(* messages and sends answers.  The worker thread of the link executes the *)
(* one item of its queue and may change the polled settings on its own     *)
(* (it follows an announced channel, or finds one in a scan).              *)
(*                                                                         *)
(* A parameter is known by its position in the set.                        *)
(***************************************************************************)
EXTENDS Integers, Sequences, FiniteSetsExt

CONSTANTS
  Params,         \* the set in the order of add_param: is it a string, its
                  \* change callback, does it have a get callback
  Values,         \* values of parameters
  Defaults,       \* the settings when their parameters are added
  Invalid,        \* values that every change callback refuses
  PerTurn,        \* answers sent per batch (100)
  MaxRequests,    \* bound: requests of clients
  MaxLink,        \* bound: changes and items of the link's own
  MaxMisses       \* bound: requests that find the queue's lock taken by a
                  \* worker that only looks at the queue

N == Len(Params)
Ids == 1 .. N
Unknown == 0              \* an id that is not in the set
WrongType == "wrong type" \* a value of another type
NoValue == "no value"
NoIndex == -1

ASSUME ParamsAssumption ==
  Params \in Seq([string : BOOLEAN, callback : {"queued", "direct", "read_only"},
                  polled : BOOLEAN])
ASSUME ValuesAssumption ==
  /\ Invalid \subseteq Values /\ Defaults \in [Ids -> Values]
  /\ WrongType \notin Values /\ NoValue \notin Values
ASSUME BoundsAssumption ==
  /\ PerTurn \in Nat \ {0}
  /\ MaxRequests \in Nat /\ MaxLink \in Nat /\ MaxMisses \in Nat

Polled == {p \in Ids : Params[p].polled}

\* A plain set carries a number, which has the wrong type for a string.
Requests ==
  {r \in [op : {"set"}, ext : BOOLEAN, id : Ids \cup {Unknown}, value : Values \cup {WrongType}] :
     r.id # Unknown /\ Params[r.id].string /\ ~r.ext => r.value = WrongType}
    \cup [op : {"read_id"}, ext : BOOLEAN, id : Ids \cup {Unknown}]
    \cup [op : {"read_index"}, ext : BOOLEAN, index : 0 .. N]
    \cup [op : {"list"}, ext : BOOLEAN]
\* Heartbeats, and whatever is meant for another component.
Heartbeat == [op |-> "other"]

NoItem == [op |-> "none"]
SetItems == [op : {"set"}, id : Ids, value : Values, running : BOOLEAN]
OtherItems == [op : {"other"}, running : BOOLEAN]

VARIABLES
  value,      \* _all_params: value of each parameter
  setting,    \* what the program uses
  work,       \* the queue of the link's worker
  ready,      \* whether the handlers are registered
  pc,         \* process_mavlink_messages, or that the process has terminated
  msg,        \* the message at hand
  to_poll,    \* settings with a get callback that this call has not polled yet
  at, polled, \* the parameter being polled, and what its get callback returned
  answers,    \* _work_queue
  view,       \* value in the last answer sent about each parameter
  throttled,  \* less than a second since the last list
  accepted,   \* history: last accepted value of each parameter, unless the
              \* link has replaced it since
  requests, link, misses

serverVars == <<ready, pc, msg, to_poll, at, polled>>
answerVars == <<answers, view, throttled>>
vars == <<value, setting, work, serverVars, answerVars, accepted, requests, link, misses>>

-----------------------------------------------------------------------------
(***************************************************************************)
(* MavlinkParameterSet.                                                    *)
(***************************************************************************)

\* The parameters a protocol can show.
Shown(ext) == {p \in Ids : ext \/ ~Params[p].string}

\* _param_index_to_hidden_extended: the plain protocol counts without strings.
IndexOf(p, ext) == IF ext THEN p - 1 ELSE Cardinality({q \in Shown(FALSE) : q < p})

\* list_all_parameters: in the order they were added.
Listed(ext) ==
  CHOOSE list \in [1 .. Cardinality(Shown(ext)) -> Shown(ext)] :
    \A i, j \in DOMAIN list : i < j => list[i] < list[j]

\* lookup_parameter by id and by index: the index counts all parameters,
\* whatever the protocol.
LookupId(id, ext) == {id} \cap Shown(ext)
LookupIndex(index, ext) == {index + 1} \cap Shown(ext)

\* try_schedule_work_item
SetItem(p, v) == [op |-> "set", id |-> p, value |-> v, running |-> FALSE]

\* Whether the change callback returns true.
Accepts(p, v) ==
  /\ v \notin Invalid
  /\ \/ Params[p].callback = "direct"
     \/ Params[p].callback = "queued" /\ work = NoItem

\* update_existing_parameter for an id of the set and a value of its type.
Updated(p, v) ==
  /\ v # value[p]
  /\ Accepts(p, v)
  /\ value' = [value EXCEPT ![p] = v]
  /\ IF Params[p].callback = "queued"
     THEN work' = SetItem(p, v) /\ UNCHANGED setting
     ELSE setting' = [setting EXCEPT ![p] = v] /\ UNCHANGED work
  /\ UNCHANGED misses

\* The lock of the queue was taken.
Missed(p, v) ==
  /\ v # value[p]
  /\ Params[p].callback = "queued"
  /\ Accepts(p, v)
  /\ misses < MaxMisses
  /\ misses' = misses + 1
  /\ UNCHANGED <<value, setting, work>>

NotUpdated(p, v) ==
  \/ v = value[p] /\ UNCHANGED <<value, setting, work, misses>>
  \/ v # value[p] /\ ~Accepts(p, v) /\ UNCHANGED <<value, setting, work, misses>>
  \/ Missed(p, v)

-----------------------------------------------------------------------------
(***************************************************************************)
(* MavlinkParameterReceiver.                                               *)
(***************************************************************************)

\* Mutant: what the program uses of a polled parameter is told at once.
MutValueAnswer(p, ext, v, asked) ==
  [param |-> p, value |-> IF Params[p].polled THEN setting[p] ELSE v, ext |-> ext,
   index |-> IndexOf(p, ext), ack |-> "none", asked |-> asked]

\* Items of _work_queue: a value with its index, or an ack of the extended
\* protocol.  "asked" records the index the client asked for.
ValueAnswer(p, ext, v, asked) ==
  [param |-> p, value |-> v, ext |-> ext, index |-> IndexOf(p, ext), ack |-> "none",
   asked |-> asked]
AckAnswer(p, v, ack) ==
  [param |-> p, value |-> v, ext |-> TRUE, index |-> NoIndex, ack |-> ack, asked |-> NoIndex]

SetAnswer(p, v, ack) ==
  IF msg.ext THEN AckAnswer(p, v, ack) ELSE ValueAnswer(p, FALSE, v, NoIndex)

Handling(op) == pc = "handle" /\ ready /\ msg.op = op
Handled ==
  /\ pc' = "send" /\ msg' = Heartbeat
  /\ UNCHANGED <<ready, to_poll, at, polled, view, requests, link>>

\* A set of an unknown id is not answered.
process_param_set_missing ==
  /\ Handling("set")
  /\ msg.id = Unknown
  /\ Handled
  /\ UNCHANGED <<value, setting, work, answers, throttled, accepted, misses>>

process_param_set_wrong_type ==
  /\ Handling("set")
  /\ msg.id \in Shown(msg.ext) /\ msg.value = WrongType
  /\ answers' = Append(answers, SetAnswer(msg.id, value[msg.id], "FAILED"))
  /\ Handled
  /\ UNCHANGED <<value, setting, work, throttled, accepted, misses>>

\* A plain set of a string: the update says wrong type, but the parameter that
\* the answer should tell is not one the plain protocol can look up.  The empty
\* optional throws, and no thread of the telemetry catches it.
process_param_set_hidden ==
  /\ Handling("set")
  /\ msg.id \in Ids \ Shown(msg.ext)
  /\ pc' = "terminated"
  /\ UNCHANGED <<value, setting, work, ready, msg, to_poll, at, polled, answerVars, accepted,
                 requests, link, misses>>

\* Mutant: the parameter as looked up before the update.
MutProcessParamSetSuccess ==
  /\ Handling("set")
  /\ msg.id # Unknown /\ msg.value # WrongType
  /\ Updated(msg.id, msg.value)
  /\ answers' = Append(answers, SetAnswer(msg.id, value[msg.id], "ACCEPTED"))
  /\ accepted' = [accepted EXCEPT ![msg.id] = msg.value]
  /\ Handled
  /\ UNCHANGED throttled

process_param_set_success ==
  /\ Handling("set")
  /\ msg.id # Unknown /\ msg.value # WrongType
  /\ Updated(msg.id, msg.value)
  /\ answers' = Append(answers, SetAnswer(msg.id, msg.value, "ACCEPTED"))
  /\ accepted' = [accepted EXCEPT ![msg.id] = msg.value]
  /\ Handled
  /\ UNCHANGED throttled

\* NO_CHANGE is accepted, too; REJECTED is not.
process_param_set_no_update ==
  /\ Handling("set")
  /\ msg.id # Unknown /\ msg.value # WrongType
  /\ NotUpdated(msg.id, msg.value)
  /\ answers' = Append(answers, SetAnswer(msg.id, value[msg.id],
                  IF msg.value = value[msg.id] THEN "ACCEPTED" ELSE "VALUE_UNSUPPORTED"))
  /\ Handled
  /\ UNCHANGED <<throttled, accepted>>

\* A read of an unknown or hidden parameter is not answered.
process_param_request_read ==
  /\ pc = "handle" /\ ready /\ msg.op \in {"read_id", "read_index"}
  /\ LET found == IF msg.op = "read_id" THEN LookupId(msg.id, msg.ext)
                  ELSE LookupIndex(msg.index, msg.ext)
         asked == IF msg.op = "read_id" THEN NoIndex ELSE msg.index
     IN \/ found = {} /\ UNCHANGED answers
        \/ \E p \in found :
             answers' = Append(answers, ValueAnswer(p, msg.ext, value[p], asked))
  /\ Handled
  /\ UNCHANGED <<value, setting, work, throttled, accepted, misses>>

\* broadcast_all_parameters: at most one list a second, of either protocol.
process_param_request_list ==
  /\ Handling("list")
  /\ IF throttled THEN UNCHANGED answers
     ELSE answers' = answers \o [i \in 1 .. Len(Listed(msg.ext)) |->
            [ValueAnswer(Listed(msg.ext)[i], msg.ext, value[Listed(msg.ext)[i]], NoIndex)
               EXCEPT !.index = i - 1]]
  /\ throttled' = TRUE
  /\ Handled
  /\ UNCHANGED <<value, setting, work, accepted, misses>>

ignore_message ==
  /\ pc = "handle"
  /\ ~ready \/ msg = Heartbeat
  /\ Handled
  /\ UNCHANGED <<value, setting, work, answers, throttled, accepted, misses>>

Running == pc # "terminated"

a_second_passes ==
  /\ Running /\ throttled
  /\ throttled' = FALSE
  /\ UNCHANGED <<value, setting, work, serverVars, answers, view, accepted, requests, link,
                 misses>>

-----------------------------------------------------------------------------
(***************************************************************************)
(* XMavlinkParamProvider.                                                  *)
(***************************************************************************)

set_ready ==
  /\ ~ready /\ pc = "idle"
  /\ ready' = TRUE
  /\ UNCHANGED <<value, setting, work, pc, msg, to_poll, at, polled, answerVars, accepted, requests,
                 link, misses>>

Take(m) ==
  /\ msg' = m
  /\ requests' = IF m = Heartbeat THEN requests ELSE requests + 1
  /\ UNCHANGED <<value, setting, work, ready, at, polled, answerVars, accepted, link, misses>>

\* Mutant: the settings are polled for requests only.
MutReceive(m) ==
  /\ pc = "idle"
  /\ pc' = "poll" /\ to_poll' = IF m = Heartbeat THEN {} ELSE Polled
  /\ Take(m)

\* A batch of messages arrives: its first message, ...
receive(m) ==
  /\ pc = "idle"
  /\ pc' = "poll" /\ to_poll' = Polled
  /\ Take(m)

\* ... and another one.
receive_another(m) ==
  /\ pc = "send"
  /\ pc' = "handle" /\ UNCHANGED to_poll
  /\ Take(m)

\* The setting is compared with the parameter, ...
poll_get(p) ==
  /\ pc = "poll" /\ p \in to_poll
  /\ to_poll' = to_poll \ {p}
  /\ IF value[p] # setting[p]
     THEN at' = p /\ polled' = setting[p] /\ pc' = "update"
     ELSE UNCHANGED <<at, polled, pc>>
  /\ UNCHANGED <<value, setting, work, ready, msg, answerVars, accepted, requests, link, misses>>

\* ... and the parameter updated, which runs its change callback.  Nothing is
\* sent.
poll_update ==
  /\ pc = "update"
  /\ Updated(at, polled) \/ NotUpdated(at, polled)
  /\ pc' = "poll" /\ at' = Unknown /\ polled' = NoValue
  /\ UNCHANGED <<ready, msg, to_poll, answerVars, accepted, requests, link>>

poll_done ==
  /\ pc = "poll" /\ to_poll = {}
  /\ pc' = "handle"
  /\ UNCHANGED <<value, setting, work, ready, msg, to_poll, at, polled, answerVars, accepted,
                 requests, link, misses>>

\* do_work, PerTurn times.
send_answers ==
  LET n == Min({PerTurn, Len(answers)})
      about(p) == {i \in 1 .. n : answers[i].param = p}
  IN /\ pc = "send"
     /\ view' = [p \in Ids |-> IF about(p) = {} THEN view[p] ELSE answers[Max(about(p))].value]
     /\ answers' = SubSeq(answers, n + 1, Len(answers))
     /\ pc' = "idle"
     /\ UNCHANGED <<value, setting, work, ready, msg, to_poll, at, polled, throttled, accepted, requests,
                    link, misses>>

-----------------------------------------------------------------------------
(***************************************************************************)
(* The link's worker thread.                                               *)
(***************************************************************************)

\* An item of a change callback stores the setting first, ...
worker_begin ==
  /\ Running /\ work # NoItem /\ ~work.running
  /\ setting' = IF work.op = "set" THEN [setting EXCEPT ![work.id] = work.value] ELSE setting
  /\ work' = [work EXCEPT !.running = TRUE]
  /\ UNCHANGED <<value, serverVars, answerVars, accepted, requests, link, misses>>

\* ... retunes the cards or sleeps, which takes longer than the poll needs
\* from one line to the next, and is then taken off the queue.
worker_end ==
  /\ Running /\ work # NoItem /\ work.running
  /\ pc # "update"
  /\ work' = NoItem
  /\ UNCHANGED <<value, setting, serverVars, answerVars, accepted, requests, link, misses>>

\* Another item, such as a scan.
schedule_other ==
  /\ Running /\ link < MaxLink
  /\ work = NoItem
  /\ work' = [op |-> "other", running |-> FALSE]
  /\ link' = link + 1
  /\ UNCHANGED <<value, setting, serverVars, answerVars, accepted, requests, misses>>

Waiting(p) == work.op = "set" /\ work.id = p

\* The worker follows an announced channel, or a scan finds one; it may be
\* one that the change callback would refuse.
link_adopts(p, v) ==
  /\ Running /\ link < MaxLink
  /\ ~(work.op = "set" /\ work.running)
  /\ v # setting[p]
  /\ setting' = [setting EXCEPT ![p] = v]
  /\ accepted' = IF Waiting(p) THEN accepted ELSE [accepted EXCEPT ![p] = NoValue]
  /\ link' = link + 1
  /\ UNCHANGED <<value, work, serverVars, answerVars, requests, misses>>

-----------------------------------------------------------------------------

Init ==
  /\ setting = Defaults
  /\ value = setting
  /\ accepted = setting
  /\ work = NoItem
  /\ ready = FALSE
  /\ pc = "idle" /\ msg = Heartbeat /\ to_poll = {} /\ at = Unknown /\ polled = NoValue
  /\ answers = <<>> /\ view = [p \in Ids |-> NoValue] /\ throttled = FALSE
  /\ requests = 0 /\ link = 0 /\ misses = 0

HandleMessage ==
  \/ process_param_set_missing
  \/ process_param_set_wrong_type
  \/ process_param_set_hidden
  \/ process_param_set_success
  \/ process_param_set_no_update
  \/ process_param_request_read
  \/ process_param_request_list
  \/ ignore_message

\* What process_mavlink_messages does on its own once it is called.
ProcessStep == (\E p \in Polled : poll_get(p)) \/ poll_update \/ poll_done \/ HandleMessage \/ send_answers

NewRequest ==
  /\ requests < MaxRequests
  /\ \E m \in Requests : receive(m) \/ receive_another(m)

Next ==
  \/ set_ready
  \/ ProcessStep
  \/ receive(Heartbeat)
  \/ NewRequest
  \/ a_second_passes
  \/ worker_begin
  \/ worker_end
  \/ schedule_other
  \/ \E p \in Polled, v \in Values : link_adopts(p, v)

\* Ground stations and the other unit send heartbeats all the time; the two
\* threads run.  An item ends whatever the polls do, which only span an
\* instant each: strong fairness.
Fairness ==
  /\ WF_vars(ProcessStep) /\ WF_vars(receive(Heartbeat))
  /\ WF_vars(worker_begin) /\ SF_vars(worker_end)
  /\ WF_vars(set_ready)

Spec == Init /\ [][Next]_vars /\ Fairness

-----------------------------------------------------------------------------
(***************************************************************************)
(* Properties.                                                             *)
(***************************************************************************)

CoreType ==
  /\ value \in [Ids -> Values] /\ setting \in [Ids -> Values]
  /\ accepted \in [Ids -> Values \cup {NoValue}]
  /\ work \in {NoItem} \cup SetItems \cup OtherItems
  /\ pc \in {"idle", "poll", "update", "handle", "send", "terminated"}
  /\ msg \in Requests \cup {Heartbeat}
  /\ to_poll \subseteq Polled
  /\ at \in Polled \cup {Unknown} /\ polled \in Values \cup {NoValue}
  /\ pc = "update" => at \in Polled /\ polled \in Values

\* The variables of the server, its answers and the link have their types.
TypeOK ==
  /\ CoreType
  /\ ready \in BOOLEAN /\ throttled \in BOOLEAN
  /\ \A i \in 1 .. Len(answers) :
       /\ answers[i].param \in Ids /\ answers[i].value \in Values
       /\ answers[i].index \in NoIndex .. N - 1
  /\ view \in [Ids -> Values \cup {NoValue}]
  /\ requests \in 0 .. MaxRequests /\ link \in 0 .. MaxLink /\ misses \in 0 .. MaxMisses

\* What the setting will be once a waiting item has run.
Target(p) == IF Waiting(p) THEN work.value ELSE setting[p]

\* A value the server accepted is what the program uses or is about to use, and
\* what the server reports, until a client sets another one or the link
\* replaces it: the poll, which compares a parameter with a setting that its
\* item has not stored yet and then calls the change callback with the old
\* value, never undoes the change of a user.
AcceptedKept ==
  \A p \in Ids : accepted[p] # NoValue => value[p] = accepted[p] /\ Target(p) = accepted[p]

AnswersAbout(p) == {i \in 1 .. Len(answers) : answers[i].param = p}

\* The last answer about a parameter that only clients change carries its
\* value, whatever sets, rejections and lists were queued in between: a client
\* that gets all answers ends up with what the unit uses.
LatestAnswerCurrent ==
  \A p \in Ids \ Polled :
    IF AnswersAbout(p) # {} THEN answers[Max(AnswersAbout(p))].value = value[p]
    ELSE view[p] \in {NoValue, value[p]}

\* In one protocol, an index stands for one parameter and a parameter has one
\* index, whether it comes with a list, a read or a set.
IndexIdentifies ==
  \A i, j \in 1 .. Len(answers) :
    answers[i].ack = "none" /\ answers[j].ack = "none" /\ answers[i].ext = answers[j].ext
      => (answers[i].param = answers[j].param <=> answers[i].index = answers[j].index)

\* Both: what clients are told identifies a parameter and its value.
AnswersAgree == LatestAnswerCurrent /\ IndexIdentifies

Store == INSTANCE ParamStore WITH
           Changing <- Polled, store <- value, use <- [p \in Ids |-> Target(p)],
           mine <- {p \in Ids : accepted[p] # NoValue}, mail <- answers, told <- view

\* The poll, the messages, the link's worker and its own changes together are one
\* store: each step is one of a store's or none, so that a set takes effect and is
\* told at one moment, although its item is stored later; and what the store holds
\* of a client's is what that client set.
ActsLikeAStore == Store!Spec /\ []AcceptedKept

\* A setting that the link changed reaches the parameter, although the poll
\* may be refused while the queue is busy, unless the change callback would
\* not allow a client to set that value.
ParamConverges == <>[](\A p \in Polled : value[p] = setting[p] \/ setting[p] \in Invalid)

\* All answers are sent: in the end, a client that asked has the value of every
\* parameter that only clients change.
AnswersArrive == <>[](answers = <<>> /\ \A p \in Ids \ Polled : view[p] \in {NoValue, value[p]})

\* Both, as long as no client sets a string with the plain protocol: the link's
\* values reach the server and the server's its clients.
ClientsServed == []Running => ParamConverges /\ AnswersArrive

\* No message a client may send ends the process.  It does not hold: a plain
\* set of a string parameter does (process_param_set_hidden).
NoRequestTerminates == Running

\* A read by index is answered with the parameter of that index.  It does not
\* hold: a plain read counts the string parameters, a plain list does not.
ReadByIndexIsListed ==
  \A i \in 1 .. Len(answers) : answers[i].asked # NoIndex => answers[i].index = answers[i].asked

=============================================================================
