----------------------------- MODULE RcJoystick -----------------------------
(***************************************************************************)
(* Remote control over the link: on the ground one thread reads the        *)
(* joystick (JoystickReader), another sends its position at a fixed rate   *)
(* (RcJoystickSender) through the telemetry queue of the link; on air the  *)
(* flight controller gets it, and enters its failsafe when nothing comes.  *)
(* Both threads live while ENABLE_JOY_RC is set. SDL, the stick and the    *)
(* radio are external.                                                     *)
(***************************************************************************)
EXTENDS Integers, Sequences, SequencesExt

CONSTANTS
  Positions,     \* positions of the stick
  Mappings,      \* values of RC_CHAN_MAP
  ValidMapping,  \* those that name 18 channels between 1 and 18
  TeleQueue,     \* packet_data_queue_size of the telemetry transmitter
  MaxStick       \* moves of the stick, changes of a parameter, SDL_QUIT, other telemetry

ASSUME MappingAssumption == ValidMapping \subseteq Mappings /\ "default" \in ValidMapping
ASSUME QueueAssumption == TeleQueue \in Nat \ {0} /\ MaxStick \in Nat

VARIABLES
  rcUse,    \* whether a joystick is looked at in this behaviour
  stick,    \* what is plugged in
  reader,   \* thread of JoystickReader, the stick it has open, its state
  sender,   \* thread of RcJoystickSender, what it holds, its channel mapping
  rcSet,    \* enable_rc_over_joystick, rc_channel_mapping as stored
  tele,     \* telemetry queue of the link
  fc,       \* the position the flight controller heard last
  moves

rcVars == << rcUse, stick, reader, sender, rcSet, tele, fc, moves >>

NoStick == [id |-> 0, pos |-> "centre"]
Reset == [connected |-> FALSE, pos |-> "centre"]       \* DEFAULT_RC_CHANNELS_VALUE
NoReader == [at |-> "none", js |-> 0, curr |-> Reset]
NoSender == [at |-> "none", held |-> Reset, map |-> "default"]

parsed_or_default(m) == IF m \in ValidMapping THEN m ELSE "default"

\* enable_joystick: both threads, unless they exist.
Enabled(on, m) ==
    [reader |-> IF on THEN [NoReader EXCEPT !.at = "wait"] ELSE NoReader,
     sender |-> IF on THEN [NoSender EXCEPT !.at = "idle", !.map = parsed_or_default(m)] ELSE NoSender]

RcInit ==
    /\ rcUse \in BOOLEAN
    /\ \E on \in BOOLEAN, m \in Mappings :
        /\ ~rcUse => ~on /\ m = "default"
        /\ rcSet = [on |-> on, map |-> m]
        /\ reader = Enabled(on, m).reader /\ sender = Enabled(on, m).sender
    /\ stick = NoStick
    /\ tele = << >> /\ fc = "none" /\ moves = 0

---------------------------------------------------------------------------
\* The world: a stick is plugged in, moved, pulled out.
Moved == rcUse /\ moves < MaxStick /\ moves' = moves + 1
use_stick ==
    /\ Moved
    /\ \/ stick.id = 0 /\ \E p \in Positions : stick' = [id |-> moves + 1, pos |-> p]
       \/ stick.id # 0 /\ stick' = NoStick
       \/ stick.id # 0 /\ \E p \in Positions : stick' = [stick EXCEPT !.pos = p]
    /\ UNCHANGED << rcUse, reader, sender, rcSet, tele, fc >>

\* connect_once_and_read_until_error, up to the loop: everything is asked
\* once. Without a stick the thread waits three seconds and tries again.
connect_once ==
    /\ reader.at = "wait" /\ stick.id # 0
    /\ reader' = [at |-> "read", js |-> stick.id, curr |-> [connected |-> TRUE, pos |-> stick.pos]]
    /\ UNCHANGED << rcUse, stick, sender, rcSet, tele, fc, moves >>

\* Mutant: the last position stays when the stick is gone.
MutResetCurrValues == reader.curr

reset_curr_values == Reset

\* A pass of the loop: events of the stick, then the checks that it is there.
read_joystick ==
    /\ reader.at = "read"
    /\ reader' = IF stick.id # reader.js
                 THEN [at |-> "wait", js |-> 0, curr |-> reset_curr_values]
                 ELSE [reader EXCEPT !.curr = [connected |-> TRUE, pos |-> stick.pos]]
    /\ UNCHANGED << rcUse, stick, sender, rcSet, tele, fc, moves >>

\* SDL_QUIT as the first event of a pass ends the thread for good.
sdl_quit ==
    /\ Moved /\ reader.at = "read"
    /\ reader' = [at |-> "ended", js |-> 0, curr |-> reset_curr_values]
    /\ UNCHANGED << rcUse, stick, sender, rcSet, tele, fc >>

\* send_data_until_terminate: the state is copied, then mapped and sent.
get_current_state ==
    /\ sender.at = "idle" /\ reader.curr.connected
    /\ sender' = [sender EXCEPT !.at = "send", !.held = reader.curr]
    /\ UNCHANGED << rcUse, stick, reader, rcSet, tele, fc, moves >>

\* enqueue_packet_dropping_with_type: the oldest packets make room.
Enqueue(q, packet) == Append(IF Len(q) = TeleQueue THEN Tail(q) ELSE q, packet)

transmit_telemetry_data(packet) == tele' = Enqueue(tele, packet)

send_rc ==
    /\ sender.at \in {"send", "last"}
    /\ transmit_telemetry_data([type |-> "rc", pos |-> sender.held.pos, map |-> sender.map])
    /\ sender' = [sender EXCEPT !.at = IF @ = "send" THEN "idle" ELSE "done"]
    /\ UNCHANGED << rcUse, stick, reader, rcSet, fc, moves >>

\* Other telemetry shares the queue.
send_telemetry ==
    /\ Moved
    /\ transmit_telemetry_data([type |-> "telemetry"])
    /\ UNCHANGED << rcUse, stick, reader, sender, rcSet, fc >>

\* The injecting thread; a packet may be lost.
inject_telemetry(received) ==
    /\ tele # << >>
    /\ tele' = Tail(tele)
    /\ fc' = IF received /\ Head(tele).type = "rc" THEN Head(tele).pos ELSE fc
    /\ UNCHANGED << rcUse, stick, reader, sender, rcSet, moves >>

---------------------------------------------------------------------------
(* The parameters.                                                         *)
Stopping == sender.at \in {"last", "stop", "done"}

enable_rc(on) ==
    /\ Moved /\ ~Stopping
    /\ rcSet' = [rcSet EXCEPT !.on = on]
    /\ IF on
       THEN IF sender.at # "none" THEN UNCHANGED << reader, sender >>
            ELSE /\ reader' = Enabled(TRUE, rcSet.map).reader
                 /\ sender' = Enabled(TRUE, rcSet.map).sender
       ELSE /\ sender' = [sender EXCEPT !.at = CASE @ = "send" -> "last" [] @ = "idle" -> "done" [] OTHER -> @]
            /\ UNCHANGED reader
    /\ UNCHANGED << rcUse, stick, tele, fc >>

\* ~RcJoystickSender: its own thread is joined first, then the reader's,
\* which may be in its three seconds.
join_threads ==
    /\ sender.at = "done"
    /\ reader' = NoReader /\ sender' = NoSender
    /\ UNCHANGED << rcUse, stick, rcSet, tele, fc, moves >>

set_mapping(m) ==
    /\ Moved /\ ~Stopping /\ m \in ValidMapping
    /\ rcSet' = [rcSet EXCEPT !.map = m]
    /\ sender' = IF sender.at = "none" THEN sender ELSE [sender EXCEPT !.map = m]
    /\ UNCHANGED << rcUse, stick, reader, tele, fc >>

RcNext ==
    \/ use_stick \/ connect_once \/ read_joystick \/ sdl_quit
    \/ get_current_state \/ send_rc \/ send_telemetry \/ join_threads
    \/ \E received \in BOOLEAN : inject_telemetry(received)
    \/ \E on \in BOOLEAN : enable_rc(on)
    \/ \E m \in Mappings : set_mapping(m)

RcFairness ==
    /\ WF_rcVars(connect_once) /\ WF_rcVars(read_joystick)
    /\ WF_rcVars(get_current_state) /\ WF_rcVars(send_rc) /\ WF_rcVars(join_threads)
    /\ WF_rcVars(inject_telemetry(TRUE) \/ inject_telemetry(FALSE)) /\ SF_rcVars(inject_telemetry(TRUE))

---------------------------------------------------------------------------
Sending == rcSet.on /\ reader.at \in {"wait", "read"} /\ stick.id # 0

(* The flight controller ends up with the position of the stick as long as  *)
(* it is there and enabled; once it is not, the link stops carrying         *)
(* positions, so that the failsafe can act (RcJoystickSender).              *)
RcFollowsStick ==
    /\ <>[]Sending => <>[](fc = stick.pos)
    /\ <>[](stick.id = 0 \/ ~rcSet.on) => <>[](\A i \in 1 .. Len(tele) : tele[i].type # "rc")
=============================================================================
