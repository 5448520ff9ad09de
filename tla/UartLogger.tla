----------------------------- MODULE UartLogger -----------------------------
(* The Mavlink monitor of OpenHD/tools/mavlink_uart_logger: one thread that  *)
(* reads the serial port or UDP socket, lists every message by its sender    *)
(* and id, sends pings of its own (--loop) or random messages (--transmit)   *)
(* and handles one key per turn of its loop.                                 *)
(*                                                                           *)
(* One turn of the loop is the sequence of actions read, auto_transmit,      *)
(* expire, clamp, key; time passes in units of the ping interval, and the    *)
(* age of a ping is counted up to the timeout.  The peer may echo a ping     *)
(* late, twice or never, and a write may fail.                               *)
EXTENDS Integers, FiniteSets, FiniteSetsExt

CONSTANTS
    Keys,        \* the <<sysid, compid, msgid>> that other systems send
    Lens,        \* payload lengths as received (trailing zeros are cut)
    Fields,      \* the layout: [offset, size, count] of every field
    Generated,   \* message ids of the three OpenHD messages that can be made up
    Options,     \* command lines
    Udp,         \* BOOLEAN: socket instead of serial port
    Timeout,     \* loop_timeout, in units of loop_interval
    Heights,     \* terminal rows left for the two tables
    MaxPings,    \* bound on the pings sent
    MaxReads     \* bound on the messages received

ASSUME LoggerAssumption ==
    /\ Keys \subseteq (Nat \X Nat \X Nat)
    /\ Lens \subseteq Nat /\ Heights \subseteq Nat
    /\ Fields \subseteq [offset: Nat, size: {1, 2, 4, 8}, count: Nat]
    /\ Generated \subseteq Nat /\ Udp \in BOOLEAN
    /\ Options \subseteq [transmit: BOOLEAN, loop: BOOLEAN, port: Int, baud: Nat,
                        device: {"given", "serial", "ttyS", "none"}]
    /\ Timeout \in Nat /\ MaxPings \in Nat /\ MaxReads \in Nat

None == -1
OwnPing == <<1, 1, 4>>        \* key of a PING with the default --sysid and --compid

VARIABLES
    mode,        \* what the command line asked for
    pc,          \* where in its turn the loop is
    messages,    \* messages: key -> length of the newest message
    filter,      \* FilterState
    nav,         \* NavigationState
    inflight,    \* loop_inflight: sequence number -> age
    seq,         \* loop_sequence
    pingSeq,     \* the static sequence of send_ping
    stats,       \* LoopStats
    wait,        \* intervals until next_loop_transmit or next_transmit
    wire,        \* sequence numbers of the pings that reached the peer
    sender,      \* a peer address is known (udp_last_sender)
    reads        \* messages received so far

monitorVars == <<mode, pc, messages, filter, nav, inflight, seq, pingSeq, stats, wait, wire,
                 sender, reads>>

NoFilter == [sys |-> None, comp |-> None, msg |-> None]
NoStats == [sent |-> 0, received |-> 0, matched |-> 0, lost |-> 0, unexpected |-> 0]

-----------------------------------------------------------------------------
(* Pure parts: the command line, the table, the filter, the decoder.        *)

\* The baud rates a serial port can be opened with.
baudrate_to_constant ==
    {50, 75, 110, 134, 150, 200, 300, 600, 1200, 1800, 2400, 4800, 9600, 19200, 38400,
     57600, 115200, 230400, 460800, 500000, 576000, 921600, 1000000, 1500000, 2000000}

\* A device is the one given, else the first /dev/serial*, else the first /dev/ttyS*.
find_default_serial_device(o) == o.device # "none"

\* The command lines with which the program gets as far as its loop; a baud
\* rate of 0 stands for the default.
Starts(o) ==
    /\ ~(o.transmit /\ o.loop)
    /\ Udp => o.port \in 1..65535
    /\ ~Udp => /\ find_default_serial_device(o)
               /\ o.baud \in {0} \cup baudrate_to_constant

ModeOf(o) == IF o.loop THEN "loop" ELSE IF o.transmit THEN "transmit" ELSE "listen"

\* What the decoder prints of one field of a message with len bytes: nothing, or
\* the number of elements it reads, and whether it marks the rest as cut.
decode_field(f, len) ==
    LET available == len - f.offset
        elements  == IF f.count > 0 THEN f.count ELSE 1
        readable  == IF available \div f.size < elements THEN available \div f.size
                                                           ELSE elements
    IN  IF f.offset >= len THEN [read |-> 0, mark |-> "missing"]
        ELSE [read |-> readable, mark |-> IF readable < elements THEN "cut" ELSE "full"]

Passes(k) ==
    /\ filter.sys # None => k[1] = filter.sys
    /\ filter.comp # None => k[2] = filter.comp
    /\ filter.msg # None => k[3] = filter.msg

\* The entries of the two tables. They are listed by system, component and message
\* id, in the order of the map, so a row is a position among that many.
gather_sorted_entries == DOMAIN messages
filter_entries == {k \in gather_sorted_entries : Passes(k)}

collect_sysids == {k[1] : k \in DOMAIN messages}
collect_compids(s) == {k[2] : k \in {j \in DOMAIN messages : j[1] = s}}
collect_msgids(s, c) == {k[3] : k \in {j \in DOMAIN messages : j[1] = s /\ j[2] = c}}

\* The next value of a filter: none, the first, ..., the last, none again.
cycle_optional(values, current) ==
    LET above == {v \in values : v > current}
    IN  IF values = {} THEN None
        ELSE IF current \notin values THEN Min(values)
        ELSE IF above = {} THEN None ELSE Min(above)

Clamped(i, n) == IF i < n THEN i ELSE IF n = 0 THEN 0 ELSE n - 1

\* The rows render_table draws of its entries, and the row it highlights: the window
\* scrolls so that the selected row is its last one.
Window(entries, selected, height, focus) ==
    LET n     == Cardinality(entries)
        sel   == Clamped(selected, n)
        start == IF focus /\ height > 0 /\ n > height /\ sel >= height
                 THEN sel - height + 1 ELSE 0
    IN  [shown |-> {i \in 0..(n - 1) : start <= i /\ i < start + height},
         sel |-> sel]

\* A table takes three rows for its head and keeps one free below; rest is
\* what is left of the terminal.
render_table(entries, selected, rows, focus) ==
    LET w == Window(entries, selected, IF rows > 4 THEN rows - 4 ELSE 0, focus)
    IN  [shown |-> w.shown,
         rest  |-> Max({0, rows - 4 - Max({1, Cardinality(w.shown)})})]

\* The screen: all messages, then what the filter leaves of them, if there is
\* room, then the message that is selected.
render_ui(rows) ==
    LET all == render_table(gather_sorted_entries, nav.all, rows, ~nav.focus)
        filtered == render_table(filter_entries, nav.filtered, all.rest - 1, nav.focus)
    IN  [all |-> all.shown,
         filtered |-> IF all.rest = 0 \/ filter = NoFilter THEN {} ELSE filtered.shown]

-----------------------------------------------------------------------------
MonitorInit ==
    /\ mode \in {ModeOf(o) : o \in {p \in Options : Starts(p)}}
    /\ pc = "read"
    /\ messages = << >> /\ filter = NoFilter
    /\ nav = [interactive |-> TRUE, focus |-> FALSE, all |-> 0, filtered |-> 0]
    /\ inflight = << >> /\ seq = 0 /\ pingSeq = 0 /\ stats = NoStats
    /\ wait = IF mode = "listen" THEN 0 ELSE 1
    /\ wire = {} /\ sender = FALSE /\ reads = 0

record_message(k, len) ==
    messages' = [x \in DOMAIN messages \cup {k} |-> IF x = k THEN len ELSE messages[x]]

Older(age) == IF age > Timeout THEN age ELSE age + 1

\* Time passes between two turns: every ping ages, the next one comes closer.
Elapse(d) ==
    /\ inflight' = [q \in DOMAIN inflight |-> IF d = 1 THEN Older(inflight[q]) ELSE inflight[q]]
    /\ wait' = IF d = 1 /\ wait > 0 THEN wait - 1 ELSE wait

\* Nothing arrived (EAGAIN); d is the time that has passed.
read_nothing ==
    /\ pc = "read"
    /\ \E d \in {0, 1} : Elapse(d)
    /\ pc' = "send"
    /\ UNCHANGED <<messages, filter, nav, seq, pingSeq, stats, wire, sender, reads>>

\* Any other error ends the program.
read_error ==
    /\ pc = "read" /\ pc' = "exit"
    /\ UNCHANGED <<messages, filter, nav, inflight, seq, pingSeq, stats, wait, wire,
                   sender, reads>>

read_message ==
    /\ pc = "read" /\ reads < MaxReads
    /\ \E k \in Keys, len \in Lens : record_message(k, len)
    /\ sender' = TRUE /\ reads' = reads + 1 /\ pc' = "send"
    /\ UNCHANGED <<filter, nav, inflight, seq, pingSeq, stats, wait, wire>>

\* In loop mode a ping is counted as the echo of the ping of that number, if
\* that one is still awaited.
read_ping ==
    /\ pc = "read" /\ reads < MaxReads
    /\ \E q \in wire, len \in Lens :
        /\ record_message(OwnPing, len)
        /\ IF mode # "loop" THEN UNCHANGED <<inflight, stats>>
           ELSE IF q \in DOMAIN inflight
           THEN /\ inflight' = [x \in DOMAIN inflight \ {q} |-> inflight[x]]
                /\ stats' = [stats EXCEPT !.received = @ + 1, !.matched = @ + 1]
           ELSE /\ stats' = [stats EXCEPT !.received = @ + 1, !.unexpected = @ + 1]
                /\ UNCHANGED inflight
    /\ sender' = TRUE /\ reads' = reads + 1 /\ pc' = "send"
    /\ UNCHANGED <<filter, nav, seq, pingSeq, wait, wire>>

\* write_message: over UDP there is nowhere to send to before the first packet
\* came in; a short write counts as failed.
Writable(ok) == ok => (~Udp \/ sender)

\* Mutant: a ping counts as sent before the write that may fail.
MutSendLoopPing(ok) ==
    /\ seq' = seq + 1
    /\ stats' = [stats EXCEPT !.sent = @ + 1]
    /\ IF ok THEN /\ inflight' = [q \in DOMAIN inflight \cup {seq} |->
                                     IF q = seq THEN 0 ELSE inflight[q]]
                  /\ wire' = wire \cup {seq}
             ELSE UNCHANGED <<inflight, wire>>

send_loop_ping(ok) ==
    /\ seq' = seq + 1
    /\ IF ok THEN /\ inflight' = [q \in DOMAIN inflight \cup {seq} |->
                                     IF q = seq THEN 0 ELSE inflight[q]]
                  /\ stats' = [stats EXCEPT !.sent = @ + 1]
                  /\ wire' = wire \cup {seq}
             ELSE UNCHANGED <<inflight, stats, wire>>

\* A generated message is listed whether or not it could be sent.
transmit_random_message ==
    \E g \in Generated, len \in Lens : record_message(<<1, 1, g>>, len)

auto_transmit ==
    /\ pc = "send" /\ pc' = "expire"
    /\ \/ /\ mode = "loop" /\ wait = 0 /\ seq < MaxPings
          /\ \E ok \in BOOLEAN : Writable(ok) /\ send_loop_ping(ok)
          /\ wait' = 1 /\ UNCHANGED messages
       \/ /\ mode = "transmit" /\ wait = 0
          /\ transmit_random_message
          /\ wait' = 1 /\ UNCHANGED <<seq, inflight, stats, wire>>
       \/ /\ (mode = "listen" \/ wait > 0 \/ (mode = "loop" /\ seq = MaxPings))
          /\ UNCHANGED <<messages, seq, inflight, stats, wire, wait>>
    /\ UNCHANGED <<filter, nav, pingSeq, sender, reads>>

\* Mutant: nothing looks at the timeout.
MutExpire ==
    /\ pc = "expire" /\ pc' = "clamp"
    /\ UNCHANGED <<messages, filter, nav, inflight, seq, pingSeq, stats, wait, wire, sender, reads>>

\* Pings older than the timeout are lost.
expire ==
    /\ pc = "expire" /\ pc' = "clamp"
    /\ LET late == {q \in DOMAIN inflight : inflight[q] > Timeout}
       IN  /\ inflight' = [q \in DOMAIN inflight \ late |-> inflight[q]]
           /\ stats' = [stats EXCEPT !.lost = @ + Cardinality(late)]
    /\ UNCHANGED <<messages, filter, nav, seq, pingSeq, wait, wire, sender, reads>>

\* The selections are brought back into range, then the screen is drawn.
clamp ==
    /\ pc = "clamp" /\ pc' = "key"
    /\ LET n == Cardinality(filter_entries)
       IN  nav' = [nav EXCEPT !.all = Clamped(@, Cardinality(DOMAIN messages)),
                              !.filtered = Clamped(@, n),
                              !.focus = @ /\ n > 0]
    /\ UNCHANGED <<messages, filter, inflight, seq, pingSeq, stats, wait, wire, sender,
                   reads>>

-----------------------------------------------------------------------------
(* Keys.                                                                    *)

key_sysid ==
    /\ collect_sysids # {}
    /\ filter' = [NoFilter EXCEPT !.sys = cycle_optional(collect_sysids, filter.sys)]

key_compid ==
    /\ filter.sys # None
    /\ filter' = [filter EXCEPT
                    !.comp = cycle_optional(collect_compids(filter.sys), filter.comp),
                    !.msg = None]

key_msgid ==
    /\ filter.sys # None /\ filter.comp # None
    /\ filter' = [filter EXCEPT
                    !.msg = cycle_optional(collect_msgids(filter.sys, filter.comp), filter.msg)]

key_filter ==
    /\ key_sysid \/ key_compid \/ key_msgid \/ filter' = NoFilter
    /\ UNCHANGED <<nav, messages, inflight, seq, stats, wire, wait, pingSeq>>

key_view ==
    /\ nav' = [nav EXCEPT !.interactive = ~@,
                          !.focus = @ /\ ~nav.interactive /\ filter_entries # {}]
    /\ UNCHANGED <<filter, messages, inflight, seq, stats, wire, wait, pingSeq>>

key_move ==
    /\ nav.interactive
    /\ LET n == IF nav.focus THEN Cardinality(filter_entries) ELSE Cardinality(DOMAIN messages)
           i == IF nav.focus THEN nav.filtered ELSE nav.all
       IN  \E j \in {i - 1, i + 1} :
            /\ 0 <= j /\ j < n
            /\ nav' = IF nav.focus THEN [nav EXCEPT !.filtered = j] ELSE [nav EXCEPT !.all = j]
    /\ UNCHANGED <<filter, messages, inflight, seq, stats, wire, wait, pingSeq>>

key_focus ==
    /\ nav.interactive
    /\ \/ nav.focus /\ nav' = [nav EXCEPT !.focus = FALSE]
       \/ /\ ~nav.focus /\ filter_entries # {}
          /\ nav' = [nav EXCEPT !.focus = TRUE,
                                !.filtered = Clamped(@, Cardinality(filter_entries))]
    /\ UNCHANGED <<filter, messages, inflight, seq, stats, wire, wait, pingSeq>>

\* 't': a loop ping, or a generated message; 'p': a ping with its own numbering.
key_send ==
    /\ \/ /\ mode = "loop" /\ seq < MaxPings
          /\ \E ok \in BOOLEAN : Writable(ok) /\ send_loop_ping(ok)
          /\ wait' = 1 /\ UNCHANGED <<messages, pingSeq>>
       \/ /\ mode # "loop" /\ transmit_random_message
          /\ wait' = IF mode = "transmit" THEN 1 ELSE wait
          /\ UNCHANGED <<seq, inflight, stats, wire, pingSeq>>
       \/ /\ pingSeq < MaxPings /\ pingSeq' = pingSeq + 1
          /\ \E ok \in BOOLEAN : /\ Writable(ok)
                                  /\ wire' = IF ok THEN wire \cup {pingSeq} ELSE wire
          /\ UNCHANGED <<messages, seq, inflight, stats, wait>>
    /\ UNCHANGED <<filter, nav>>

key ==
    /\ pc = "key"
    /\ pc' = "read"
    /\ key_filter \/ key_view \/ key_move \/ key_focus \/ key_send
    /\ UNCHANGED <<sender, reads>>

no_key ==
    /\ pc = "key" /\ pc' = "read"
    /\ UNCHANGED <<messages, filter, nav, inflight, seq, pingSeq, stats, wait, wire,
                   sender, reads>>

\* 'q', SIGINT or SIGTERM: seen at the head of the loop.
quit ==
    /\ pc \in {"key", "read"} /\ pc' = "exit"
    /\ UNCHANGED <<messages, filter, nav, inflight, seq, pingSeq, stats, wait, wire,
                   sender, reads>>

MonitorNext ==
  /\ UNCHANGED mode
  /\ \/ read_nothing \/ read_error \/ read_message \/ read_ping
     \/ auto_transmit \/ expire \/ clamp \/ key \/ no_key \/ quit

\* The loop keeps turning, and time passes however often nothing arrives.
Turn == UNCHANGED mode /\ (read_nothing \/ auto_transmit \/ expire \/ clamp \/ no_key)
TimePasses == /\ UNCHANGED mode /\ pc = "read" /\ Elapse(1) /\ pc' = "send"
              /\ UNCHANGED <<messages, filter, nav, seq, pingSeq, stats, wire, sender,
                             reads>>

MonitorSpec == /\ MonitorInit /\ [][MonitorNext]_monitorVars
               /\ WF_monitorVars(Turn) /\ SF_monitorVars(TimePasses)

-----------------------------------------------------------------------------
(* Every ping that was sent is counted once: as matched, as lost or as still *)
(* awaited; and every ping received once, as matched or unexpected.  The     *)
(* loss the screen shows is computed from these.                             *)
LoopAccounting ==
    /\ stats.sent = stats.matched + stats.lost + Cardinality(DOMAIN inflight)
    /\ stats.received = stats.matched + stats.unexpected

(* A filter always shows something: cycling through systems, components and  *)
(* messages never leaves a combination that no received message has.         *)
FilterNeverEmpty ==
    filter # NoFilter => filter_entries # {}

(* The table that is drawn with the selection in it shows the selected row,  *)
(* whatever the height of the terminal, however the table above it has grown *)
(* or the filter shrunk it.                                                  *)
SelectionVisible ==
    pc = "key" /\ nav.interactive =>
      \A rows \in Heights :
        LET screen == render_ui(rows)
        IN  /\ ~nav.focus /\ screen.all # {} => nav.all \in screen.all
            /\ nav.focus /\ screen.filtered # {} => nav.filtered \in screen.filtered

(* Decoding a message whose trailing zeros were cut reads no byte behind     *)
(* its end.                                                                  *)
DecodeInBounds ==
    \A k \in DOMAIN messages, f \in Fields :
        LET d == decode_field(f, messages[k])
        IN  d.read > 0 => f.offset + d.read * f.size <= messages[k]

(* All four: the screen tells what was received.                             *)
MonitorConsistent ==
    LoopAccounting /\ FilterNeverEmpty /\ SelectionVisible /\ DecodeInBounds

(* No ping is awaited for ever: it is matched or given up, unless the        *)
(* program is left.                                                          *)
PingsSettle ==
    \A q \in 0..(MaxPings - 1) :
        q \in DOMAIN inflight ~> (q \notin DOMAIN inflight \/ pc = "exit")
=============================================================================
