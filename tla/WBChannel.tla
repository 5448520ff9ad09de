------------------------------ MODULE WBChannel ------------------------------
(***************************************************************************)
(* How an air unit and a ground unit agree on a wifi channel.              *)
(*                                                                         *)
(* Every unit has one WBLink with one worker thread and a work queue that  *)
(* holds at most one item.  The air unit announces (frequency, width) in   *)
(* management frames; the ground unit follows what it hears.  The module   *)
(* has the worker of the air unit (a_...), the worker of the ground unit,  *)
(* its receive thread and its parameter callbacks (g_...), the lossy radio *)
(* between them and restarts of either process.                            *)
(*                                                                         *)
(* A worker step is what runs between two points where another thread can  *)
(* observe or change shared state: a sleep, a retune, or the reads and     *)
(* writes of two separate atomics.                                         *)
(***************************************************************************)
EXTENDS WifiChannels, FiniteSets

CONSTANTS
  Freqs,        \* bound: the channels (MHz) that are looked at
  AirCard,      \* the card of the air unit
  GndCards,     \* the cards of the ground unit, ...
  FirstCard,    \* ... and the first of them
  Widths,       \* channel widths the air unit may be set to
  MaxEvents     \* bound: accepted requests, changes of the listen-only parameter
                \* and restarts in a behaviour

ASSUME FreqsAssumption ==
  /\ \A f \in Freqs : f \in Nat /\ f > 100
  /\ Freqs \subseteq get_channels_2G \cup get_channels_5G
  /\ \E f \in Freqs : any_card_support_frequency(f, GndCards)
ASSUME CardsAssumption ==
  /\ FirstCard \in GndCards
  /\ \A c \in GndCards \cup {AirCard} :
       /\ c.type \in CardTypes /\ c.iw \subseteq get_channels_2G \cup get_channels_5G
       /\ c.answers \in BOOLEAN /\ c.x20 \in BOOLEAN
ASSUME WidthsAssumption ==
  /\ Widths \subseteq {10, 20, 40}
  /\ 20 \in Widths
ASSUME BoundsAssumption == MaxEvents \in Nat

NoReport == -1          \* the atomics' "nothing heard yet" value
None == [op |-> "none"] \* empty work queue

RxWidths == {10, 20, 40}

\* The channels some card of the ground unit supports.
GndFreqs == {f \in Freqs : any_card_support_frequency(f, GndCards)}

\* What a scan and an analyze visit.
ScanLists == {Freqs \cap get_scan_channels_frequencies(FirstCard, kind) : kind \in 0 .. 2}
AnalyzeLists == {Freqs \cap get_analyze_channels_frequencies(FirstCard, kind) : kind \in 0 .. 2}

AirItems == [op : {"SET_FREQ"}, freq : Freqs] \cup [op : {"SET_CHWIDTH"}, width : Widths]
GndItems == [op : {"SET_FREQ"}, freq : GndFreqs]
              \cup [op : {"SCAN_CHANNELS"}, list : ScanLists]
              \cup [op : {"ANALYZE_CHANNELS"}, list : AnalyzeLists]

\* The checks of request_set_frequency.
FrequencyAllowed(f, width, cards) ==
  /\ validate_frequency_change(f, width, cards)
  /\ \A c \in cards : c.x20 => f >= 5180

Channel == [freq : Freqs, width : RxWidths]
Report == [freq : Freqs \cup {NoReport}, width : RxWidths \cup {NoReport}]

VARIABLES
  \* --- air unit ---
  a_settings,   \* persisted wb_frequency and wb_air_tx_channel_width
  a_mgmt,       \* ManagementAir: the channel being announced
  a_card,       \* what the card is tuned to
  a_header2,    \* channel width in m_tx_header_2, used for management frames
  a_passive,    \* injection suspended
  a_video_closed, \* m_air_close_video_in
  a_queue,      \* the work item, or None
  a_pc,         \* worker: "loop", "dwell", "retune"
  a_tuned,      \* result of the last retune
  \* --- ground unit ---
  g_settings,   \* persisted wb_frequency and wb_enable_listen_only_mode
  g_curr,       \* m_gnd_curr_rx_frequency, m_gnd_curr_rx_channel_width
  g_report,     \* m_air_reported_curr_frequency, m_air_reported_curr_channel_width
  g_card,       \* what the cards are tuned to
  g_passive,    \* WBTxRx passive mode: no injection
  g_queue,      \* the work item, or None
  g_pc,         \* worker
  g_ret,        \* where apply_frequency_and_channel_width returns to
  g_target,     \* its argument
  g_listen_only,\* its copy of wb_enable_listen_only_mode
  g_tuned,      \* result of the last retune
  g_todo,       \* channels a scan or analyze has yet to visit
  g_found,      \* ScanResult, NoReport frequency until success
  g_seen,       \* first of the two atomics a reader loads
  g_rx,         \* frequency the receive thread has yet to store, or NoReport
  g_cb,         \* a listen-only callback between its two stores, or "none"
  \* --- bounds ---
  requests, toggles, restarts

airVars == <<a_settings, a_mgmt, a_card, a_header2, a_passive, a_video_closed,
             a_queue, a_pc, a_tuned>>
gndWorker == <<g_curr, g_card, g_queue, g_pc, g_ret, g_target,
               g_listen_only, g_tuned, g_todo, g_found, g_seen>>
gndShared == <<g_settings, g_report, g_passive, g_rx, g_cb>>
gndVars == <<gndWorker, gndShared>>
bounds == <<requests, toggles, restarts>>
vars == <<airVars, gndVars, bounds>>

Eventful == requests + toggles + restarts < MaxEvents

-----------------------------------------------------------------------------
(***************************************************************************)
(* The air unit.                                                           *)
(***************************************************************************)

\* WBLink's constructor on air: the last persisted settings are applied to
\* the card (which may refuse) and to both transmit headers before the
\* announcements start.
AirStart ==
  /\ a_mgmt' = a_settings
  /\ \E ok \in BOOLEAN :
       /\ a_tuned' = ok
       /\ a_card' = IF ok THEN a_settings ELSE a_card
  /\ a_header2' = a_settings.width
  /\ a_passive' = FALSE
  /\ a_video_closed' = FALSE
  /\ a_queue' = None
  /\ a_pc' = "loop"

\* request_set_frequency and request_set_air_tx_channel_width: a validated
\* change is taken if try_schedule_work_item finds the queue empty; the item
\* stays in the queue until it has been executed.
air_request(item) ==
  /\ Eventful
  /\ item.op = "SET_FREQ" => FrequencyAllowed(item.freq, a_settings.width, {AirCard})
  /\ a_queue = None
  /\ a_queue' = item
  /\ requests' = requests + 1
  /\ UNCHANGED <<a_settings, a_mgmt, a_card, a_header2, a_passive, a_video_closed,
                 a_pc, a_tuned, gndVars, toggles, restarts>>

\* Mutant: the new frequency is not announced.
MutAirBeginSetFreq ==
  /\ a_pc = "loop"
  /\ a_queue.op = "SET_FREQ"
  /\ a_settings' = [a_settings EXCEPT !.freq = a_queue.freq]
  /\ a_video_closed' = TRUE
  /\ a_pc' = "dwell"
  /\ UNCHANGED <<a_mgmt, a_card, a_header2, a_passive, a_queue, a_tuned, gndVars, bounds>>

\* loop_do_work picks up a frequency change: persist it, close the video
\* input and announce it on the old channel for a while.
air_begin_set_freq ==
  /\ a_pc = "loop"
  /\ a_queue.op = "SET_FREQ"
  /\ a_settings' = [a_settings EXCEPT !.freq = a_queue.freq]
  /\ a_mgmt' = [a_mgmt EXCEPT !.freq = a_queue.freq]
  /\ a_video_closed' = TRUE
  /\ a_pc' = "dwell"
  /\ UNCHANGED <<a_card, a_header2, a_passive, a_queue, a_tuned, gndVars, bounds>>

air_begin_set_chwidth ==
  /\ a_pc = "loop"
  /\ a_queue.op = "SET_CHWIDTH"
  /\ a_settings' = [a_settings EXCEPT !.width = a_queue.width]
  /\ a_mgmt' = [a_mgmt EXCEPT !.width = a_queue.width]
  /\ a_video_closed' = TRUE
  /\ a_pc' = "dwell"
  /\ UNCHANGED <<a_card, a_header2, a_passive, a_queue, a_tuned, gndVars, bounds>>

\* The dwell (2 s or 100 ms) is over; apply_frequency_and_channel_width
\* suspends injection and lets the transmit queues drain.  A frequency change
\* reopens the video input before the retune, a width change after it.
air_end_dwell ==
  /\ a_pc = "dwell"
  /\ a_video_closed' = (a_queue.op = "SET_CHWIDTH")
  /\ a_passive' = TRUE
  /\ a_pc' = "retune"
  /\ UNCHANGED <<a_settings, a_mgmt, a_card, a_header2, a_queue, a_tuned, gndVars, bounds>>

\* The rest of the item: tune the card (the driver may refuse, which is only
\* logged), set the width of both headers, inject again, pop the queue.
air_retune ==
  /\ a_pc = "retune"
  /\ \E ok \in BOOLEAN :
       /\ a_tuned' = ok
       /\ a_card' = IF ok THEN a_settings ELSE a_card
  /\ a_header2' = a_settings.width
  /\ a_passive' = FALSE
  /\ a_video_closed' = FALSE
  /\ a_queue' = None
  /\ a_pc' = "loop"
  /\ UNCHANGED <<a_settings, a_mgmt, gndVars, bounds>>

\* The process restarts at any point; persist() has followed every change of
\* the settings, so they survive.
air_restart ==
  /\ Eventful
  /\ AirStart
  /\ restarts' = restarts + 1
  /\ UNCHANGED <<a_settings, gndVars, requests, toggles>>

-----------------------------------------------------------------------------
(***************************************************************************)
(* The radio and the ground unit's receive thread.                         *)
(***************************************************************************)

\* The ground unit can decode a frame of the air unit: same frequency, and
\* the frame is no wider than what the ground cards listen to.
Audible ==
  /\ a_card.freq = g_card.freq
  /\ a_header2 <= g_card.width

\* One turn of ManagementAir::loop whose frame the ground unit receives:
\* ManagementGround::on_new_management_packet stores the width ...  (A lost
\* or dropped frame changes nothing.)
mgmt_frame_received ==
  /\ ~a_passive
  /\ Audible
  /\ g_rx = NoReport
  /\ g_report' = [g_report EXCEPT !.width = a_mgmt.width]
  /\ g_rx' = a_mgmt.freq
  /\ UNCHANGED <<airVars, gndWorker, g_settings, g_passive, g_cb, bounds>>

\* ... and then the frequency.
mgmt_store_frequency ==
  /\ g_rx # NoReport
  /\ g_report' = [g_report EXCEPT !.freq = g_rx]
  /\ g_rx' = NoReport
  /\ UNCHANGED <<airVars, gndWorker, g_settings, g_passive, g_cb, bounds>>

-----------------------------------------------------------------------------
(***************************************************************************)
(* The ground unit's worker.                                               *)
(***************************************************************************)

\* WBLink's constructor on ground: listen 40 MHz wide on the persisted
\* frequency, no report yet.
GndStart ==
  /\ g_curr' = [freq |-> g_settings.freq, width |-> 40]
  /\ g_report' = [freq |-> NoReport, width |-> NoReport]
  /\ \E ok \in BOOLEAN :
       /\ g_tuned' = ok
       /\ g_card' = IF ok THEN [freq |-> g_settings.freq, width |-> 40] ELSE g_card
  /\ g_passive' = g_settings.listen_only
  /\ g_queue' = None
  /\ g_pc' = "loop"
  /\ g_ret' = "loop"
  /\ g_target' = [freq |-> g_settings.freq, width |-> 40]
  /\ g_listen_only' = g_settings.listen_only
  /\ g_todo' = {}
  /\ g_found' = [freq |-> NoReport, width |-> NoReport]
  /\ g_seen' = NoReport
  /\ g_rx' = NoReport
  /\ g_cb' = "none"

\* A ground unit never changes its own width setting from the default of 20 MHz.
gnd_request(item) ==
  /\ Eventful
  /\ item.op = "SET_FREQ" => FrequencyAllowed(item.freq, 20, GndCards)
  /\ g_queue = None
  /\ g_queue' = item
  /\ requests' = requests + 1
  /\ UNCHANGED <<airVars, g_curr, g_card, g_pc, g_ret, g_target, g_listen_only, g_tuned,
                 g_todo, g_found, g_seen, gndShared, toggles, restarts>>

\* Call of apply_frequency_and_channel_width(target) that continues at ret:
\* injection is suspended while the transmit queues drain.
apply_channel(target, ret) ==
  /\ g_target' = target
  /\ g_ret' = ret
  /\ g_passive' = TRUE
  /\ g_pc' = "retune"

\* What apply_frequency_and_channel_width_from_settings applies on ground.
FromSettings(settings, curr) == [freq |-> settings.freq, width |-> curr.width]

\* Tune the cards (they may refuse) and, in
\* re_enable_injection_unless_user_passive_mode_enabled, read the user's
\* listen-only setting ...
gnd_retune ==
  /\ g_pc = "retune"
  /\ \E ok \in BOOLEAN :
       /\ g_tuned' = ok
       /\ g_card' = IF ok THEN g_target ELSE g_card
  /\ g_listen_only' = g_settings.listen_only
  /\ g_pc' = "inject"
  /\ UNCHANGED <<airVars, g_curr, g_queue, g_ret, g_target, g_todo, g_found, g_seen,
                 gndShared, bounds>>

\* Mutant: injection is always switched back on.
MutGndInject ==
  /\ g_pc = "inject"
  /\ g_passive' = FALSE
  /\ g_pc' = IF g_ret = "scan_reset" /\ ~g_tuned THEN "scan_next" ELSE g_ret
  /\ UNCHANGED <<airVars, g_curr, g_card, g_queue, g_ret, g_target, g_listen_only, g_tuned,
                 g_todo, g_found, g_seen, g_settings, g_report, g_rx, g_cb, bounds>>

\* ... and apply it.  A refused retune makes the scan go on to its next
\* channel; every other caller ignores the result.
gnd_inject ==
  /\ g_pc = "inject"
  /\ g_passive' = g_listen_only
  /\ g_pc' = IF g_ret = "scan_reset" /\ ~g_tuned THEN "scan_next" ELSE g_ret
  /\ UNCHANGED <<airVars, g_curr, g_card, g_queue, g_ret, g_target, g_listen_only, g_tuned,
                 g_todo, g_found, g_seen, g_settings, g_report, g_rx, g_cb, bounds>>

\* The item has been executed: pop it and go on with the loop.
gnd_pop ==
  /\ g_pc = "pop"
  /\ g_queue' = None
  /\ g_pc' = "mgmt"
  /\ UNCHANGED <<airVars, g_curr, g_card, g_ret, g_target, g_listen_only, g_tuned, g_todo,
                 g_found, g_seen, gndShared, bounds>>

gnd_begin_set_freq ==
  /\ g_pc = "loop"
  /\ g_queue.op = "SET_FREQ"
  /\ g_settings' = [g_settings EXCEPT !.freq = g_queue.freq]
  /\ apply_channel([freq |-> g_queue.freq, width |-> g_curr.width], "pop")
  /\ UNCHANGED <<airVars, g_curr, g_card, g_queue, g_listen_only, g_tuned, g_todo, g_found,
                 g_seen, g_report, g_rx, g_cb, bounds>>

\* wt_gnd_perform_channel_management: load the reported width, then the
\* reported frequency; on a change adopt both, persist and retune.
gnd_mgmt_load_width ==
  /\ \/ g_pc = "mgmt"
     \/ g_pc = "loop" /\ g_queue = None
  /\ g_seen' = g_report.width
  /\ g_pc' = "mgmt_decide"
  /\ UNCHANGED <<airVars, g_curr, g_card, g_queue, g_ret, g_target, g_listen_only, g_tuned,
                 g_todo, g_found, gndShared, bounds>>

Reported == [freq |-> g_report.freq, width |-> g_seen]

\* Mutant: only the frequency is compared with what the cards listen to.
MutNewReport ==
  Reported.width \in RxWidths /\ Reported.freq > 100 /\ Reported.freq # g_curr.freq

NewReport ==
  Reported.width \in RxWidths /\ Reported.freq > 100 /\ Reported # g_curr

gnd_mgmt_follow ==
  /\ g_pc = "mgmt_decide"
  /\ NewReport
  /\ g_curr' = Reported
  /\ g_settings' = [g_settings EXCEPT !.freq = Reported.freq]
  /\ apply_channel(Reported, "loop")
  /\ UNCHANGED <<airVars, g_card, g_queue, g_listen_only, g_tuned, g_todo, g_found, g_seen,
                 g_report, g_rx, g_cb, bounds>>

gnd_mgmt_stay ==
  /\ g_pc = "mgmt_decide"
  /\ ~NewReport
  /\ g_pc' = "loop"
  /\ UNCHANGED <<airVars, g_curr, g_card, g_queue, g_ret, g_target, g_listen_only, g_tuned,
                 g_todo, g_found, g_seen, gndShared, bounds>>

-----------------------------------------------------------------------------
(***************************************************************************)
(* perform_channel_scan and perform_channel_analyze: long-running items.   *)
(***************************************************************************)

\* An empty channel list ends the scan before anything is touched.
scan_begin ==
  /\ g_pc = "loop"
  /\ g_queue.op = "SCAN_CHANNELS"
  /\ g_todo' = g_queue.list
  /\ g_found' = [freq |-> NoReport, width |-> NoReport]
  /\ g_pc' = IF g_queue.list = {} THEN "pop" ELSE "scan_next"
  /\ UNCHANGED <<airVars, g_curr, g_card, g_queue, g_ret, g_target, g_listen_only, g_tuned,
                 g_seen, gndShared, bounds>>

\* The next channel no card supports is skipped ...
scan_skip(c) ==
  /\ g_pc = "scan_next"
  /\ g_found.freq = NoReport
  /\ c \in g_todo
  /\ c \notin GndFreqs
  /\ g_todo' = g_todo \ {c}
  /\ UNCHANGED <<airVars, g_curr, g_card, g_queue, g_pc, g_ret, g_target, g_listen_only,
                 g_tuned, g_found, g_seen, gndShared, bounds>>

\* Mutant: the visited channel stays on the list.
MutScanVisit(c) ==
  /\ g_pc = "scan_next"
  /\ g_found.freq = NoReport
  /\ c \in g_todo
  /\ c \in GndFreqs
  /\ apply_channel([freq |-> c, width |-> 20], "scan_reset")
  /\ UNCHANGED <<airVars, g_curr, g_card, g_queue, g_listen_only, g_tuned, g_todo, g_found, g_seen,
                 g_settings, g_report, g_rx, g_cb, bounds>>

\* ... any other is tuned to, 20 MHz wide.
scan_visit(c) ==
  /\ g_pc = "scan_next"
  /\ g_found.freq = NoReport
  /\ c \in g_todo
  /\ c \in GndFreqs
  /\ g_todo' = g_todo \ {c}
  /\ apply_channel([freq |-> c, width |-> 20], "scan_reset")
  /\ UNCHANGED <<airVars, g_curr, g_card, g_queue, g_listen_only, g_tuned, g_found, g_seen,
                 g_settings, g_report, g_rx, g_cb, bounds>>

\* Suspend injection and forget what was reported: frequency, then width.
scan_reset_frequency ==
  /\ g_pc = "scan_reset"
  /\ g_passive' = TRUE
  /\ g_report' = [g_report EXCEPT !.freq = NoReport]
  /\ g_pc' = "scan_reset_width"
  /\ UNCHANGED <<airVars, g_curr, g_card, g_queue, g_ret, g_target, g_listen_only, g_tuned,
                 g_todo, g_found, g_seen, g_settings, g_rx, g_cb, bounds>>

scan_reset_width ==
  /\ g_pc = "scan_reset_width"
  /\ g_report' = [g_report EXCEPT !.width = NoReport]
  /\ g_pc' = "scan_listen"
  /\ UNCHANGED <<airVars, g_curr, g_card, g_queue, g_ret, g_target, g_listen_only, g_tuned,
                 g_todo, g_found, g_seen, g_settings, g_passive, g_rx, g_cb, bounds>>

\* Two to seven seconds later: load the reported frequency, then the width.
scan_load_frequency ==
  /\ g_pc = "scan_listen"
  /\ g_seen' = g_report.freq
  /\ g_pc' = "scan_judge"
  /\ UNCHANGED <<airVars, g_curr, g_card, g_queue, g_ret, g_target, g_listen_only, g_tuned,
                 g_todo, g_found, gndShared, bounds>>

\* An air unit that reports the very channel being scanned has been found.
scan_hit ==
  /\ g_pc = "scan_judge"
  /\ g_seen = g_target.freq
  /\ g_report.width \in RxWidths
  /\ g_found' = [freq |-> g_seen, width |-> g_report.width]
  /\ g_pc' = "scan_next"
  /\ UNCHANGED <<airVars, g_curr, g_card, g_queue, g_ret, g_target, g_listen_only, g_tuned,
                 g_todo, g_seen, gndShared, bounds>>

\* Otherwise, and also when no packet has been counted as valid since the
\* statistics were reset, the scan goes on.
scan_miss ==
  /\ g_pc = "scan_judge"
  /\ g_pc' = "scan_next"
  /\ UNCHANGED <<airVars, g_curr, g_card, g_queue, g_ret, g_target, g_listen_only, g_tuned,
                 g_todo, g_found, g_seen, gndShared, bounds>>

\* Mutant: a scan without success does not go back to the settings.
MutScanDone ==
  LET success == g_found.freq # NoReport
      settings == IF success THEN [g_settings EXCEPT !.freq = g_found.freq] ELSE g_settings
      curr == IF success THEN [g_curr EXCEPT !.width = g_found.width] ELSE g_curr
  IN /\ g_pc = "scan_next"
     /\ success \/ g_todo = {}
     /\ g_settings' = settings
     /\ g_curr' = curr
     /\ IF success THEN apply_channel(FromSettings(settings, curr), "pop")
        ELSE /\ g_passive' = g_settings.listen_only
             /\ g_pc' = "pop"
             /\ UNCHANGED <<g_target, g_ret>>
     /\ UNCHANGED <<airVars, g_card, g_queue, g_listen_only, g_tuned, g_todo, g_found,
                    g_seen, g_report, g_rx, g_cb, bounds>>

\* The scan is over: adopt what was found, or go back to the settings.  (The
\* injection that is re-enabled first is suspended again by the retune.)
scan_done ==
  LET success == g_found.freq # NoReport
      settings == IF success THEN [g_settings EXCEPT !.freq = g_found.freq] ELSE g_settings
      curr == IF success THEN [g_curr EXCEPT !.width = g_found.width] ELSE g_curr
  IN /\ g_pc = "scan_next"
     /\ success \/ g_todo = {}
     /\ g_settings' = settings
     /\ g_curr' = curr
     /\ apply_channel(FromSettings(settings, curr), "pop")
     /\ UNCHANGED <<airVars, g_card, g_queue, g_listen_only, g_tuned, g_todo, g_found,
                    g_seen, g_report, g_rx, g_cb, bounds>>

analyze_begin ==
  /\ g_pc = "loop"
  /\ g_queue.op = "ANALYZE_CHANNELS"
  /\ g_todo' = g_queue.list
  /\ g_pc' = "analyze_next"
  /\ UNCHANGED <<airVars, g_curr, g_card, g_queue, g_ret, g_target, g_listen_only, g_tuned,
                 g_found, g_seen, gndShared, bounds>>

analyze_visit(c) ==
  /\ g_pc = "analyze_next"
  /\ c \in g_todo
  /\ g_todo' = g_todo \ {c}
  /\ apply_channel([freq |-> c, width |-> 20], "analyze_listen")
  /\ UNCHANGED <<airVars, g_curr, g_card, g_queue, g_listen_only, g_tuned, g_found, g_seen,
                 g_settings, g_report, g_rx, g_cb, bounds>>

\* Injection is suspended, foreign packets are counted for four seconds.
analyze_listen ==
  /\ g_pc = "analyze_listen"
  /\ g_passive' = TRUE
  /\ g_pc' = "analyze_next"
  /\ UNCHANGED <<airVars, g_curr, g_card, g_queue, g_ret, g_target, g_listen_only, g_tuned,
                 g_todo, g_found, g_seen, g_settings, g_report, g_rx, g_cb, bounds>>

analyze_done ==
  /\ g_pc = "analyze_next"
  /\ g_todo = {}
  /\ apply_channel(FromSettings(g_settings, g_curr), "pop")
  /\ UNCHANGED <<airVars, g_curr, g_card, g_queue, g_listen_only, g_tuned, g_todo, g_found,
                 g_seen, g_settings, g_report, g_rx, g_cb, bounds>>

-----------------------------------------------------------------------------
(***************************************************************************)
(* The listen-only parameter: cb_passive runs on a telemetry thread, next  *)
(* to the worker; it persists the setting and then sets the passive mode.  *)
(***************************************************************************)

cb_passive_persist(value) ==
  /\ Eventful
  /\ g_cb = "none"
  /\ g_settings' = [g_settings EXCEPT !.listen_only = value]
  /\ g_cb' = "persisted"
  /\ toggles' = toggles + 1
  /\ UNCHANGED <<airVars, gndWorker, g_report, g_passive, g_rx, requests, restarts>>

cb_passive_apply ==
  /\ g_cb = "persisted"
  /\ g_passive' = g_settings.listen_only
  /\ g_cb' = "none"
  /\ UNCHANGED <<airVars, gndWorker, g_settings, g_report, g_rx, bounds>>

gnd_restart ==
  /\ Eventful
  /\ GndStart
  /\ restarts' = restarts + 1
  /\ UNCHANGED <<airVars, g_settings, requests, toggles>>

-----------------------------------------------------------------------------

Init ==
  /\ a_settings \in [freq : Freqs, width : Widths]
  /\ a_mgmt = a_settings
  /\ a_card = a_settings
  /\ a_header2 = a_settings.width
  /\ a_passive = FALSE
  /\ a_video_closed = FALSE
  /\ a_queue = None
  /\ a_pc = "loop"
  /\ a_tuned = TRUE
  /\ g_settings \in [freq : GndFreqs, listen_only : BOOLEAN]
  /\ g_curr = [freq |-> g_settings.freq, width |-> 40]
  /\ g_report = [freq |-> NoReport, width |-> NoReport]
  /\ g_card = [freq |-> g_settings.freq, width |-> 40]
  /\ g_passive = g_settings.listen_only
  /\ g_queue = None
  /\ g_pc = "loop"
  /\ g_ret = "loop"
  /\ g_target = [freq |-> g_settings.freq, width |-> 40]
  /\ g_listen_only = g_settings.listen_only
  /\ g_tuned = TRUE
  /\ g_todo = {}
  /\ g_found = [freq |-> NoReport, width |-> NoReport]
  /\ g_seen = NoReport
  /\ g_rx = NoReport
  /\ g_cb = "none"
  /\ requests = 0 /\ toggles = 0 /\ restarts = 0

AirWorker == air_begin_set_freq \/ air_begin_set_chwidth \/ air_end_dwell \/ air_retune

Scan ==
  \/ scan_begin
  \/ \E c \in Freqs : scan_skip(c) \/ scan_visit(c)
  \/ scan_reset_frequency \/ scan_reset_width
  \/ scan_load_frequency \/ scan_hit \/ scan_miss \/ scan_done

Analyze ==
  \/ analyze_begin \/ analyze_listen \/ analyze_done
  \/ \E c \in Freqs : analyze_visit(c)

GndWorkerStep ==
  \/ gnd_begin_set_freq \/ gnd_retune \/ gnd_inject \/ gnd_pop
  \/ gnd_mgmt_load_width \/ gnd_mgmt_follow \/ gnd_mgmt_stay
  \/ Scan \/ Analyze

Next ==
  \/ AirWorker
  \/ GndWorkerStep
  \/ mgmt_frame_received \/ mgmt_store_frequency
  \/ \E i \in AirItems : air_request(i)
  \/ \E i \in GndItems : gnd_request(i)
  \/ \E v \in BOOLEAN : cb_passive_persist(v)
  \/ cb_passive_apply
  \/ air_restart \/ gnd_restart

\* Each worker and the receive thread is an OS thread that is never blocked
\* for good: every wait in it is a bounded sleep.  Nothing is assumed of the
\* radio, of users or of restarts.
Fairness ==
  /\ WF_vars(AirWorker)
  /\ WF_vars(GndWorkerStep)
  /\ WF_vars(mgmt_store_frequency)
  /\ WF_vars(cb_passive_apply)

Spec == Init /\ [][Next]_vars
FairSpec == Spec /\ Fairness

-----------------------------------------------------------------------------
GndPcs == {"loop", "retune", "inject", "pop", "mgmt", "mgmt_decide", "scan_next", "scan_reset",
           "scan_reset_width", "scan_listen", "scan_judge", "analyze_next", "analyze_listen"}
GndRets == {"loop", "pop", "scan_reset", "analyze_listen"}

AirTypeOK ==
  /\ a_settings \in [freq : Freqs, width : Widths]
  /\ a_mgmt \in [freq : Freqs, width : Widths]
  /\ a_card \in [freq : Freqs, width : Widths]
  /\ a_header2 \in Widths
  /\ a_passive \in BOOLEAN /\ a_video_closed \in BOOLEAN /\ a_tuned \in BOOLEAN
  /\ a_queue \in AirItems \cup {None}
  /\ a_pc \in {"loop", "dwell", "retune"}

GndTypeOK ==
  /\ g_settings \in [freq : Freqs, listen_only : BOOLEAN]
  /\ g_curr \in Channel
  /\ g_report \in Report
  /\ g_card \in Channel
  /\ g_passive \in BOOLEAN /\ g_listen_only \in BOOLEAN /\ g_tuned \in BOOLEAN
  /\ g_queue \in GndItems \cup {None}
  /\ g_pc \in GndPcs
  /\ g_ret \in GndRets
  /\ g_target \in Channel
  /\ g_todo \in SUBSET Freqs
  /\ g_found \in Report
  /\ g_seen \in Freqs \cup RxWidths \cup {NoReport}
  /\ g_rx \in Freqs \cup {NoReport}
  /\ g_cb \in {"none", "persisted"}

\* Every variable has its type; in particular the channel the ground unit
\* adopts from the two separately stored atomics is always a complete one,
\* never one of their "nothing heard yet" values
\* (wt_gnd_perform_channel_management, perform_channel_scan).
TypeOK ==
  /\ AirTypeOK
  /\ GndTypeOK
  /\ requests \in Nat /\ toggles \in Nat /\ restarts \in Nat

(***************************************************************************)
(* Safety.                                                                 *)
(***************************************************************************)

\* Between two work items the air unit is where its settings say: it
\* announces, and is tuned to, the persisted channel, unless the driver
\* refused the last retune; its headers have the persisted width, it
\* injects, and the video input is open (request_set_frequency,
\* request_set_air_tx_channel_width, the constructor after a restart).
AirSettled ==
  a_pc = "loop" =>
    /\ a_mgmt = a_settings
    /\ a_header2 = a_settings.width
    /\ a_tuned => a_card = a_settings
    /\ ~a_passive
    /\ ~a_video_closed

\* Whatever a scan, an analyze, a frequency request or a followed report did
\* to the cards, once the worker is back in its loop they are on the
\* persisted frequency with the width last adopted from the air unit, unless
\* the driver refused the last retune.
GroundSettled ==
  g_pc \in {"loop", "mgmt", "mgmt_decide", "pop"} /\ g_tuned =>
    g_card = [freq |-> g_settings.freq, width |-> g_curr.width]

\* The ground unit does not inject while it listens during a scan, and after
\* every work item it injects again exactly if the user did not ask for
\* listen-only mode (re_enable_injection_unless_user_passive_mode_enabled,
\* perform_channel_scan).  Both hold until the user changes the setting: the
\* callback of the parameter sets the mode next to a running item, and can
\* fall between the item's reading of the setting and its use.
InjectionAsWanted ==
  toggles = 0 =>
    /\ g_pc = "loop" => g_passive = g_settings.listen_only
    /\ g_pc \in {"scan_reset_width", "scan_listen", "scan_judge"} => g_passive

(***************************************************************************)
(* Liveness, under FairSpec.                                               *)
(***************************************************************************)

\* An accepted work item is executed: scan and analyze end, on any channel
\* list and whatever the driver refuses (loop_do_work).
AcceptedItemFinishes ==
  /\ (a_queue # None) ~> (a_queue = None)
  /\ (g_queue # None) ~> (g_queue = None)

\* A complete report that differs from what the cards listen to is adopted
\* sooner or later, even if it comes while a long item runs, unless a scan
\* discards it (wt_gnd_perform_channel_management).
ReportFollowed == []<>(g_report \in Channel => g_curr = g_report)

\* Nobody will ask for anything more and no unit will restart.
Quiet == ~Eventful

\* One announcement heard during the dwell of a frequency change is enough:
\* without any further frame the ground unit ends on the channel the air unit
\* moves to and can hear it, unless a driver refuses a retune.  (Not so for a
\* ground unit that was asked to change its own frequency and has heard nothing
\* since: m_gnd_curr_rx_frequency is still the frequency it left, and an
\* announcement of just that one is taken for old news.)
HeardAnnouncementKeepsLink ==
  (/\ Quiet
   /\ a_pc = "dwell" /\ a_queue.op = "SET_FREQ"
   /\ g_rx = NoReport /\ g_report = a_mgmt
   /\ g_queue = None /\ g_curr.freq = g_settings.freq)
    ~> (a_pc = "loop" /\ (Audible \/ ~a_tuned \/ ~g_tuned))

\* Both: what the air unit announces is where the ground unit ends.
GroundFollows == ReportFollowed /\ HeardAnnouncementKeepsLink

=============================================================================
