-------------------------- MODULE WBChannel_proofs --------------------------
(***************************************************************************)
(* Proofs about WBChannel, for all sets of frequencies, widths and cards   *)
(* and for all bounds.                                                     *)
(***************************************************************************)
EXTENDS WBChannel, TLAPS

\* Where the ground unit's cards belong between two work items.
Home == [freq |-> g_settings.freq, width |-> g_curr.width]

\* The announced channel is the persisted one, also while a change is under
\* way.
Announced == a_mgmt = a_settings

\* A retune that goes back to the loop has the home channel as its target,
\* and a successful one has reached its target.
RetuneGoesHome ==
  /\ g_pc \in {"retune", "inject"} /\ g_ret \in {"loop", "pop"} => g_target = Home
  /\ g_pc = "inject" /\ g_tuned => g_card = g_target

\* A scan result is either empty or complete.
FoundComplete == g_found.freq # NoReport => g_found.width \in RxWidths

AirInv == AirTypeOK /\ Announced /\ AirSettled
GndInv == GndTypeOK /\ FoundComplete /\ RetuneGoesHome /\ GroundSettled

\* While nobody has touched the listen-only parameter no callback is under
\* way, the mode the worker is about to apply is the user's, it has been applied
\* wherever no retune is outstanding, and a scan that listens does so silently.
Injection ==
  toggles = 0 =>
    /\ g_cb = "none"
    /\ g_pc = "inject" => g_listen_only = g_settings.listen_only
    /\ g_pc \in {"loop", "mgmt", "mgmt_decide", "pop"} => g_passive = g_settings.listen_only
    /\ g_pc \in {"scan_reset_width", "scan_listen", "scan_judge"} => g_passive

BoundsOK == requests \in Nat /\ toggles \in Nat /\ restarts \in Nat

IndInv == AirInv /\ GndInv /\ BoundsOK /\ Injection

AirStep == AirWorker \/ air_restart \/ \E i \in AirItems : air_request(i)
GndStep ==
  \/ GndWorkerStep
  \/ mgmt_frame_received \/ mgmt_store_frequency
  \/ \E i \in GndItems : gnd_request(i)
  \/ \E v \in BOOLEAN : cb_passive_persist(v)
  \/ cb_passive_apply
  \/ gnd_restart

-----------------------------------------------------------------------------
\* What the operation of a queued item says about its argument.
LEMMA AirItemArguments ==
  ASSUME NEW item \in AirItems \cup {None}
  PROVE  /\ item.op = "SET_FREQ" => item.freq \in Freqs
         /\ item.op = "SET_CHWIDTH" => item.width \in Widths
  BY DEF AirItems, None

\* The same for the ground unit's items (request_set_frequency, scan, analyze).
LEMMA GndItemArguments ==
  ASSUME NEW item \in GndItems \cup {None}
  PROVE  /\ item.op = "SET_FREQ" => item.freq \in Freqs
         /\ item.op \in {"SCAN_CHANNELS", "ANALYZE_CHANNELS"} => item.list \in SUBSET Freqs
  BY DEF GndItems, GndFreqs, ScanLists, AnalyzeLists, None

\* The frequencies are no "nothing heard yet" values, the widths are ones the
\* ground unit accepts.
LEMMA ConstantFacts ==
  /\ NoReport \notin Freqs
  /\ GndFreqs \subseteq Freqs
  /\ Widths \subseteq RxWidths
  /\ 20 \in RxWidths /\ 40 \in RxWidths
  BY FreqsAssumption, WidthsAssumption DEF NoReport, RxWidths, GndFreqs

-----------------------------------------------------------------------------
\* The air unit's steps keep its part of the invariant.
LEMMA AirStepInv ==
  ASSUME AirInv, AirStep
  PROVE  AirInv'
<1> USE DEF AirInv, AirTypeOK, Announced, AirSettled
<1>1. CASE air_begin_set_freq
  <2>1. a_queue.freq \in Freqs
    BY <1>1, AirItemArguments DEF air_begin_set_freq
  <2> QED BY <1>1, <2>1 DEF air_begin_set_freq
<1>2. CASE air_begin_set_chwidth
  <2>1. a_queue.width \in Widths
    BY <1>2, AirItemArguments DEF air_begin_set_chwidth
  <2> QED BY <1>2, <2>1 DEF air_begin_set_chwidth
<1>3. CASE air_end_dwell
  BY <1>3 DEF air_end_dwell
<1>4. CASE air_retune
  <2>1. \/ a_tuned' = TRUE /\ a_card' = a_settings
        \/ a_tuned' = FALSE /\ a_card' = a_card
    BY <1>4 DEF air_retune
  <2>2. /\ a_settings' = a_settings /\ a_mgmt' = a_mgmt /\ a_header2' = a_settings.width
        /\ a_passive' = FALSE /\ a_video_closed' = FALSE
        /\ a_queue' = None /\ a_pc' = "loop"
    BY <1>4 DEF air_retune
  <2> QED BY <2>1, <2>2
<1>5. CASE air_restart
  <2>1. \/ a_tuned' = TRUE /\ a_card' = a_settings
        \/ a_tuned' = FALSE /\ a_card' = a_card
    BY <1>5 DEF air_restart, AirStart
  <2>2. /\ a_settings' = a_settings /\ a_mgmt' = a_settings /\ a_header2' = a_settings.width
        /\ a_passive' = FALSE /\ a_video_closed' = FALSE
        /\ a_queue' = None /\ a_pc' = "loop"
    BY <1>5 DEF air_restart, AirStart
  <2> QED BY <2>1, <2>2
<1>6. ASSUME NEW i \in AirItems, air_request(i)
      PROVE  AirInv'
  BY <1>6 DEF air_request
<1> QED BY <1>1, <1>2, <1>3, <1>4, <1>5, <1>6 DEF AirStep, AirWorker

-----------------------------------------------------------------------------
\* The ground unit's steps keep its part, given the air unit's types.
LEMMA GndStepInv ==
  ASSUME AirTypeOK, GndInv, GndStep
  PROVE  GndInv'
<1> USE ConstantFacts
    DEF GndInv, GndTypeOK, FoundComplete, RetuneGoesHome, GroundSettled, Home, Channel, Report,
        GndPcs, GndRets, gndVars, gndWorker, gndShared
<1>1. CASE gnd_begin_set_freq
  <2>1. g_queue.freq \in Freqs
    BY <1>1, GndItemArguments DEF gnd_begin_set_freq
  <2> QED BY <1>1, <2>1 DEF gnd_begin_set_freq, apply_channel
<1>2. CASE gnd_retune
  <2>1. \/ g_tuned' = TRUE /\ g_card' = g_target
        \/ g_tuned' = FALSE /\ g_card' = g_card
    BY <1>2 DEF gnd_retune
  <2>2. g_listen_only' \in BOOLEAN /\ g_pc = "retune" /\ g_pc' = "inject"
    BY <1>2 DEF gnd_retune
  <2>3. UNCHANGED <<g_curr, g_queue, g_ret, g_target, g_todo, g_found, g_seen, gndShared>>
    BY <1>2 DEF gnd_retune
  <2>4. GndTypeOK'
    <3>1. g_tuned' \in BOOLEAN
      BY <2>1
    <3>2. g_card' \in Channel
      BY <2>1
    <3> QED BY <2>2, <2>3, <3>1, <3>2
  <2>5. Home' = Home
    BY <2>3
  <2>6. RetuneGoesHome'
    BY <2>1, <2>2, <2>3, <2>5
  <2>7. FoundComplete' /\ GroundSettled'
    BY <2>2, <2>3
  <2> QED BY <2>4, <2>6, <2>7
<1>3. CASE gnd_inject
  BY <1>3 DEF gnd_inject
<1>4. CASE gnd_pop
  BY <1>4 DEF gnd_pop
<1>5. CASE gnd_mgmt_load_width
  BY <1>5 DEF gnd_mgmt_load_width
<1>6. CASE gnd_mgmt_follow
  <2>1. Reported \in Channel
    BY <1>6 DEF gnd_mgmt_follow, NewReport, Reported, NoReport
  <2> QED BY <1>6, <2>1 DEF gnd_mgmt_follow, apply_channel, Reported
<1>7. CASE gnd_mgmt_stay
  BY <1>7 DEF gnd_mgmt_stay
<1>8. CASE Scan
  <2>1. CASE scan_begin
    <3>1. g_queue.list \in SUBSET Freqs
      BY <2>1, GndItemArguments DEF scan_begin
    <3> QED BY <2>1, <3>1 DEF scan_begin
  <2>2. ASSUME NEW c \in Freqs, scan_skip(c)
        PROVE  GndInv'
    BY <2>2 DEF scan_skip
  <2>3. ASSUME NEW c \in Freqs, scan_visit(c)
        PROVE  GndInv'
    BY <2>3 DEF scan_visit, apply_channel
  <2>4. CASE scan_reset_frequency
    BY <2>4 DEF scan_reset_frequency
  <2>5. CASE scan_reset_width
    BY <2>5 DEF scan_reset_width
  <2>6. CASE scan_load_frequency
    BY <2>6 DEF scan_load_frequency
  <2>7. CASE scan_hit
    BY <2>7 DEF scan_hit
  <2>8. CASE scan_miss
    BY <2>8 DEF scan_miss
  <2>9. CASE scan_done
    <3>1. CASE g_found.freq # NoReport
      BY <2>9, <3>1 DEF scan_done, apply_channel, FromSettings
    <3>2. CASE g_found.freq = NoReport
      BY <2>9, <3>2 DEF scan_done, apply_channel, FromSettings
    <3> QED BY <3>1, <3>2
  <2> QED BY <1>8, <2>1, <2>2, <2>3, <2>4, <2>5, <2>6, <2>7, <2>8, <2>9 DEF Scan
<1>9. CASE Analyze
  <2>1. CASE analyze_begin
    <3>1. g_queue.list \in SUBSET Freqs
      BY <2>1, GndItemArguments DEF analyze_begin
    <3> QED BY <2>1, <3>1 DEF analyze_begin
  <2>2. ASSUME NEW c \in Freqs, analyze_visit(c)
        PROVE  GndInv'
    BY <2>2 DEF analyze_visit, apply_channel
  <2>3. CASE analyze_listen
    BY <2>3 DEF analyze_listen
  <2>4. CASE analyze_done
    BY <2>4 DEF analyze_done, apply_channel, FromSettings
  <2> QED BY <1>9, <2>1, <2>2, <2>3, <2>4 DEF Analyze
<1>10. CASE mgmt_frame_received
  <2>1. a_mgmt.width \in RxWidths /\ a_mgmt.freq \in Freqs
    BY DEF AirTypeOK
  <2> QED BY <1>10, <2>1 DEF mgmt_frame_received
<1>11. CASE mgmt_store_frequency
  BY <1>11 DEF mgmt_store_frequency
<1>12. ASSUME NEW i \in GndItems, gnd_request(i)
       PROVE  GndInv'
  BY <1>12 DEF gnd_request
<1>13. ASSUME NEW v \in BOOLEAN, cb_passive_persist(v)
       PROVE  GndInv'
  BY <1>13 DEF cb_passive_persist
<1>14. CASE cb_passive_apply
  BY <1>14 DEF cb_passive_apply
<1>15. CASE gnd_restart
  <2>1. \/ g_tuned' = TRUE /\ g_card' = [freq |-> g_settings.freq, width |-> 40]
        \/ g_tuned' = FALSE /\ g_card' = g_card
    BY <1>15 DEF gnd_restart, GndStart
  <2> QED BY <1>15, <2>1 DEF gnd_restart, GndStart
<1> QED BY <1>1, <1>2, <1>3, <1>4, <1>5, <1>6, <1>7, <1>8, <1>9, <1>10, <1>11, <1>12,
           <1>13, <1>14, <1>15 DEF GndStep, GndWorkerStep

-----------------------------------------------------------------------------
\* The bounded counters only count.
LEMMA BoundsStep ==
  ASSUME BoundsOK, Next
  PROVE  BoundsOK'
<1> USE DEF BoundsOK, bounds
<1>1. CASE AirWorker
  BY <1>1 DEF AirWorker, air_begin_set_freq, air_begin_set_chwidth, air_end_dwell, air_retune
<1>2. CASE GndWorkerStep
  BY <1>2 DEF GndWorkerStep, Scan, Analyze, gnd_retune, gnd_inject, gnd_pop,
     gnd_begin_set_freq, gnd_mgmt_load_width, gnd_mgmt_follow, gnd_mgmt_stay, scan_begin,
     scan_skip, scan_visit, scan_reset_frequency, scan_reset_width, scan_load_frequency,
     scan_hit, scan_miss, scan_done, analyze_begin, analyze_visit, analyze_listen, analyze_done
<1>3. CASE mgmt_frame_received \/ mgmt_store_frequency \/ cb_passive_apply
  BY <1>3 DEF mgmt_frame_received, mgmt_store_frequency, cb_passive_apply
<1>4. ASSUME NEW i, air_request(i) \/ gnd_request(i) \/ cb_passive_persist(i)
      PROVE  BoundsOK'
  BY <1>4 DEF air_request, gnd_request, cb_passive_persist
<1>5. CASE air_restart \/ gnd_restart
  BY <1>5 DEF air_restart, gnd_restart
<1> QED BY <1>1, <1>2, <1>3, <1>4, <1>5 DEF Next

\* The ground unit's steps keep the injection as wanted; the air unit has no
\* part in it.
LEMMA InjectionStep ==
  ASSUME GndTypeOK, BoundsOK, Injection, GndStep
  PROVE  Injection'
<1> USE DEF Injection, GndTypeOK, BoundsOK, bounds, gndVars, gndWorker, gndShared
<1>1. CASE gnd_begin_set_freq \/ gnd_mgmt_follow \/ analyze_done
  BY <1>1 DEF gnd_begin_set_freq, gnd_mgmt_follow, analyze_done, apply_channel
<1>2. CASE gnd_retune
  BY <1>2 DEF gnd_retune
<1>3. CASE gnd_inject
  BY <1>3 DEF gnd_inject, GndRets
<1>4. CASE gnd_pop \/ gnd_mgmt_load_width \/ gnd_mgmt_stay
  BY <1>4 DEF gnd_pop, gnd_mgmt_load_width, gnd_mgmt_stay
<1>5. CASE Scan
  <2>1. CASE scan_begin
    BY <2>1 DEF scan_begin
  <2>2. ASSUME NEW c \in Freqs, scan_skip(c) \/ scan_visit(c)
        PROVE  Injection'
    BY <2>2 DEF scan_skip, scan_visit, apply_channel
  <2>3. CASE scan_reset_frequency \/ scan_reset_width \/ scan_load_frequency
    BY <2>3 DEF scan_reset_frequency, scan_reset_width, scan_load_frequency
  <2>4. CASE scan_hit \/ scan_miss
    BY <2>4 DEF scan_hit, scan_miss
  <2>5. CASE scan_done
    <3>1. toggles' = toggles /\ g_cb' = g_cb /\ g_pc' = "retune"
      BY <2>5 DEF scan_done, apply_channel
    <3> QED BY <3>1
  <2> QED BY <1>5, <2>1, <2>2, <2>3, <2>4, <2>5 DEF Scan
<1>6. CASE analyze_begin \/ analyze_listen
  BY <1>6 DEF analyze_begin, analyze_listen
<1>7. ASSUME NEW c \in Freqs, analyze_visit(c)
      PROVE  Injection'
  BY <1>7 DEF analyze_visit, apply_channel
<1>8. CASE mgmt_frame_received \/ mgmt_store_frequency
  BY <1>8 DEF mgmt_frame_received, mgmt_store_frequency
<1>9. ASSUME NEW i \in GndItems, gnd_request(i)
      PROVE  Injection'
  BY <1>9 DEF gnd_request
<1>10. ASSUME NEW v \in BOOLEAN, cb_passive_persist(v)
       PROVE  Injection'
  BY <1>10 DEF cb_passive_persist
<1>11. CASE cb_passive_apply
  BY <1>11 DEF cb_passive_apply
<1>12. CASE gnd_restart
  BY <1>12 DEF gnd_restart, GndStart
<1> QED BY <1>1, <1>2, <1>3, <1>4, <1>5, <1>6, <1>7, <1>8, <1>9, <1>10, <1>11, <1>12
        DEF GndStep, GndWorkerStep, Analyze

\* No step of the air unit touches the ground unit's bounds on the parameter.
LEMMA AirStepToggles ==
  ASSUME AirStep
  PROVE  toggles' = toggles
  BY DEF AirStep, AirWorker, air_begin_set_freq, air_begin_set_chwidth, air_end_dwell,
     air_retune, air_restart, air_request, bounds

\* A step is one of the two units', and leaves the other one alone.
LEMMA StepsAreLocal ==
  ASSUME Next
  PROVE  \/ AirStep /\ UNCHANGED gndVars
         \/ GndStep /\ UNCHANGED airVars
  BY DEF Next, AirStep, GndStep, AirWorker, GndWorkerStep, Scan, Analyze, gndVars, gndWorker,
     gndShared, bounds, air_begin_set_freq,
     air_begin_set_chwidth, air_end_dwell, air_retune, air_restart, air_request,
     mgmt_frame_received, mgmt_store_frequency, gnd_request, gnd_retune, gnd_inject, gnd_pop,
     gnd_begin_set_freq, gnd_mgmt_load_width, gnd_mgmt_follow, gnd_mgmt_stay, scan_begin,
     scan_skip, scan_visit, scan_reset_frequency, scan_reset_width, scan_load_frequency,
     scan_hit, scan_miss, scan_done, analyze_begin, analyze_visit, analyze_listen,
     analyze_done, cb_passive_persist, cb_passive_apply, gnd_restart

\* The constructors of both units establish the invariant.
LEMMA InitInv == Init => IndInv
<1> SUFFICES ASSUME Init PROVE IndInv
  OBVIOUS
<1>1. AirInv
  BY DEF Init, AirInv, AirTypeOK, Announced, AirSettled
<1>2. GndInv
  BY ConstantFacts DEF Init, GndInv, GndTypeOK, FoundComplete, RetuneGoesHome, GroundSettled,
     Home, Channel, Report, GndPcs, GndRets
<1>3. BoundsOK
  BY DEF Init, BoundsOK
<1>4. Injection
  BY DEF Init, Injection
<1> QED BY <1>1, <1>2, <1>3, <1>4 DEF IndInv

\* Every step of either unit, and stuttering, keeps it.
LEMMA NextInv == IndInv /\ [Next]_vars => IndInv'
<1> SUFFICES ASSUME IndInv, [Next]_vars PROVE IndInv'
  OBVIOUS
<1>1. ASSUME UNCHANGED airVars
      PROVE  AirInv'
  BY <1>1 DEF IndInv, AirInv, AirTypeOK, Announced, AirSettled, airVars
<1>2. ASSUME UNCHANGED gndVars
      PROVE  GndInv'
  BY <1>2 DEF IndInv, GndInv, GndTypeOK, FoundComplete, RetuneGoesHome, GroundSettled, Home,
     gndVars, gndWorker, gndShared
<1>3. CASE Next
  <2>1. BoundsOK'
    BY <1>3, BoundsStep DEF IndInv
  <2>2. CASE AirStep /\ UNCHANGED gndVars
    <3>1. Injection'
      BY <2>2, AirStepToggles DEF IndInv, Injection, gndVars, gndWorker, gndShared
    <3> QED BY <1>2, <2>1, <2>2, <3>1, AirStepInv DEF IndInv
  <2>3. CASE GndStep /\ UNCHANGED airVars
    <3>1. Injection'
      BY <2>3, InjectionStep DEF IndInv, GndInv
    <3> QED BY <1>1, <2>1, <2>3, <3>1, GndStepInv DEF IndInv, AirInv
  <2> QED BY <1>3, <2>2, <2>3, StepsAreLocal
<1>4. CASE UNCHANGED vars
  <2>1. Injection'
    BY <1>4 DEF IndInv, Injection, vars, bounds, gndVars, gndWorker, gndShared
  <2> QED BY <1>1, <1>2, <1>4, <2>1 DEF IndInv, BoundsOK, vars, bounds
<1> QED BY <1>3, <1>4

\* The inductive invariant holds in every reachable state of both units.
THEOREM Invariance == Spec => []IndInv
  BY InitInv, NextInv, PTL DEF Spec

\* Type correctness, with the completeness of every channel the ground unit
\* adopts (wt_gnd_perform_channel_management, perform_channel_scan).
THEOREM TypeCorrect == Spec => []TypeOK
<1>1. IndInv => TypeOK
  BY DEF IndInv, AirInv, GndInv, BoundsOK, TypeOK
<1> QED BY <1>1, Invariance, PTL

\* Between two work items the air unit announces, transmits and is tuned as
\* its persisted settings say, through every restart (loop_do_work).
THEOREM AirSettles == Spec => []AirSettled
<1>1. IndInv => AirSettled
  BY DEF IndInv, AirInv
<1> QED BY <1>1, Invariance, PTL

\* Between two work items the ground unit's cards are on its home channel,
\* whatever scan, analyze, request or report moved them (loop_do_work).
THEOREM GroundSettles == Spec => []GroundSettled
<1>1. IndInv => GroundSettled
  BY DEF IndInv, GndInv
<1> QED BY <1>1, Invariance, PTL

\* The ground unit listens in silence during a scan and injects otherwise
\* exactly if the user did not ask for listen-only mode, through every item,
\* followed report and restart, as long as nobody changes that setting
\* (re_enable_injection_unless_user_passive_mode_enabled).
THEOREM InjectsAsWanted == Spec => []InjectionAsWanted
<1>1. IndInv => InjectionAsWanted
  BY DEF IndInv, Injection, InjectionAsWanted
<1> QED BY <1>1, Invariance, PTL

=============================================================================
