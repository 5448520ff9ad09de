---------------------------- MODULE WBLinkWorker ----------------------------
(***************************************************************************)
(* The worker thread of one WBLink: its one-item work queue, the transmit  *)
(* power of the cards and the MCS index of the transmit headers.           *)
(*                                                                         *)
(* Three threads meet here.  The worker runs loop_do_work.  The parameter  *)
(* thread runs the change callbacks of get_all_settings: some enqueue an   *)
(* item, some write a setting and then raise m_request_apply_tx_power.     *)
(* The flight controller's thread reports arming and RC channels.          *)
(*                                                                         *)
(* Every card takes its power in one unit (an index on RTL_88X2AU, mW on   *)
(* the others); the settings here are the ones in the unit of the card.    *)
(***************************************************************************)
EXTENDS Integers, FiniteSets

CONSTANTS
  Units,        \* the units to look at: m_profile.is_air, number of broadcast cards,
                \* and (a bound) the calls of change callbacks
  NSlots,       \* MAX_WIFI_CARDS: card i uses setting slot i
  AuCards,      \* cards of type OPENHD_RTL_88X2AU
  Powers,       \* values a request may set
  Levels,       \* power levels a request may set
  CardInfo,     \* sysutil's entry for a card: its mode, and its power per level or NoPower
  Mcs,          \* MCS indices a request may ask for
  Capable,      \* of the card of the air unit: whether it injects 40 MHz, varies the MCS index
  Pwms,         \* values of the RC channel that selects the MCS index
  MaxArmings,   \* bound: changes of the arming state
  MaxRc         \* bound: changes of the RC channel

Slots == 0 .. NSlots - 1

Disabled == -1          \* WB_TX_POWER_LEVEL_DISABLED
Lowest == 0             \* WB_TX_POWER_LEVEL_LOWEST
ArmedDisabled == 0      \* no separate value for the armed state
NoPower == -1           \* no value
NoRc == -1              \* no RC channels reported yet
Reduced == 50           \* highest index at 40 MHz

ASSUME CardsAssumption ==
  /\ NSlots \in Nat \ {0}
  /\ Units \subseteq [is_air : BOOLEAN, cards : 1 .. NSlots, calls : Nat]
  /\ AuCards \subseteq Slots
ASSUME ValuesAssumption ==
  /\ Powers \subseteq Nat /\ Powers # {}
  /\ Levels \subseteq Disabled .. 3
  /\ CardInfo \in [Slots -> [mode : {"", "MW", "INDEX", "FIXED"},
                             power : [0 .. 3 -> Nat \cup {NoPower}]]]
  /\ Mcs \subseteq Nat /\ Capable \in [wide : BOOLEAN, mcs : BOOLEAN]
  /\ Pwms \subseteq Nat
ASSUME BoundsAssumption ==
  MaxArmings \in Nat /\ MaxRc \in Nat

None == [op |-> "none"]
PowerItems == [op : {"SET_TX_POWER"}, slot : Slots, armed : {FALSE}, value : Powers]
                \cup [op : {"SET_TX_POWER"}, slot : Slots, armed : {TRUE},
                      value : Powers \cup {ArmedDisabled}]

validate_air_mcs_index_change(m) == m \in 0 .. 31 /\ Capable.mcs
validate_air_channel_width_change(w) == w \in {20, 40} /\ (w = 40 => Capable.wide)

AirItems == [op : {"SET_AIR_MCS"}, mcs : {m \in Mcs : validate_air_mcs_index_change(m)}]
              \cup [op : {"SET_CHWIDTH"}, width : {w \in {20, 40, 80} : validate_air_channel_width_change(w)}]
\* SET_FREQ, SCAN_CHANNELS and ANALYZE_CHANNELS only keep the worker busy here.
OtherItems == [op : {"OTHER"}]

VARIABLES
  unit,         \* which unit this is
  settings,     \* the persisted settings
  queue,        \* the work item, or None
  pc,           \* worker
  ret,          \* where apply_txpower returns to
  snapshot,     \* its copy of the settings
  profiles,     \* whether its request to sysutil was answered
  card,         \* the card it is at
  base,         \* power of that card before power levels are considered
  applied,      \* power set in each card
  tuned_width,  \* channel width the cards are tuned to
  header_mcs,   \* MCS index in the transmit headers
  power_flag,   \* m_request_apply_tx_power
  mcs_flag,     \* m_request_apply_air_mcs_index
  armed,        \* m_is_armed
  arm_cb,       \* update_arming_state between its two stores
  param_cb,     \* a change callback between two of its stores or requests
  rc_pwm,       \* last value of the RC channel
  requests, armings, rc_changes

queueVars == <<queue, mcs_flag>>
applyVars == <<ret, snapshot, profiles, card, base, applied>>
fcVars == <<armed, arm_cb, rc_pwm>>
bounds == <<requests, armings, rc_changes>>
vars == <<unit, settings, queueVars, pc, applyVars, tuned_width, header_mcs, power_flag, fcVars,
          param_cb, bounds>>

IsAir == unit.is_air
Cards == 0 .. unit.cards - 1
Items == PowerItems \cup OtherItems \cup (IF IsAir THEN AirItems ELSE {})

-----------------------------------------------------------------------------
(***************************************************************************)
(* What apply_txpower sets.                                                *)
(***************************************************************************)

\* A profile exists if sysutil has a value for some level; the others are 0.
to_power_profile(info) ==
  [exists |-> \E l \in 0 .. 3 : info.power[l] # NoPower,
   mode |-> info.mode,
   power |-> [l \in 0 .. 3 |-> IF info.power[l] = NoPower THEN 0 ELSE info.power[l]]]

resolve_power_mode(p, c) ==
  CASE p.mode # "" -> p.mode
    [] p.mode = "" /\ c \in AuCards -> "INDEX"
    [] OTHER -> "MW"

is_valid_power_value(v, is_index) == is_index \/ v \in 10 .. 30000

\* The value of each level that counts for the card, in the unit it takes: none
\* of a fixed card, none in mW for an RTL_88X2AU.
Profile ==
  [c \in Slots |-> [l \in 0 .. 3 |->
    LET p == to_power_profile(CardInfo[c])
        mode == resolve_power_mode(p, c)
    IN IF /\ p.exists /\ mode # "FIXED" /\ (c \in AuCards => mode = "INDEX")
          /\ is_valid_power_value(p.power[l], c \in AuCards)
       THEN p.power[l] ELSE NoPower]]

BasePower(s, is_armed, c) ==
  IF is_armed /\ s.power_armed[c] # ArmedDisabled THEN s.power_armed[c] ELSE s.power[c]

\* A level replaces the configured power if sysutil has a usable value; pit
\* mode holds a disarmed unit at the lowest level.
LevelPower(s, is_armed, c, answered, power) ==
  LET level == IF s.pit /\ ~is_armed THEN Lowest ELSE s.level
  IN IF s.level # Disabled /\ answered /\ Profile[c][level] # NoPower
     THEN Profile[c][level] ELSE power

\* Mutant: the width is not considered.
MutWidthPower(s, c, power) == power

WidthPower(s, c, power) ==
  IF IsAir /\ c \in AuCards /\ power > Reduced /\ s.width = 40 THEN Reduced ELSE power

CardPower(s, is_armed, c, answered) ==
  WidthPower(s, c, LevelPower(s, is_armed, c, answered, BasePower(s, is_armed, c)))

get_effective_power(s, is_armed, c, answered) ==
  LET power == IF is_armed /\ s.power_armed[c] # ArmedDisabled THEN s.power_armed[c] ELSE s.power[c]
      level == IF s.pit /\ ~is_armed THEN Lowest ELSE s.level
  IN IF s.level # Disabled /\ answered /\ Profile[c][level] # NoPower
     THEN Profile[c][level] ELSE power

-----------------------------------------------------------------------------
(***************************************************************************)
(* The change callbacks (parameter thread).                                *)
(***************************************************************************)

CallbackIdle == param_cb.state = "idle"

\* try_schedule_work_item: an item is taken if the queue is empty; otherwise,
\* also while the worker executes an item, the request is rejected.
try_schedule_work_item(item) ==
  /\ requests < unit.calls
  /\ CallbackIdle
  /\ queue = None
  /\ queue' = item
  /\ requests' = requests + 1
  /\ UNCHANGED <<unit, settings, mcs_flag, pc, applyVars, tuned_width, header_mcs, power_flag,
                 fcVars, param_cb, armings, rc_changes>>

\* request_set_tx_power_level and cb_wb_pit_mode write their setting ...
request_set_tx_power_level(level) ==
  /\ requests < unit.calls
  /\ CallbackIdle
  /\ settings' = [settings EXCEPT !.level = level]
  /\ param_cb' = [state |-> "raise"]
  /\ requests' = requests + 1
  /\ UNCHANGED <<unit, queueVars, pc, applyVars, tuned_width, header_mcs, power_flag, fcVars,
                 armings, rc_changes>>

cb_wb_pit_mode(value) ==
  /\ requests < unit.calls
  /\ CallbackIdle
  /\ settings' = [settings EXCEPT !.pit = value]
  /\ param_cb' = [state |-> "raise"]
  /\ requests' = requests + 1
  /\ UNCHANGED <<unit, queueVars, pc, applyVars, tuned_width, header_mcs, power_flag, fcVars,
                 armings, rc_changes>>

\* ... and then raise the flag.
raise_power_flag ==
  /\ param_cb.state = "raise"
  /\ power_flag' = TRUE
  /\ param_cb' = [state |-> "idle"]
  /\ UNCHANGED <<unit, settings, queueVars, pc, applyVars, tuned_width, header_mcs, fcVars, bounds>>

\* The legacy parameters for all cards call the request once per slot.
legacy_override_begin(value, is_armed) ==
  /\ requests < unit.calls
  /\ CallbackIdle
  /\ param_cb' = [state |-> "legacy", value |-> value, armed |-> is_armed, next |-> 0]
  /\ requests' = requests + 1
  /\ UNCHANGED <<unit, settings, queueVars, pc, applyVars, tuned_width, header_mcs, power_flag,
                 fcVars, armings, rc_changes>>

LegacyItem == [op |-> "SET_TX_POWER", slot |-> param_cb.next, armed |-> param_cb.armed,
               value |-> param_cb.value]

\* A rejected slot (the worker holds the queue's lock while it looks at the
\* queue, too) makes the callback return false, but the loop goes on.
legacy_override_slot ==
  /\ param_cb.state = "legacy"
  /\ param_cb.next < NSlots
  /\ \/ queue = None /\ queue' = LegacyItem
     \/ (queue # None \/ pc = "top") /\ UNCHANGED queue
  /\ param_cb' = [param_cb EXCEPT !.next = @ + 1]
  /\ UNCHANGED <<unit, settings, mcs_flag, pc, applyVars, tuned_width, header_mcs, power_flag, fcVars,
                 bounds>>

legacy_override_return ==
  /\ param_cb.state = "legacy"
  /\ param_cb.next = NSlots
  /\ param_cb' = [state |-> "idle"]
  /\ UNCHANGED <<unit, settings, queueVars, pc, applyVars, tuned_width, header_mcs, power_flag, fcVars,
                 bounds>>

\* cb_mcs_via_rc_channel: which channel, if any, selects the MCS index.
cb_mcs_via_rc_channel(value) ==
  /\ IsAir
  /\ requests < unit.calls
  /\ CallbackIdle
  /\ settings' = [settings EXCEPT !.mcs_via_rc = value]
  /\ requests' = requests + 1
  /\ UNCHANGED <<unit, queueVars, pc, applyVars, tuned_width, header_mcs, power_flag, fcVars, param_cb,
                 armings, rc_changes>>

-----------------------------------------------------------------------------
(***************************************************************************)
(* The flight controller's thread.                                         *)
(***************************************************************************)

\* update_arming_state: the new state is stored first, ...
update_arming_state ==
  /\ armings < MaxArmings
  /\ arm_cb = "idle"
  /\ armed' = ~armed
  /\ arm_cb' = "raise"
  /\ armings' = armings + 1
  /\ UNCHANGED <<unit, settings, queueVars, pc, applyVars, tuned_width, header_mcs, power_flag, rc_pwm,
                 param_cb, requests, rc_changes>>

\* Mutant: no new power is asked for.
MutRaiseAfterArming ==
  /\ arm_cb = "raise"
  /\ arm_cb' = "idle"
  /\ UNCHANGED <<unit, settings, queueVars, pc, applyVars, tuned_width, header_mcs, power_flag, armed,
                 rc_pwm, param_cb, bounds>>

\* ... then the worker is asked to apply it.
raise_after_arming ==
  /\ arm_cb = "raise"
  /\ power_flag' = TRUE
  /\ arm_cb' = "idle"
  /\ UNCHANGED <<unit, settings, queueVars, pc, applyVars, tuned_width, header_mcs, armed, rc_pwm,
                 param_cb, bounds>>

set_rc_channels(pwm) ==
  /\ IsAir
  /\ rc_changes < MaxRc
  /\ rc_pwm' = pwm
  /\ rc_changes' = rc_changes + 1
  /\ UNCHANGED <<unit, settings, queueVars, pc, applyVars, tuned_width, header_mcs, power_flag, armed,
                 arm_cb, param_cb, requests, armings>>

-----------------------------------------------------------------------------
(***************************************************************************)
(* The worker: one turn of loop_do_work.                                   *)
(***************************************************************************)

\* The item of request_set_tx_power_mw or request_set_tx_power_rtl8812au.
do_set_tx_power ==
  /\ pc = "top"
  /\ queue.op = "SET_TX_POWER"
  /\ settings' = IF queue.armed
                 THEN [settings EXCEPT !.power_armed[queue.slot] = queue.value]
                 ELSE [settings EXCEPT !.power[queue.slot] = queue.value]
  /\ power_flag' = TRUE
  /\ queue' = None
  /\ pc' = "flag"
  /\ UNCHANGED <<unit, mcs_flag, applyVars, tuned_width, header_mcs, fcVars, param_cb, bounds>>

do_set_air_mcs ==
  /\ pc = "top"
  /\ queue.op = "SET_AIR_MCS"
  /\ settings' = [settings EXCEPT !.mcs = queue.mcs]
  /\ mcs_flag' = TRUE
  /\ queue' = None
  /\ pc' = "flag"
  /\ UNCHANGED <<unit, applyVars, tuned_width, header_mcs, power_flag, fcVars, param_cb, bounds>>

\* The item of request_set_air_tx_channel_width: persist, apply the power for
\* the new width ...
do_set_chwidth ==
  /\ pc = "top"
  /\ queue.op = "SET_CHWIDTH"
  /\ settings' = [settings EXCEPT !.width = queue.width]
  /\ pc' = "apply"
  /\ ret' = "retune"
  /\ UNCHANGED <<unit, queueVars, snapshot, profiles, card, base, applied, tuned_width, header_mcs,
                 power_flag, fcVars, param_cb, bounds>>

\* ... and 200 ms later tune the card, which may refuse.
do_retune ==
  /\ pc = "retune"
  /\ tuned_width' \in {tuned_width, settings.width}
  /\ queue' = None
  /\ pc' = "flag"
  /\ UNCHANGED <<unit, settings, mcs_flag, applyVars, header_mcs, power_flag, fcVars, param_cb, bounds>>

do_other ==
  /\ pc = "top"
  /\ queue.op = "OTHER"
  /\ pc' = "busy"
  /\ UNCHANGED <<unit, settings, queueVars, applyVars, tuned_width, header_mcs, power_flag, fcVars,
                 param_cb, bounds>>

do_other_done ==
  /\ pc = "busy"
  /\ queue' = None
  /\ pc' = "flag"
  /\ UNCHANGED <<unit, settings, mcs_flag, applyVars, tuned_width, header_mcs, power_flag, fcVars,
                 param_cb, bounds>>

do_nothing ==
  /\ pc = "top"
  /\ queue = None
  /\ pc' = "flag"
  /\ UNCHANGED <<unit, settings, queueVars, applyVars, tuned_width, header_mcs, power_flag, fcVars,
                 param_cb, bounds>>

\* A raised flag is lowered before the power is applied.
take_power_flag ==
  /\ pc = "flag"
  /\ power_flag
  /\ power_flag' = FALSE
  /\ pc' = "apply"
  /\ ret' = "rc"
  /\ UNCHANGED <<unit, settings, queueVars, snapshot, profiles, card, base, applied, tuned_width,
                 header_mcs, fcVars, param_cb, bounds>>

no_power_flag ==
  /\ pc = "flag"
  /\ ~power_flag
  /\ pc' = "rc"
  /\ UNCHANGED <<unit, settings, queueVars, applyVars, tuned_width, header_mcs, power_flag, fcVars,
                 param_cb, bounds>>

\* apply_txpower: copy the settings and ask sysutil for the power profiles
\* (no answer means none), ...
apply_begin ==
  /\ pc = "apply"
  /\ snapshot' = settings
  /\ profiles' \in BOOLEAN
  /\ card' = 0
  /\ pc' = "apply_base"
  /\ UNCHANGED <<unit, settings, queueVars, ret, base, applied, tuned_width, header_mcs, power_flag,
                 fcVars, param_cb, bounds>>

\* ... then, card by card, look at the arming state for the configured power
apply_base ==
  /\ pc = "apply_base"
  /\ base' = BasePower(snapshot, armed, card)
  /\ pc' = "apply_card"
  /\ UNCHANGED <<unit, settings, queueVars, ret, snapshot, profiles, card, applied, tuned_width,
                 header_mcs, power_flag, fcVars, param_cb, bounds>>

\* Mutant: the flag is lowered after the power has been applied.
MutApplyCard ==
  /\ pc = "apply_card"
  /\ applied' = [applied EXCEPT ![card] =
                   WidthPower(snapshot, card, LevelPower(snapshot, armed, card, profiles, base))]
  /\ IF card + 1 \in Cards THEN card' = card + 1 /\ pc' = "apply_base"
                          ELSE card' = card /\ pc' = ret
  /\ power_flag' = FALSE
  /\ UNCHANGED <<unit, settings, queueVars, ret, snapshot, profiles, base, tuned_width, header_mcs,
                 fcVars, param_cb, bounds>>

\* and again for pit mode, and set the result.
apply_card ==
  /\ pc = "apply_card"
  /\ applied' = [applied EXCEPT ![card] =
                   WidthPower(snapshot, card, LevelPower(snapshot, armed, card, profiles, base))]
  /\ IF card + 1 \in Cards THEN card' = card + 1 /\ pc' = "apply_base"
                          ELSE card' = card /\ pc' = ret
  /\ UNCHANGED <<unit, settings, queueVars, ret, snapshot, profiles, base, tuned_width, header_mcs,
                 power_flag, fcVars, param_cb, bounds>>

\* get_mcs_from_rc_channel; NoRc where the channel selects nothing.
McsFromRc(pwm) ==
  CASE pwm < 900 \/ pwm > 2100 -> NoRc
    [] pwm \in 900 .. 1200 -> 0
    [] pwm \in 1201 .. 1400 -> 1
    [] pwm \in 1401 .. 1600 -> 2
    [] pwm \in 1601 .. 1800 -> 3
    [] pwm \in 1801 .. 2100 -> 4

RcMcs == IF IsAir /\ settings.mcs_via_rc THEN McsFromRc(rc_pwm) ELSE NoRc

\* Mutant: the headers are not told of the index selected by the RC channel.
MutMcsViaRc ==
  /\ pc = "rc"
  /\ settings' = IF RcMcs # NoRc THEN [settings EXCEPT !.mcs = RcMcs] ELSE settings
  /\ pc' = "mcs"
  /\ UNCHANGED <<unit, queue, mcs_flag, applyVars, tuned_width, header_mcs, power_flag, fcVars, param_cb,
                 bounds>>

\* wt_perform_mcs_via_rc_channel_if_enabled
perform_mcs_via_rc ==
  /\ pc = "rc"
  /\ LET change == RcMcs # NoRc /\ RcMcs # settings.mcs
     IN /\ settings' = IF change THEN [settings EXCEPT !.mcs = RcMcs] ELSE settings
        /\ mcs_flag' = (change \/ mcs_flag)
  /\ pc' = "mcs"
  /\ UNCHANGED <<unit, queue, applyVars, tuned_width, header_mcs, power_flag, fcVars, param_cb, bounds>>

\* The end of the turn: the headers get the persisted MCS index.
apply_mcs ==
  /\ pc = "mcs"
  /\ header_mcs' = IF mcs_flag THEN settings.mcs ELSE header_mcs
  /\ mcs_flag' = FALSE
  /\ pc' = "top"
  /\ UNCHANGED <<unit, settings, queue, applyVars, tuned_width, power_flag, fcVars, param_cb, bounds>>

-----------------------------------------------------------------------------

Settings == [power : [Slots -> Powers], power_armed : [Slots -> Powers \cup {ArmedDisabled}],
             level : Levels \cup {Disabled}, pit : BOOLEAN, width : {20, 40}, mcs : 0 .. 31,
             mcs_via_rc : BOOLEAN]

\* What the constructor leaves behind for the last persisted settings: their
\* power is applied for the disarmed state, the headers have their MCS index.
Init ==
  /\ unit \in Units
  /\ settings \in {s \in [power : {[i \in Slots |-> p] : p \in Powers},
                          power_armed : {[i \in Slots |-> ArmedDisabled]},
                          level : {Disabled}, pit : {FALSE}, width : {20, 40}, mcs : Mcs \cap 0 .. 31,
                          mcs_via_rc : {FALSE}] : IsAir \/ s.width = 20}
  /\ queue = None
  /\ pc = "top"
  /\ ret = "rc"
  /\ snapshot = settings
  /\ profiles = FALSE
  /\ card = 0
  /\ base = settings.power[0]
  /\ applied = [c \in Cards |-> CardPower(settings, FALSE, c, FALSE)]
  /\ tuned_width = settings.width
  /\ header_mcs = settings.mcs
  /\ power_flag = FALSE
  /\ mcs_flag = FALSE
  /\ armed = FALSE
  /\ arm_cb = "idle"
  /\ param_cb = [state |-> "idle"]
  /\ rc_pwm = NoRc
  /\ requests = 0 /\ armings = 0 /\ rc_changes = 0

Worker ==
  \/ do_set_tx_power \/ do_set_air_mcs \/ do_set_chwidth \/ do_retune
  \/ do_other \/ do_other_done \/ do_nothing
  \/ take_power_flag \/ no_power_flag
  \/ apply_begin \/ apply_base \/ apply_card
  \/ perform_mcs_via_rc \/ apply_mcs

CallbackContinues == raise_power_flag \/ legacy_override_slot \/ legacy_override_return

ChangeCallback ==
  \/ \E i \in Items : try_schedule_work_item(i)
  \/ \E l \in Levels \cup {Disabled} : request_set_tx_power_level(l)
  \/ \E v \in BOOLEAN : cb_wb_pit_mode(v) \/ cb_mcs_via_rc_channel(v)
  \/ \E p \in Powers, a \in BOOLEAN : legacy_override_begin(p, a)

Next ==
  \/ Worker
  \/ ChangeCallback
  \/ CallbackContinues
  \/ update_arming_state \/ raise_after_arming
  \/ \E p \in Pwms : set_rc_channels(p)

\* The worker only ever sleeps for a bounded time, and a callback that has
\* begun runs to its end.  Nobody is assumed to call anything.
Fairness ==
  /\ WF_vars(Worker)
  /\ WF_vars(CallbackContinues)
  /\ WF_vars(raise_after_arming)

Spec == Init /\ [][Next]_vars
FairSpec == Spec /\ Fairness

-----------------------------------------------------------------------------
TypeOK ==
  /\ unit \in Units
  /\ settings \in Settings /\ snapshot \in Settings
  /\ queue \in Items \cup {None}
  /\ pc \in {"top", "retune", "busy", "flag", "apply", "apply_base", "apply_card", "rc", "mcs"}
  /\ ret \in {"rc", "retune"}
  /\ profiles \in BOOLEAN
  /\ card \in Cards
  /\ base \in Powers
  /\ applied \in [Cards -> Nat]
  /\ tuned_width \in {20, 40}
  /\ header_mcs \in 0 .. 31
  /\ power_flag \in BOOLEAN /\ mcs_flag \in BOOLEAN /\ armed \in BOOLEAN
  /\ arm_cb \in {"idle", "raise"}
  /\ param_cb \in [state : {"idle", "raise"}]
                    \cup [state : {"legacy"}, value : Powers, armed : BOOLEAN, next : 0 .. NSlots]
  /\ rc_pwm \in Pwms \cup {NoRc}
  /\ requests \in Nat /\ armings \in Nat /\ rc_changes \in Nat

ApplyPcs == {"apply", "apply_base", "apply_card"}

\* Nobody has asked for a power that has not been applied: no flag, no
\* callback before its flag, no apply_txpower under way.
NothingPending ==
  /\ pc \notin ApplyPcs /\ ~power_flag
  /\ param_cb.state # "raise" /\ arm_cb = "idle"

PowerIsCurrent == \A c \in Cards : applied[c] = CardPower(settings, armed, c, profiles)

\* No update of the transmit power is lost: whatever arming, power, level, pit
\* mode and width changes raced with apply_txpower, once nothing is pending
\* every card has the power for the present settings and arming state
\* (m_request_apply_tx_power is raised after the stores and lowered before
\* they are read).
NoLostPowerUpdate == NothingPending => PowerIsCurrent

\* At 40 MHz no RTL_88X2AU card of the air unit has more than the reduced
\* power, pending updates or not, except while the item that switches to
\* 40 MHz is about to reduce it (request_set_air_tx_channel_width).
ReducedPowerAt40 ==
  IsAir /\ settings.width = 40 /\ ~(pc \in ApplyPcs /\ ret = "retune") =>
    \A c \in AuCards \cap Cards : applied[c] <= Reduced

\* What the link statistics give as the power of the present arming state is
\* what the cards have, but for the reduction, once nothing is pending and
\* sysutil still answers as it did (wt_update_statistics, apply_txpower).
ReportedAsApplied ==
  NothingPending => \A c \in Cards :
    applied[c] = WidthPower(settings, c, get_effective_power(settings, armed, c, profiles))

\* Both: set, applied and reported power agree.
PowerAsSet == NoLostPowerUpdate /\ ReportedAsApplied

\* A legacy parameter is a global override that is accepted or rejected: once
\* its callback has returned and the queue is empty, slots that had the same
\* value before have the same value again (get_all_settings).  It does not hold:
\* the first item of the callback may still wait when it asks for the next.
LegacyOverrideAllOrNone ==
  param_cb.state = "legacy" /\ param_cb.next = NSlots /\ queue = None =>
    \A i, j \in Slots : /\ settings.power[i] = settings.power[j]
                        /\ settings.power_armed[i] = settings.power_armed[j]

\* The cards end up with the power for the last settings and arming state.
PowerSettles == <>[]PowerIsCurrent

\* An MCS index selected by the RC channel reaches the headers, also against
\* requests for another one (wt_perform_mcs_via_rc_channel_if_enabled).
RcChannelWins ==
  \A m \in {McsFromRc(p) : p \in Pwms} \ {NoRc} : (RcMcs = m) ~> (header_mcs = m \/ RcMcs # m)

=============================================================================
