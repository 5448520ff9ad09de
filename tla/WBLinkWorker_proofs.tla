------------------------ MODULE WBLinkWorker_proofs ------------------------
(***************************************************************************)
(* Proofs about WBLinkWorker for any cards, profiles, power values and     *)
(* bounds: no update of the transmit power is lost, what is reported is    *)
(* what was applied, and 40 MHz means reduced power.                       *)
(***************************************************************************)
EXTENDS WBLinkWorker, TLAPS

(***************************************************************************)
(* The inductive invariant. While apply_txpower is under way, the cards it *)
(* has passed have their power, unless somebody has asked for another one. *)
(***************************************************************************)

\* The settings that the power of a card depends on.
SamePower(s, t) ==
  /\ s.power = t.power /\ s.power_armed = t.power_armed
  /\ s.level = t.level /\ s.pit = t.pit /\ s.width = t.width

Asked == power_flag \/ param_cb.state = "raise" \/ arm_cb = "raise"

Applying == pc \in {"apply_base", "apply_card"}

\* The settings that were copied are those in use, and the cards before this one
\* have got their power.
PassedAreCurrent ==
  Applying /\ ~Asked =>
    /\ SamePower(snapshot, settings)
    /\ \A c \in Cards : c < card => applied[c] = CardPower(settings, armed, c, profiles)

BaseIsCurrent == pc = "apply_card" /\ ~Asked => base = BasePower(settings, armed, card)

\* Also with an update pending, the width was copied after it was set.
PassedAreReduced ==
  Applying =>
    /\ snapshot.width = settings.width
    /\ IsAir /\ settings.width = 40 =>
         \A c \in AuCards \cap Cards : c < card => applied[c] <= Reduced

Power == /\ PassedAreCurrent /\ BaseIsCurrent /\ PassedAreReduced
         /\ NoLostPowerUpdate /\ ReducedPowerAt40

IInv == TypeOK /\ Power

(***************************************************************************)
(* The powers.                                                             *)
(***************************************************************************)

LEMMA CardsAreSlots ==
  ASSUME unit \in Units
  PROVE  /\ unit.cards \in 1 .. NSlots /\ IsAir \in BOOLEAN
         /\ Cards \subseteq Slots /\ 0 \in Cards
  BY CardsAssumption DEF Cards, Slots, IsAir

LEMMA ProfileTyped ==
  ASSUME NEW c \in Slots, NEW l \in 0 .. 3
  PROVE  Profile[c][l] \in Nat \cup {NoPower}
<1>1. CardInfo[c].power \in [0 .. 3 -> Nat \cup {NoPower}]
  BY ValuesAssumption
<1>2. to_power_profile(CardInfo[c]).power[l] \in Nat
  BY <1>1 DEF to_power_profile, NoPower
<1> QED  BY <1>2 DEF Profile

LEMMA BaseTyped ==
  ASSUME NEW s \in Settings, NEW a \in BOOLEAN, NEW c \in Slots
  PROVE  BasePower(s, a, c) \in Powers
  BY DEF BasePower, Settings, ArmedDisabled

LEMMA LevelTyped ==
  ASSUME NEW s \in Settings, NEW a \in BOOLEAN, NEW c \in Slots, NEW v \in BOOLEAN,
         NEW p \in Powers
  PROVE  LevelPower(s, a, c, v, p) \in Nat
<1>1. p \in Nat
  BY ValuesAssumption
<1>2. s.level \in Levels \cup {Disabled}
  BY DEF Settings
<1>3. CASE s.level # Disabled
  <2>0. s.level \in Disabled .. 3
    BY <1>2, <1>3, ValuesAssumption
  <2>1. s.level \in 0 .. 3
    BY <2>0, <1>3 DEF Disabled
  <2>2. (IF s.pit /\ ~a THEN Lowest ELSE s.level) \in 0 .. 3
    BY <2>1 DEF Lowest
  <2> QED  BY <1>1, <2>2, ProfileTyped DEF LevelPower
<1>4. CASE s.level = Disabled
  BY <1>1, <1>4 DEF LevelPower
<1> QED  BY <1>3, <1>4

LEMMA WidthTyped ==
  ASSUME NEW s, NEW c, NEW p \in Nat
  PROVE  WidthPower(s, c, p) \in Nat
  BY DEF WidthPower, Reduced

\* An RTL_88X2AU card of an air unit at 40 MHz.
LEMMA WidthReduces ==
  ASSUME NEW s, NEW c \in AuCards, NEW p \in Nat, IsAir, s.width = 40
  PROVE  WidthPower(s, c, p) <= Reduced
  BY DEF WidthPower, Reduced

LEMMA CardPowerSame ==
  ASSUME NEW s, NEW t, SamePower(s, t), NEW a, NEW c, NEW v
  PROVE  CardPower(s, a, c, v) = CardPower(t, a, c, v)
  BY DEF SamePower, CardPower, WidthPower, LevelPower, BasePower

LEMMA CardPowerTyped ==
  ASSUME NEW s \in Settings, NEW a \in BOOLEAN, NEW c \in Slots, NEW v \in BOOLEAN
  PROVE  CardPower(s, a, c, v) \in Nat
  BY BaseTyped, LevelTyped, WidthTyped DEF CardPower

(***************************************************************************)
(* The types.                                                              *)
(***************************************************************************)

Callbacks == [state : {"idle", "raise"}]
               \cup [state : {"legacy"}, value : Powers, armed : BOOLEAN, next : 0 .. NSlots]

LEMMA ItemFacts ==
  ASSUME NEW q \in Items \cup {None}
  PROVE  /\ q.op = "SET_TX_POWER" => /\ q.slot \in Slots /\ q.armed \in BOOLEAN
                                     /\ q.value \in Powers \cup {ArmedDisabled}
                                     /\ ~q.armed => q.value \in Powers
         /\ q.op = "SET_AIR_MCS" => q.mcs \in 0 .. 31
         /\ q.op = "SET_CHWIDTH" => q.width \in {20, 40}
<1>1. CASE q \in PowerItems
  BY <1>1 DEF PowerItems
<1>2. CASE q \in AirItems
  BY <1>2 DEF AirItems, validate_air_mcs_index_change, validate_air_channel_width_change
<1>3. CASE q \in OtherItems
  BY <1>3 DEF OtherItems
<1>4. CASE q = None
  BY <1>4 DEF None
<1> QED  BY <1>1, <1>2, <1>3, <1>4 DEF Items

LEMMA CallbackTypes ==
  ASSUME TypeOK, ChangeCallback \/ CallbackContinues
  PROVE  TypeOK'
<1>1. ASSUME NEW i \in Items, try_schedule_work_item(i) PROVE TypeOK'
  BY <1>1 DEF TypeOK, try_schedule_work_item, applyVars, fcVars, Items, Cards, IsAir
<1>2. ASSUME NEW l \in Levels \cup {Disabled}, request_set_tx_power_level(l) PROVE TypeOK'
  <2>1. settings' \in Settings
    BY <1>2 DEF TypeOK, request_set_tx_power_level, Settings
  <2>2. param_cb' \in Callbacks
    BY <1>2 DEF request_set_tx_power_level, Callbacks
  <2> QED  BY <1>2, <2>1, <2>2 DEF TypeOK, request_set_tx_power_level, queueVars, applyVars,
                fcVars, Items, Cards, IsAir, Callbacks
<1>3. ASSUME NEW v \in BOOLEAN, cb_wb_pit_mode(v) PROVE TypeOK'
  <2>1. settings' \in Settings
    BY <1>3 DEF TypeOK, cb_wb_pit_mode, Settings
  <2>2. param_cb' \in Callbacks
    BY <1>3 DEF cb_wb_pit_mode, Callbacks
  <2> QED  BY <1>3, <2>1, <2>2 DEF TypeOK, cb_wb_pit_mode, queueVars, applyVars, fcVars, Items,
                Cards, IsAir, Callbacks
<1>4. ASSUME NEW v \in BOOLEAN, cb_mcs_via_rc_channel(v) PROVE TypeOK'
  <2>1. settings' \in Settings
    BY <1>4 DEF TypeOK, cb_mcs_via_rc_channel, Settings
  <2> QED  BY <1>4, <2>1 DEF TypeOK, cb_mcs_via_rc_channel, queueVars, applyVars, fcVars, Items,
                Cards, IsAir
<1>5. ASSUME NEW p \in Powers, NEW a \in BOOLEAN, legacy_override_begin(p, a) PROVE TypeOK'
  <2>1. param_cb' \in Callbacks
    BY <1>5, CardsAssumption DEF legacy_override_begin, Callbacks
  <2> QED  BY <1>5, <2>1 DEF TypeOK, legacy_override_begin, queueVars, applyVars, fcVars, Items,
                Cards, IsAir, Callbacks
<1>6. CASE raise_power_flag
  <2>1. param_cb' \in Callbacks
    BY <1>6 DEF raise_power_flag, Callbacks
  <2> QED  BY <1>6, <2>1 DEF TypeOK, raise_power_flag, queueVars, applyVars, fcVars, bounds, Items,
                Cards, IsAir, Callbacks
<1>7. CASE legacy_override_slot
  <2>1. /\ param_cb \in [state : {"legacy"}, value : Powers, armed : BOOLEAN, next : 0 .. NSlots]
        /\ param_cb.next \in Slots
    BY <1>7, CardsAssumption DEF TypeOK, legacy_override_slot, Slots
  <2>2. param_cb' \in Callbacks
    BY <1>7, <2>1, CardsAssumption DEF legacy_override_slot, Callbacks, Slots
  <2>3. LegacyItem \in PowerItems
    BY <2>1 DEF LegacyItem, PowerItems
  <2>4. queue' \in Items \cup {None}
    BY <1>7, <2>3 DEF TypeOK, legacy_override_slot, Items
  <2> QED  BY <1>7, <2>2, <2>4 DEF TypeOK, legacy_override_slot, applyVars, fcVars, bounds, Items,
                Cards, IsAir, Callbacks
<1>8. CASE legacy_override_return
  <2>1. param_cb' \in Callbacks
    BY <1>8 DEF legacy_override_return, Callbacks
  <2> QED  BY <1>8, <2>1 DEF TypeOK, legacy_override_return, queueVars, applyVars, fcVars, bounds,
                Items, Cards, IsAir, Callbacks
<1> QED
  BY <1>1, <1>2, <1>3, <1>4, <1>5, <1>6, <1>7, <1>8 DEF ChangeCallback, CallbackContinues

LEMMA FlightTypes ==
  ASSUME TypeOK,
         \/ update_arming_state \/ raise_after_arming \/ \E p \in Pwms : set_rc_channels(p)
  PROVE  TypeOK'
<1>1. CASE update_arming_state
  BY <1>1 DEF TypeOK, update_arming_state, queueVars, applyVars, Items, Cards, IsAir
<1>2. CASE raise_after_arming
  BY <1>2 DEF TypeOK, raise_after_arming, queueVars, applyVars, bounds, Items, Cards, IsAir
<1>3. CASE \E p \in Pwms : set_rc_channels(p)
  BY <1>3 DEF TypeOK, set_rc_channels, queueVars, applyVars, Items, Cards, IsAir
<1> QED  BY <1>1, <1>2, <1>3

LEMMA RcTyped ==
  ASSUME NEW p \in Pwms \cup {NoRc}
  PROVE  McsFromRc(p) \in {NoRc} \cup 0 .. 4
<1>1. p \in Int
  <2>1. Pwms \subseteq Nat
    BY ValuesAssumption
  <2>2. CASE p \in Pwms
    BY <2>1, <2>2
  <2>3. CASE p = NoRc
    BY <2>3 DEF NoRc
  <2> QED  BY <2>2, <2>3
<1>2. \/ p < 900 \/ p > 2100
      \/ p \in 900 .. 1200 \/ p \in 1201 .. 1400 \/ p \in 1401 .. 1600 \/ p \in 1601 .. 1800
      \/ p \in 1801 .. 2100
  BY <1>1
<1>3. {NoRc, 0, 1, 2, 3, 4} \subseteq {NoRc} \cup 0 .. 4
  OBVIOUS
<1> QED  BY <1>1, <1>2, <1>3 DEF McsFromRc

LEMMA ItemTypes ==
  ASSUME TypeOK,
         \/ do_set_tx_power \/ do_set_air_mcs \/ do_set_chwidth \/ do_retune
         \/ do_other \/ do_other_done \/ do_nothing
  PROVE  TypeOK'
<1>1. CASE do_set_tx_power
  <2>1. settings' \in Settings
    <3>1. /\ queue.slot \in Slots /\ queue.value \in Powers \cup {ArmedDisabled}
          /\ ~queue.armed => queue.value \in Powers
      BY <1>1, ItemFacts DEF TypeOK, do_set_tx_power
    <3>2. CASE queue.armed
      BY <1>1, <3>1, <3>2 DEF TypeOK, do_set_tx_power, Settings
    <3>3. CASE ~queue.armed
      BY <1>1, <3>1, <3>3 DEF TypeOK, do_set_tx_power, Settings
    <3> QED  BY <3>2, <3>3
  <2> QED  BY <1>1, <2>1 DEF TypeOK, do_set_tx_power, applyVars, fcVars, bounds, Items, Cards, IsAir
<1>2. CASE do_set_air_mcs
  <2>1. settings' \in Settings
    BY <1>2, ItemFacts DEF TypeOK, do_set_air_mcs, Settings
  <2> QED  BY <1>2, <2>1 DEF TypeOK, do_set_air_mcs, applyVars, fcVars, bounds, Items, Cards, IsAir
<1>3. CASE do_set_chwidth
  <2>1. settings' \in Settings
    BY <1>3, ItemFacts DEF TypeOK, do_set_chwidth, Settings
  <2> QED  BY <1>3, <2>1 DEF TypeOK, do_set_chwidth, queueVars, fcVars, bounds, Items, Cards, IsAir
<1>4. CASE do_retune
  <2>1. tuned_width' \in {20, 40}
    BY <1>4 DEF TypeOK, do_retune, Settings
  <2> QED  BY <1>4, <2>1 DEF TypeOK, do_retune, applyVars, fcVars, bounds, Items, Cards, IsAir
<1>5. CASE do_other
  BY <1>5 DEF TypeOK, do_other, queueVars, applyVars, fcVars, bounds, Items, Cards, IsAir
<1>6. CASE do_other_done
  BY <1>6 DEF TypeOK, do_other_done, applyVars, fcVars, bounds, Items, Cards, IsAir
<1>7. CASE do_nothing
  BY <1>7 DEF TypeOK, do_nothing, queueVars, applyVars, fcVars, bounds, Items, Cards, IsAir
<1> QED  BY <1>1, <1>2, <1>3, <1>4, <1>5, <1>6, <1>7

LEMMA ApplyTypes ==
  ASSUME TypeOK,
         \/ take_power_flag \/ no_power_flag \/ apply_begin \/ apply_base \/ apply_card
         \/ perform_mcs_via_rc \/ apply_mcs
  PROVE  TypeOK'
<1>0. Cards \subseteq Slots /\ 0 \in Cards
  BY CardsAreSlots DEF TypeOK
<1>1. CASE take_power_flag
  BY <1>1 DEF TypeOK, take_power_flag, queueVars, fcVars, bounds, Items, Cards, IsAir
<1>2. CASE no_power_flag
  BY <1>2 DEF TypeOK, no_power_flag, queueVars, applyVars, fcVars, bounds, Items, Cards, IsAir
<1>3. CASE apply_begin
  BY <1>0, <1>3 DEF TypeOK, apply_begin, queueVars, fcVars, bounds, Items, Cards, IsAir
<1>4. CASE apply_base
  <2>1. base' \in Powers
    BY <1>0, <1>4, BaseTyped DEF TypeOK, apply_base
  <2> QED  BY <1>4, <2>1 DEF TypeOK, apply_base, queueVars, fcVars, bounds, Items, Cards, IsAir
<1>5. CASE apply_card
  <2>1. WidthPower(snapshot, card, LevelPower(snapshot, armed, card, profiles, base)) \in Nat
    BY <1>0, LevelTyped, WidthTyped DEF TypeOK
  <2>2. applied' \in [Cards -> Nat]
    BY <1>5, <2>1 DEF TypeOK, apply_card
  <2>3. pc' \in {"apply_base", "rc", "retune"} /\ card' \in Cards
    BY <1>5 DEF TypeOK, apply_card
  <2> QED  BY <1>5, <2>2, <2>3 DEF TypeOK, apply_card, queueVars, fcVars, bounds, Items, Cards, IsAir
<1>6. CASE perform_mcs_via_rc
  <2>1. RcMcs \in {NoRc} \cup 0 .. 4
    BY RcTyped DEF TypeOK, RcMcs
  <2>2. settings' \in Settings
    <3>1. CASE RcMcs # NoRc
      <4>1. RcMcs \in 0 .. 31
        BY <2>1, <3>1
      <4> QED  BY <1>6, <4>1 DEF TypeOK, perform_mcs_via_rc, Settings
    <3>2. CASE RcMcs = NoRc
      BY <1>6, <3>2 DEF TypeOK, perform_mcs_via_rc
    <3> QED  BY <3>1, <3>2
  <2>3. mcs_flag' \in BOOLEAN
    BY <1>6 DEF TypeOK, perform_mcs_via_rc
  <2> QED  BY <1>6, <2>2, <2>3 DEF TypeOK, perform_mcs_via_rc, applyVars, fcVars, bounds, Items,
                Cards, IsAir
<1>7. CASE apply_mcs
  <2>1. header_mcs' \in 0 .. 31
    BY <1>7 DEF TypeOK, apply_mcs, Settings
  <2> QED  BY ZenonT(40), <1>7, <2>1 DEF TypeOK, apply_mcs, applyVars, fcVars, bounds, Items, Cards, IsAir
<1> QED  BY <1>1, <1>2, <1>3, <1>4, <1>5, <1>6, <1>7

LEMMA NextTypes == TypeOK /\ [Next]_vars => TypeOK'
<1> SUFFICES ASSUME TypeOK, [Next]_vars PROVE TypeOK'
  OBVIOUS
<1>1. CASE UNCHANGED vars
  BY <1>1 DEF TypeOK, vars, queueVars, applyVars, fcVars, bounds, Items, Cards, IsAir
<1> QED
  BY <1>1, CallbackTypes, FlightTypes, ItemTypes, ApplyTypes DEF Next, Worker

(***************************************************************************)
(* The power.                                                              *)
(***************************************************************************)

ApplyVars == << snapshot, profiles, card, base, applied >>

\* A step beside apply_txpower keeps the power if it asks for a new one, or if it
\* changes nothing that the power depends on. The width is the worker's.
LEMMA Beside ==
  ASSUME IInv, TypeOK',
         UNCHANGED << unit, ret, ApplyVars >>,
         pc' = pc \/ (pc \notin ApplyPcs /\ pc' \notin ApplyPcs),
         settings'.width = settings.width,
         Asked' \/ (~Asked /\ SamePower(settings', settings) /\ armed' = armed)
  PROVE  Power'
<1>1. CASE Asked'
  BY <1>1 DEF IInv, Power, PassedAreCurrent, BaseIsCurrent, PassedAreReduced, Applying,
     NoLostPowerUpdate, NothingPending, ReducedPowerAt40, Asked, Cards, IsAir, ApplyVars, ApplyPcs
<1>2. CASE ~Asked' /\ ~Asked /\ SamePower(settings', settings) /\ armed' = armed
  <2>1. \A c \in Cards : CardPower(settings', armed, c, profiles) = CardPower(settings, armed, c, profiles)
    BY <1>2, CardPowerSame
  <2>2. \A c \in Cards : BasePower(settings', armed, c) = BasePower(settings, armed, c)
    BY <1>2 DEF SamePower, BasePower
  <2>3. PassedAreCurrent'
    BY <1>2, <2>1 DEF IInv, Power, PassedAreCurrent, Applying, SamePower, Cards, ApplyVars, ApplyPcs,
       CardPower, WidthPower, LevelPower, BasePower, IsAir
  <2>4. BaseIsCurrent'
    BY <1>2, <2>2 DEF IInv, TypeOK, Power, BaseIsCurrent, Cards, ApplyVars, ApplyPcs, BasePower
  <2>5. PassedAreReduced'
    BY <1>2 DEF IInv, Power, PassedAreReduced, Applying, Cards, IsAir, ApplyVars, ApplyPcs
  <2>6. ReducedPowerAt40'
    BY <1>2 DEF IInv, Power, ReducedPowerAt40, Cards, IsAir, ApplyVars, ApplyPcs
  <2>7. NoLostPowerUpdate'
    <3>1. NothingPending' => NothingPending
      BY <1>2 DEF IInv, TypeOK, Asked, NothingPending, ApplyPcs
    <3> QED
      BY <1>2, <2>1, <3>1 DEF IInv, Power, NoLostPowerUpdate, PowerIsCurrent, Cards, ApplyVars,
         CardPower, WidthPower, LevelPower, BasePower, IsAir
  <2> QED  BY <2>3, <2>4, <2>5, <2>6, <2>7 DEF Power
<1> QED  BY <1>1, <1>2

LEMMA CallbackPower ==
  ASSUME IInv, TypeOK', ChangeCallback \/ CallbackContinues
  PROVE  Power'
<1>1. ASSUME NEW i \in Items, try_schedule_work_item(i) PROVE Power'
  BY <1>1, Beside DEF try_schedule_work_item, applyVars, ApplyVars, fcVars, SamePower, Asked
<1>2. ASSUME NEW l \in Levels \cup {Disabled}, request_set_tx_power_level(l) PROVE Power'
  BY <1>2, Beside
  DEF IInv, TypeOK, Settings, request_set_tx_power_level, applyVars, ApplyVars, fcVars, Asked
<1>3. ASSUME NEW v \in BOOLEAN, cb_wb_pit_mode(v) PROVE Power'
  BY <1>3, Beside DEF IInv, TypeOK, Settings, cb_wb_pit_mode, applyVars, ApplyVars, fcVars, Asked
<1>4. ASSUME NEW v \in BOOLEAN, cb_mcs_via_rc_channel(v) PROVE Power'
  <2>1. SamePower(settings', settings)
    BY <1>4 DEF IInv, TypeOK, Settings, cb_mcs_via_rc_channel, SamePower
  <2> QED  BY <1>4, <2>1, Beside
           DEF cb_mcs_via_rc_channel, applyVars, ApplyVars, fcVars, SamePower, Asked
<1>5. ASSUME NEW p \in Powers, NEW a \in BOOLEAN, legacy_override_begin(p, a) PROVE Power'
  BY <1>5, Beside
  DEF legacy_override_begin, CallbackIdle, applyVars, ApplyVars, fcVars, SamePower, Asked
<1>6. CASE raise_power_flag
  BY <1>6, Beside DEF raise_power_flag, applyVars, ApplyVars, fcVars, Asked
<1>7. CASE legacy_override_slot
  <2>1. param_cb'.state = "legacy"
    BY <1>7 DEF IInv, TypeOK, legacy_override_slot
  <2> QED  BY <1>7, <2>1, Beside
           DEF legacy_override_slot, applyVars, ApplyVars, fcVars, SamePower, Asked
<1>8. CASE legacy_override_return
  BY <1>8, Beside DEF legacy_override_return, applyVars, ApplyVars, fcVars, SamePower, Asked
<1> QED
  BY <1>1, <1>2, <1>3, <1>4, <1>5, <1>6, <1>7, <1>8 DEF ChangeCallback, CallbackContinues

LEMMA FlightPower ==
  ASSUME IInv, TypeOK',
         \/ update_arming_state \/ raise_after_arming \/ \E p \in Pwms : set_rc_channels(p)
  PROVE  Power'
<1>1. CASE update_arming_state
  BY <1>1, Beside DEF update_arming_state, applyVars, ApplyVars, Asked
<1>2. CASE raise_after_arming
  BY <1>2, Beside DEF raise_after_arming, applyVars, ApplyVars, Asked
<1>3. CASE \E p \in Pwms : set_rc_channels(p)
  BY <1>3, Beside DEF set_rc_channels, applyVars, ApplyVars, SamePower, Asked
<1> QED  BY <1>1, <1>2, <1>3

\* The items that leave the power alone or raise the flag, and the rest of a turn.
LEMMA WorkerBeside ==
  ASSUME IInv, TypeOK',
         \/ do_set_tx_power \/ do_set_air_mcs \/ do_retune \/ do_other \/ do_other_done
         \/ do_nothing \/ no_power_flag \/ perform_mcs_via_rc \/ apply_mcs
  PROVE  Power'
<1>1. CASE do_set_tx_power
  BY <1>1, Beside
  DEF IInv, TypeOK, Settings, do_set_tx_power, applyVars, ApplyVars, fcVars, Asked, ApplyPcs
<1>2. CASE do_set_air_mcs
  <2>1. SamePower(settings', settings)
    BY <1>2 DEF IInv, TypeOK, Settings, do_set_air_mcs, SamePower
  <2> QED  BY <1>2, <2>1, Beside
           DEF do_set_air_mcs, applyVars, ApplyVars, fcVars, SamePower, Asked, ApplyPcs
<1>3. CASE do_retune \/ do_other \/ do_other_done \/ do_nothing \/ no_power_flag \/ apply_mcs
  BY <1>3, Beside
  DEF do_retune, do_other, do_other_done, do_nothing, no_power_flag, apply_mcs, applyVars, ApplyVars,
      fcVars, SamePower, Asked, ApplyPcs
<1>4. CASE perform_mcs_via_rc
  <2>1. SamePower(settings', settings)
    BY <1>4 DEF IInv, TypeOK, Settings, perform_mcs_via_rc, SamePower
  <2> QED  BY <1>4, <2>1, Beside
           DEF perform_mcs_via_rc, applyVars, ApplyVars, fcVars, SamePower, Asked, ApplyPcs
<1> QED  BY <1>1, <1>2, <1>3, <1>4

\* The flag is lowered before anything that it is about is read.
LEMMA ApplyEntered ==
  ASSUME IInv, TypeOK', take_power_flag \/ do_set_chwidth \/ apply_begin
  PROVE  Power'
<1>1. CASE take_power_flag
  BY <1>1 DEF IInv, TypeOK, Power, PassedAreCurrent, BaseIsCurrent, PassedAreReduced, Applying,
     NoLostPowerUpdate, NothingPending, ReducedPowerAt40, Cards, IsAir, ApplyPcs, take_power_flag
<1>2. CASE do_set_chwidth
  BY <1>2 DEF IInv, TypeOK, Power, PassedAreCurrent, BaseIsCurrent, PassedAreReduced, Applying,
     NoLostPowerUpdate, NothingPending, ReducedPowerAt40, Cards, IsAir, ApplyPcs, do_set_chwidth
<1>3. CASE apply_begin
  <2>1. \A c \in Cards' : ~(c < card')
    BY <1>3, CardsAreSlots DEF IInv, TypeOK, apply_begin, Cards
  <2>2. PassedAreCurrent' /\ BaseIsCurrent' /\ PassedAreReduced'
    BY <1>3, <2>1 DEF PassedAreCurrent, BaseIsCurrent, PassedAreReduced, Applying, SamePower,
       apply_begin
  <2>3. NoLostPowerUpdate'
    BY <1>3 DEF NoLostPowerUpdate, NothingPending, ApplyPcs, apply_begin
  <2>4. ReducedPowerAt40'
    BY <1>3 DEF IInv, Power, ReducedPowerAt40, Cards, IsAir, ApplyPcs, apply_begin
  <2> QED  BY <2>2, <2>3, <2>4 DEF Power
<1> QED  BY <1>1, <1>2, <1>3

LEMMA ApplyBase ==
  ASSUME IInv, TypeOK', apply_base
  PROVE  Power'
<1>1. PassedAreCurrent'
  BY DEF IInv, Power, PassedAreCurrent, Applying, Asked, Cards, IsAir, apply_base, fcVars, SamePower,
     CardPower, WidthPower, LevelPower, BasePower
<1>2. BaseIsCurrent'
  BY DEF IInv, Power, PassedAreCurrent, BaseIsCurrent, Applying, Asked, apply_base, fcVars,
     SamePower, BasePower
<1>3. PassedAreReduced'
  BY DEF IInv, Power, PassedAreReduced, Applying, Cards, IsAir, apply_base
<1>4. NoLostPowerUpdate'
  BY DEF NoLostPowerUpdate, NothingPending, ApplyPcs, apply_base
<1>5. ReducedPowerAt40'
  BY DEF IInv, Power, ReducedPowerAt40, Cards, IsAir, ApplyPcs, apply_base
<1> QED  BY <1>1, <1>2, <1>3, <1>4, <1>5 DEF Power

\* The power of one card: current if nobody has asked, reduced in any case.
LEMMA ApplyCard ==
  ASSUME IInv, TypeOK', apply_card
  PROVE  Power'
<1> DEFINE p == WidthPower(snapshot, card, LevelPower(snapshot, armed, card, profiles, base))
<1>1. Cards \subseteq Int /\ card \in Cards /\ Cards \subseteq Slots
  BY CardsAreSlots DEF IInv, TypeOK, Slots
<1>2. \A c \in Cards : applied'[c] = IF c = card THEN p ELSE applied[c]
  BY DEF IInv, TypeOK, apply_card
<1>3. ~Asked => p = CardPower(settings, armed, card, profiles)
  <2>1. ~Asked => p = CardPower(snapshot, armed, card, profiles)
    BY DEF IInv, Power, PassedAreCurrent, BaseIsCurrent, Applying, SamePower, apply_card, CardPower,
       BasePower
  <2>2. ~Asked => SamePower(snapshot, settings)
    BY DEF IInv, Power, PassedAreCurrent, Applying, apply_card
  <2> QED  BY <2>1, <2>2, CardPowerSame
<1>4. IsAir /\ settings.width = 40 /\ card \in AuCards => p <= Reduced
  <2>1. LevelPower(snapshot, armed, card, profiles, base) \in Nat
    BY <1>1, LevelTyped DEF IInv, TypeOK
  <2>2. snapshot.width = settings.width
    BY DEF IInv, Power, PassedAreReduced, Applying, apply_card
  <2> QED  BY <2>1, <2>2, WidthReduces
<1> HIDE DEF p
<1>5. Asked' = Asked /\ UNCHANGED << unit, settings, snapshot, profiles, armed, ret >>
  BY DEF Asked, apply_card, fcVars
<1>6. ~Asked => \A c \in Cards : c < card => applied[c] = CardPower(settings, armed, c, profiles)
  BY DEF IInv, Power, PassedAreCurrent, Applying, apply_card
<1>7. IsAir /\ settings.width = 40 =>
        \A c \in AuCards \cap Cards : c < card => applied[c] <= Reduced
  BY DEF IInv, Power, PassedAreReduced, Applying, apply_card
<1>8. Cards' = Cards /\ IsAir' = IsAir
  BY <1>5 DEF Cards, IsAir
<1>9. \A c : CardPower(settings, armed, c, profiles)' = CardPower(settings', armed', c, profiles')
  BY <1>5 DEF CardPower, WidthPower, LevelPower, BasePower, IsAir
<1>10. CASE card + 1 \in Cards
  <2>1. card' = card + 1 /\ pc' = "apply_base"
    BY <1>10 DEF apply_card
  <2>2. \A c \in Cards : c < card + 1 => c < card \/ c = card
    BY <1>1
  <2>3. PassedAreCurrent'
    BY <1>2, <1>3, <1>5, <1>6, <1>8, <1>9, <2>1, <2>2
    DEF IInv, Power, PassedAreCurrent, Applying, SamePower, apply_card
  <2>4. BaseIsCurrent'
    BY <2>1 DEF BaseIsCurrent
  <2>5. PassedAreReduced'
    BY ZenonT(40), <1>1, <1>2, <1>4, <1>5, <1>7, <1>8, <2>1, <2>2
    DEF IInv, Power, PassedAreReduced, Applying, apply_card
  <2>6. NoLostPowerUpdate'
    BY <2>1 DEF NoLostPowerUpdate, NothingPending, ApplyPcs
  <2>7. ReducedPowerAt40'
    BY <1>2, <1>4, <1>5, <1>8, <2>1 DEF IInv, Power, ReducedPowerAt40, ApplyPcs, apply_card
  <2> QED  BY <2>3, <2>4, <2>5, <2>6, <2>7 DEF Power
<1>11. CASE card + 1 \notin Cards
  <2>1. pc' \in {"rc", "retune"}
    BY <1>11 DEF IInv, TypeOK, apply_card
  <2>0. unit.cards \in Int
    BY CardsAreSlots, CardsAssumption DEF IInv, TypeOK
  <2>2. \A c \in Cards : c < card \/ c = card
    BY <1>1, <1>11, <2>0 DEF Cards
  <2>3. PassedAreCurrent' /\ BaseIsCurrent' /\ PassedAreReduced'
    BY <2>1 DEF PassedAreCurrent, BaseIsCurrent, PassedAreReduced, Applying
  <2>4. NoLostPowerUpdate'
    <3>1. NothingPending' => ~Asked
      BY <1>5 DEF NothingPending, Asked
    <3> QED  BY <1>2, <1>3, <1>5, <1>6, <1>8, <1>9, <2>2, <3>1
             DEF NoLostPowerUpdate, PowerIsCurrent
  <2>5. ReducedPowerAt40'
    BY <1>2, <1>4, <1>5, <1>7, <1>8, <2>2 DEF ReducedPowerAt40
  <2> QED  BY <2>3, <2>4, <2>5 DEF Power
<1> QED  BY <1>10, <1>11

(***************************************************************************)
(* The theorems.                                                           *)
(***************************************************************************)

LEMMA InitTypes == Init => TypeOK
<1> SUFFICES ASSUME Init PROVE TypeOK
  OBVIOUS
<1>1. unit \in Units /\ Cards \subseteq Slots /\ 0 \in Cards /\ 0 \in Slots
  BY CardsAreSlots DEF Init
<1>2. settings \in Settings
  <2>1. settings \in [power : {[i \in Slots |-> q] : q \in Powers},
                     power_armed : {[i \in Slots |-> ArmedDisabled]},
                     level : {Disabled}, pit : {FALSE}, width : {20, 40}, mcs : Mcs \cap 0 .. 31,
                     mcs_via_rc : {FALSE}]
    BY DEF Init
  <2>2. \A f \in {[i \in Slots |-> q] : q \in Powers} : f \in [Slots -> Powers]
    OBVIOUS
  <2>3. [i \in Slots |-> ArmedDisabled] \in [Slots -> Powers \cup {ArmedDisabled}]
    OBVIOUS
  <2> QED  BY <2>1, <2>2, <2>3 DEF Settings
<1>3. settings.power[0] \in Powers
  BY <1>1, <1>2 DEF Settings
<1>4. \A c \in Cards : CardPower(settings, FALSE, c, FALSE) \in Nat
  BY <1>1, <1>2, CardPowerTyped
<1>5. applied \in [Cards -> Nat]
  BY <1>4 DEF Init
<1>6. settings.width \in {20, 40} /\ settings.mcs \in 0 .. 31
  BY <1>2 DEF Settings
<1> QED  BY <1>1, <1>2, <1>3, <1>5, <1>6 DEF Init, TypeOK

LEMMA InitPower == Init => Power
<1> SUFFICES ASSUME Init PROVE Power
  OBVIOUS
<1>1. PassedAreCurrent /\ BaseIsCurrent /\ PassedAreReduced
  BY DEF Init, PassedAreCurrent, BaseIsCurrent, PassedAreReduced, Applying
<1>2. NoLostPowerUpdate
  BY DEF Init, NoLostPowerUpdate, PowerIsCurrent
<1>3. ReducedPowerAt40
  <2> SUFFICES ASSUME IsAir, settings.width = 40, NEW c \in AuCards \cap Cards
               PROVE  applied[c] <= Reduced
    BY DEF ReducedPowerAt40
  <2>1. settings \in Settings /\ c \in Slots
    BY InitTypes, CardsAreSlots DEF TypeOK
  <2>2. LevelPower(settings, FALSE, c, FALSE, BasePower(settings, FALSE, c)) \in Nat
    BY <2>1, BaseTyped, LevelTyped
  <2>3. applied[c] = WidthPower(settings, c,
                       LevelPower(settings, FALSE, c, FALSE, BasePower(settings, FALSE, c)))
    BY DEF Init, CardPower
  <2> QED  BY <2>2, <2>3, WidthReduces
<1> QED  BY <1>1, <1>2, <1>3 DEF Power

LEMMA NextPreserves == IInv /\ [Next]_vars => IInv'
<1> SUFFICES ASSUME IInv, [Next]_vars PROVE IInv'
  OBVIOUS
<1>1. TypeOK'
  BY NextTypes DEF IInv
<1>2. CASE UNCHANGED vars
  BY <1>1, <1>2, Beside DEF IInv, vars, applyVars, ApplyVars, fcVars, Asked, SamePower
<1>3. CASE Worker
  BY <1>1, <1>3, WorkerBeside, ApplyEntered, ApplyBase, ApplyCard DEF IInv, Worker
<1> QED
  BY <1>1, <1>2, <1>3, CallbackPower, FlightPower DEF IInv, Next

LEMMA Inductive == Spec => []IInv
<1>1. Init => IInv
  BY InitTypes, InitPower DEF IInv
<1> QED  BY <1>1, NextPreserves, PTL DEF Spec

\* Every state of the worker is well typed, for any cards and settings; in
\* particular a legacy parameter only makes items for slots there are
\* (get_all_settings), and the RC channel selects MCS indices 0 to 4.
THEOREM TypeCorrect == Spec => []TypeOK
<1>1. IInv => TypeOK
  BY DEF IInv
<1> QED  BY <1>1, Inductive, PTL

\* No update of the power is lost, and what the statistics report is what the
\* cards got, whatever arming, parameters and items race with apply_txpower: for
\* any number of cards, any profiles of sysutil and any settings.
THEOREM PowerAgrees == Spec => []PowerAsSet
<1>1. NoLostPowerUpdate => ReportedAsApplied
  BY DEF NoLostPowerUpdate, PowerIsCurrent, ReportedAsApplied, CardPower, LevelPower, BasePower,
     get_effective_power
<1>2. IInv => PowerAsSet
  BY <1>1 DEF IInv, Power, PowerAsSet
<1> QED  BY <1>2, Inductive, PTL

\* At 40 MHz no RTL_88X2AU card of an air unit has more than the reduced power,
\* also while updates of the power are pending (apply_txpower,
\* request_set_air_tx_channel_width).
THEOREM PowerReduced == Spec => []ReducedPowerAt40
<1>1. IInv => ReducedPowerAt40
  BY DEF IInv, Power
<1> QED  BY <1>1, Inductive, PTL
=============================================================================
