---------------------------- MODULE WBRateControl ----------------------------
(***************************************************************************)
(* Thermal protection and video rate adjustment of the air unit: the part  *)
(* of a turn of loop_do_work that decides whether video is transmitted and *)
(* which bitrate the encoder is asked for.                                 *)
(*                                                                         *)
(* Time is counted in ticks, one per turn of the loop.                     *)
(***************************************************************************)
EXTENDS Integers, Sequences

CONSTANTS
  X20,         \* values of OHDPlatform::is_x20: only this platform has a sensor
  Temps,       \* readings of the sensor (degree); 0 if it cannot be read
  LimitsFile,  \* values of "disable_thermal_limits.txt exists"
  Spaces, Widths, Mcs,  \* band of the frequency, channel widths, MCS indices
  Fecs, Percents,       \* wb_video_fec_percentage, ..._mcs_adjustment_percent
  Hold,        \* ticks thermal protection stays active (10 seconds)
  MaxChanges   \* bound: changes of settings and of the arming state

ASSUME ThermalAssumption ==
  /\ X20 \subseteq BOOLEAN /\ X20 # {} /\ Temps \subseteq Nat /\ Temps # {}
  /\ LimitsFile \subseteq BOOLEAN /\ LimitsFile # {}
  /\ Hold \in Nat
ASSUME ConfigsAssumption ==   \* what the setters accept
  /\ Spaces \subseteq {"2G", "5G"} /\ Widths \subseteq {10, 20, 40} /\ Mcs \subseteq 0 .. 31
  /\ Fecs \subseteq 1 .. 400 /\ Percents \subseteq 6 .. 1000
ASSUME BoundAssumption == MaxChanges \in Nat

\* The part of WBLinkSettings that the rate depends on.
Configs == [space : Spaces, width : Widths, mcs : Mcs, fec : Fecs, percent : Percents,
            variable : BOOLEAN]

-----------------------------------------------------------------------------
(***************************************************************************)
(* Rates (kBit/s).                                                         *)
(***************************************************************************)

\* rtl8812au_get_max_rate_5G_kbits for MCS index 0 to 12: 10, 20 and 40 MHz.
RateTable == <<
  << 2900,  4700,  7400>>, << 5100,  9800, 15300>>, << 7600, 13200, 20600>>,
  << 9400, 16200, 25000>>, <<11000, 20000, 30000>>, <<13000, 23000, 40000>>,
  <<15000, 26000, 50000>>, <<17000, 29000, 55000>>, << 8700,  8700, 18100>>,
  <<13000, 18000, 28000>>, <<15000, 22000, 33000>>, <<18000, 27000, 46000>>,
  <<19000, 27000, 46000>> >>

WidthColumn == [w \in {10, 20, 40} |-> CASE w = 10 -> 1 [] w = 20 -> 2 [] w = 40 -> 3]

MaxRate5G(mcs, width) ==
  IF mcs < Len(RateTable) THEN RateTable[mcs + 1][WidthColumn[width]] ELSE 5000

\* get_max_rate_possible_2G_kbits scales the 5G rate.
MaxRate2G(mcs, width) == (MaxRate5G(mcs, width) * 100) \div 80

\* calculate_bitrate_for_wifi_config_kbits
TotalRate(c) ==
  ((IF c.space = "2G" THEN MaxRate2G(c.mcs, c.width) ELSE MaxRate5G(c.mcs, c.width))
     * c.percent) \div 100

\* Mutant: the overhead is taken as a part of the whole.
MutDeduceFecOverhead(rate, fec) == (rate * (100 - fec)) \div 100

\* deduce_fec_overhead: the quotient, rounded half up.
deduce_fec_overhead(rate, fec) == (200 * rate + 100 + fec) \div (2 * (100 + fec))

VideoRate(c) == deduce_fec_overhead(TotalRate(c), c.fec)

-----------------------------------------------------------------------------
VARIABLES
  is_x20,        \* the platform
  settings,      \* the wifi configuration and enable_wb_video_variable_bitrate
  armed,         \* m_is_armed
  temp,          \* what the sensor would read
  limits_file,   \* "disable_thermal_limits.txt" exists
  level,         \* m_thermal_protection_level
  held,          \* ticks since m_thermal_protection_enable_tp, capped at Hold
  freq_changed,  \* m_rate_adjustment_frequency_changed
  max_total,     \* m_max_total_rate_for_current_wifi_config_kbits
  max_video,     \* m_max_video_rate_for_current_wifi_fec_config
  announced,     \* last bitrate the encoder was asked for
  pc,            \* next part of the turn
  changes

rateVars == <<is_x20, settings, armed, temp, limits_file, level, held, freq_changed, max_total, max_video,
          announced, pc, changes>>

NONE == 0            \* THERMAL_PROTECTION_NONE
RATE_REDUCED == 1    \* THERMAL_PROTECTION_RATE_REDUCED
VIDEO_DISABLED == 2  \* THERMAL_PROTECTION_VIDEO_DISABLED

\* The level a temperature calls for.
LevelFor(t) == IF t >= 95 THEN VIDEO_DISABLED ELSE IF t >= 85 THEN RATE_REDUCED ELSE NONE

\* Mutant: a lower level is taken at once.
MutNextLevel(t) == LevelFor(t)

\* Without limits or reading there is no protection; a higher level is taken
\* at once; a lower one after the hold time, and back from VIDEO_DISABLED only
\* once the card has cooled down significantly.
NextLevel(t) ==
  IF limits_file \/ t = 0 THEN NONE
  ELSE IF LevelFor(t) > level THEN LevelFor(t)
  ELSE IF held >= Hold /\ (level = VIDEO_DISABLED => t <= 70) THEN LevelFor(t)
  ELSE level

\* wt_perform_update_thermal_protection.
update_thermal_protection ==
  /\ pc = "thermal"
  /\ pc' = "rate"
  /\ IF is_x20
       THEN /\ level' = NextLevel(temp)
            /\ held' = IF level' > level THEN 0 ELSE held
       ELSE UNCHANGED <<level, held>>
  /\ UNCHANGED <<is_x20, settings, armed, temp, limits_file, freq_changed, max_total, max_video,
                 announced, changes>>

\* recommend_bitrate_to_encoder ignores what is not positive.
recommend(kbits) == announced' = IF kbits <= 0 THEN announced ELSE kbits

x20_rate(rate) ==
  (((rate * (IF level > NONE THEN 30 ELSE 70)) \div 100) * (IF armed THEN 100 ELSE 50)) \div 100

NextTurn ==
  /\ pc' = "thermal"
  /\ held' = IF held < Hold THEN held + 1 ELSE held

\* wt_perform_rate_adjustment: nothing to do without variable bitrate, ...
skip_rate_adjustment ==
  /\ pc = "rate"
  /\ ~settings.variable
  /\ NextTurn
  /\ UNCHANGED <<is_x20, settings, armed, temp, limits_file, level, freq_changed, max_total, max_video,
                 announced, changes>>

\* Mutant: only a change of frequency starts over.
MutConfigChanged == max_video = 0 \/ freq_changed

ConfigChanged == max_video # VideoRate(settings) \/ freq_changed

\* ... the plain rate for a new configuration or frequency, ...
apply_default_rate ==
  /\ pc = "rate"
  /\ settings.variable
  /\ ConfigChanged
  /\ max_total' = TotalRate(settings)
  /\ max_video' = VideoRate(settings)
  /\ freq_changed' = FALSE
  /\ recommend(max_video')
  /\ NextTurn
  /\ UNCHANGED <<is_x20, settings, armed, temp, limits_file, level, changes>>

\* ... and otherwise the adjusted rate of the present one.
adjust_rate ==
  /\ pc = "rate"
  /\ settings.variable
  /\ ~ConfigChanged
  /\ max_total' = TotalRate(settings)
  /\ recommend(IF is_x20 THEN x20_rate(max_video) ELSE max_video)
  /\ NextTurn
  /\ UNCHANGED <<is_x20, settings, armed, temp, limits_file, level, freq_changed, max_video, changes>>

\* Work items run before the rest of the turn. SET_FREQ also marks the
\* frequency as changed, even if it is the same one (an X20 only takes 5G), ...
set_frequency(space) ==
  /\ pc = "thermal"
  /\ changes < MaxChanges
  /\ is_x20 => space = "5G"
  /\ settings' = [settings EXCEPT !.space = space]
  /\ freq_changed' = TRUE
  /\ changes' = changes + 1
  /\ UNCHANGED <<is_x20, armed, temp, limits_file, level, held, max_total, max_video, announced, pc>>

\* ... SET_CHWIDTH and SET_AIR_MCS do not.
set_width_or_mcs(width, mcs) ==
  /\ pc = "thermal"
  /\ changes < MaxChanges
  /\ settings' = [settings EXCEPT !.width = width, !.mcs = mcs]
  /\ width = settings.width \/ mcs = settings.mcs
  /\ changes' = changes + 1
  /\ UNCHANGED <<is_x20, armed, temp, limits_file, level, held, freq_changed, max_total, max_video,
                 announced, pc>>

\* set_air_video_fec_percentage, set_air_wb_video_rate_for_mcs_adjustment_percent
\* and set_air_enable_wb_video_variable_bitrate write at any time.
set_parameter(field, value) ==
  /\ changes < MaxChanges
  /\ settings' = [settings EXCEPT ![field] = value]
  /\ changes' = changes + 1
  /\ UNCHANGED <<is_x20, armed, temp, limits_file, level, held, freq_changed, max_total, max_video,
                 announced, pc>>

update_arming_state ==
  /\ changes < MaxChanges
  /\ armed' = ~armed
  /\ changes' = changes + 1
  /\ UNCHANGED <<is_x20, settings, temp, limits_file, level, held, freq_changed, max_total, max_video,
                 announced, pc>>

\* The temperature, its readability and the file change at any time.
environment(t, f) ==
  /\ is_x20
  /\ temp' = t /\ limits_file' = f
  /\ UNCHANGED <<is_x20, settings, armed, level, held, freq_changed, max_total, max_video, announced,
                 pc, changes>>

RateInit ==
  /\ is_x20 \in X20
  /\ settings \in {c \in Configs : is_x20 => c.space = "5G"}
  /\ armed = FALSE
  /\ IF is_x20 THEN temp \in Temps /\ limits_file \in LimitsFile
               ELSE temp = 0 /\ limits_file = FALSE
  /\ level = NONE
  /\ held = 0
  /\ freq_changed = FALSE
  /\ max_total = 0 /\ max_video = 0
  /\ announced = -1
  /\ pc = "thermal"
  /\ changes = 0

Worker ==
  \/ update_thermal_protection
  \/ skip_rate_adjustment \/ apply_default_rate \/ adjust_rate

RateNext ==
  \/ Worker
  \/ \E space \in Spaces : set_frequency(space)
  \/ \E width \in Widths, mcs \in Mcs : set_width_or_mcs(width, mcs)
  \/ \E fec \in Fecs : set_parameter("fec", fec)
  \/ \E percent \in Percents : set_parameter("percent", percent)
  \/ \E b \in BOOLEAN : set_parameter("variable", b)
  \/ update_arming_state
  \/ \E t \in Temps, f \in LimitsFile : environment(t, f)

RateSpec == RateInit /\ [][RateNext]_rateVars

\* The worker never blocks for good.
FairSpec == RateSpec /\ WF_rateVars(Worker)

-----------------------------------------------------------------------------
TypeOK ==
  /\ is_x20 \in X20
  /\ settings \in Configs
  /\ armed \in BOOLEAN
  /\ temp \in Temps \cup {0} /\ limits_file \in BOOLEAN
  /\ level \in NONE .. VIDEO_DISABLED
  /\ held \in 0 .. Hold
  /\ freq_changed \in BOOLEAN
  /\ max_total \in Nat /\ max_video \in Nat
  /\ announced \in (Nat \ {0}) \cup {-1}
  /\ pc \in {"thermal", "rate"}
  /\ changes \in Nat

\* The encoder is never asked for more than what the wifi configuration it
\* was computed for can carry next to its error correction, within half a
\* kBit/s of rounding (wt_perform_rate_adjustment, deduce_fec_overhead).
RateFitsChannel ==
  \A c \in Configs : max_video = VideoRate(c) /\ announced > 0 =>
    announced <= max_video /\ 2 * (100 * TotalRate(c) - max_video * (100 + c.fec)) >= -(100 + c.fec)

\* While the sensor can be read and the limits are on, some protection that is
\* activated stays active for at least the hold time, and video comes back only
\* after cooling down to 70 degrees (wt_perform_update_thermal_protection).
ThermalHold ==
  [][temp > 0 /\ ~limits_file /\ level' < level =>
       held >= Hold /\ (level = VIDEO_DISABLED => temp <= 70)]_rateVars

\* A turn of the loop never decides on the rate with less protection than the
\* temperature it has just read calls for (wt_perform_update_thermal_protection).
HotIsProtected ==
  [][pc = "thermal" /\ pc' = "rate" /\ is_x20 /\ ~limits_file => level' >= LevelFor(temp)]_rateVars

\* A card that stays cool gets its video back, and keeps it
\* (wt_perform_update_thermal_protection).
CoolingDownRestoresVideo == <>[](temp <= 70) => <>[](level = NONE)

\* Protection that stays on reduces the bitrate the encoder is asked for to
\* 30 percent of the configuration's, although a new configuration starts at
\* its full rate (wt_perform_rate_adjustment).
ProtectionThrottles ==
  <>[](is_x20 /\ level > NONE /\ settings.variable)
    => <>[](announced <= (max_video * 30) \div 100)

\* All four: protection is on while it is called for, throttles and ends.
Protection ==
  ThermalHold /\ HotIsProtected /\ CoolingDownRestoresVideo /\ ProtectionThrottles

\* Whatever it is changed to, a configuration that stays gets the encoder down
\* (or up) to what that configuration carries, and all of it where there is no
\* X20 to protect (wt_perform_rate_adjustment).
EncoderFollowsConfig ==
  \A c \in Configs : c.variable /\ <>[](settings = c) =>
    <>[](/\ announced <= VideoRate(c)
         /\ ~is_x20 => announced = VideoRate(c))

=============================================================================
