--------------------------- MODULE WBLinkSettings ---------------------------
(***************************************************************************)
(* The parameters of the link that take effect without the worker: what    *)
(* each callback of WBLink::get_all_settings accepts, stores and applies,  *)
(* and what the constructor applies on the next start. The worker applies  *)
(* the retransmission windows again at each pass of its statistics, from   *)
(* settings it read before. Frequency, width, MCS and power are in         *)
(* WBLinkWorker; the effective objects (headers, WBTxRx, streams) belong   *)
(* to wifibroadcast and are external.                                      *)
(***************************************************************************)
EXTENDS Integers, FiniteSets

CONSTANTS
  Changes,     \* configurations: profile, cards, and the parameters set
  Packets,     \* packets per second the statistics may report
  MinMs, MaxMs, MinSize, MaxSize,   \* WB_RETRANSMISSION_HISTORY_*
  MaxSets      \* parameter sets, restarts, changes of the packet rate

ASSUME WindowAssumption ==
    /\ {MinMs, MaxMs, MinSize, MaxSize, MaxSets} \subseteq Nat /\ 0 \in Packets /\ Packets \subseteq Nat
    /\ MinMs <= MaxMs /\ MinSize <= MaxSize

VARIABLES
  change,     \* the configuration
  stored,     \* WBLinkSettings, in memory
  file,       \* as persisted
  eff,        \* what is in effect: both headers, WBTxRx, each receiver
  history,    \* max_history_size_for_type of each transmitter and type
  rate,       \* current_injected_packets_per_second of the transmitters
  setting,    \* the parameter thread: idle, or between two steps of a callback
  pass,       \* the worker: idle, or the windows it has read
  sets

linkVars == << change, stored, file, eff, history, rate, setting, pass, sets >>

Idle == [key |-> "none", value |-> 0, at |-> "idle"]
NoPass == [video |-> 0, telemetry |-> 0, rc |-> 0, at |-> "idle"]

Defaults == [redundant |-> 0, rtx |-> 0, rtx_video |-> 0, rtx_telemetry |-> 0, rtx_rc |-> 0,
             video |-> 10, telemetry |-> 10, rc |-> 10, retries |-> 1,
             stbc |-> 0, ldpc |-> 0, sgi |-> 0, high_retransmit |-> 0,
             fec |-> 20, qp_max |-> 17, qp_min |-> 42, rate_percent |-> 100, block |-> -1]
Keys == DOMAIN Defaults

ASSUME ChangesAssumption ==
  \A c \in Changes : /\ {c.use, c.air, c.stbc_ldpc_sgi} \subseteq BOOLEAN
                     /\ c.params \subseteq Keys \X Int

Header(s, high) == [stbc |-> s.stbc, ldpc |-> s.ldpc, sgi |-> s.sgi, no_ack |-> ~high]

\* What the constructor of WBLink applies. On ground retransmissions by the
\* driver are always on; the management header never asks for them.
\* The packet types that are retransmitted, as the constructor decides.
Mask(s) == {t \in {"telemetry", "rc"} : s.rtx = 1 \/ s[IF t = "rc" THEN "rtx_rc" ELSE "rtx_telemetry"] = 1}
VideoRetransmitted(s) == s.rtx = 1 \/ s.rtx_video = 1

\* Only ground receives video and audio. The receiver of audio is built without the
\* stored retries and keeps those of WBStreamRx::Options, which is external (no
\* value the parameter accepts stands for them).
Receivers(air) == {"telemetry"} \cup (IF air THEN {} ELSE {"video", "audio"})
OwnRetries == 0
\* Mutant: the receivers of video are built like that of audio.
MutRetries(s, air) == [r \in Receivers(air) |-> IF r = "telemetry" THEN s.retries ELSE OwnRetries]
Retries(s, air) == [r \in Receivers(air) |-> IF r = "audio" THEN OwnRetries ELSE s.retries]

Constructed(s, air) ==
    [header_1 |-> Header(s, ~air \/ s.high_retransmit = 1),
     header_2 |-> Header(s, FALSE),
     redundant |-> s.redundant,
     mask |-> Mask(s),
     video |-> VideoRetransmitted(s),
     retries |-> Retries(s, air)]

Fresh == [t \in {"telemetry", "rc", "video", "audio"} |-> -1]   \* the streams' own default

LinkInit ==
    /\ change \in Changes
    /\ stored = Defaults /\ file = Defaults
    /\ eff = Constructed(Defaults, change.air)
    /\ history = Fresh
    /\ \E n \in Packets : rate = [t \in {"telemetry", "video", "audio"} |-> n] /\ (~change.use => n = 0)
    /\ setting = Idle /\ pass = NoPass /\ sets = 0

---------------------------------------------------------------------------
(* Which values a callback accepts.                                        *)
YesOrNo == {"redundant", "rtx", "rtx_video", "rtx_telemetry", "rtx_rc", "ldpc", "sgi", "high_retransmit"}
Windows == {"video", "telemetry", "rc"}
OnlyAir == {"high_retransmit", "fec", "qp_max", "qp_min", "rate_percent", "block"}
OnlySomeCards == {"stbc", "ldpc", "sgi"}

Offered(k) == /\ k \in OnlyAir => change.air
              /\ k \in OnlySomeCards => change.stbc_ldpc_sgi

Valid(k, v) ==
    CASE k \in YesOrNo -> v \in {0, 1}
      [] k \in Windows -> v \in MinMs .. MaxMs
      [] k = "retries" -> v \in 1 .. 10
      [] k = "stbc" -> v \in 0 .. 3
      [] k \in {"qp_max", "qp_min"} -> v \in 0 .. 51
      [] k = "fec" -> v \in 1 .. 400
      [] k = "rate_percent" -> v \in 6 .. 1000
      [] OTHER -> TRUE

(* What it applies at once; the retransmission switches wait for a restart. *)
BothHeaders(k, v, e) == [e EXCEPT !.header_1[k] = v, !.header_2[k] = v]

Applied(k, v, e) ==
    CASE k = "redundant" -> [e EXCEPT !.redundant = v]
      [] k = "retries" -> [e EXCEPT !.retries = [r \in DOMAIN e.retries |-> v]]
      [] k \in OnlySomeCards -> BothHeaders(k, v, e)
      [] k = "high_retransmit" -> [e EXCEPT !.header_1.no_ack = (v = 0)]
      [] OTHER -> e

---------------------------------------------------------------------------
(* Retransmission windows.                                                 *)
calculate_history_size_from_ms(ms, pps) ==
    LET window == IF ms < MinMs THEN MinMs ELSE IF ms > MaxMs THEN MaxMs ELSE ms
        desired == (pps * window + 999) \div 1000
    IN  CASE pps <= 0 \/ desired < MinSize -> MinSize
          [] pps > 0 /\ desired > MaxSize -> MaxSize
          [] OTHER -> desired

\* Only the air unit transmits video and audio.
apply_retransmission_history_window(w) ==
    [t \in DOMAIN history |->
        CASE t \in {"telemetry", "rc"} -> calculate_history_size_from_ms(w[t], rate.telemetry)
          [] t = "video" /\ change.air -> calculate_history_size_from_ms(w.video, rate.video)
          [] t = "audio" /\ change.air -> calculate_history_size_from_ms(w.telemetry, rate.audio)
          [] OTHER -> history[t]]

Stored == [t \in Windows |-> stored[t]]

---------------------------------------------------------------------------
(* A callback: check, store, persist, apply.                               *)
begin_set ==
    /\ setting.at = "idle" /\ sets < MaxSets
    /\ sets' = sets + 1
    /\ \E kv \in change.params :
        IF Offered(kv[1]) /\ Valid(kv[1], kv[2])
        THEN /\ stored' = [stored EXCEPT ![kv[1]] = kv[2]]
             /\ setting' = [key |-> kv[1], value |-> kv[2], at |-> "persist"]
        ELSE UNCHANGED << stored, setting >>
    /\ UNCHANGED << change, file, eff, history, rate, pass >>

persist ==
    /\ setting.at = "persist"
    /\ file' = stored
    /\ setting' = [setting EXCEPT !.at = "apply"]
    /\ UNCHANGED << change, stored, eff, history, rate, pass, sets >>

apply ==
    /\ setting.at = "apply"
    /\ eff' = Applied(setting.key, setting.value, eff)
    /\ history' = IF setting.key \in Windows THEN apply_retransmission_history_window(Stored) ELSE history
    /\ setting' = Idle
    /\ UNCHANGED << change, stored, file, rate, pass, sets >>

\* Mutant: the windows that were read are not applied.
MutApplyStatistics ==
    /\ pass.at = "read" /\ pass' = NoPass
    /\ UNCHANGED << change, stored, file, eff, history, rate, setting, sets >>

\* wt_update_statistics: the windows are read, then applied.
begin_statistics ==
    /\ change.use /\ pass.at = "idle"
    /\ pass' = [t \in DOMAIN NoPass |-> IF t = "at" THEN "read" ELSE stored[t]]
    /\ UNCHANGED << change, stored, file, eff, history, rate, setting, sets >>
apply_statistics ==
    /\ pass.at = "read"
    /\ history' = apply_retransmission_history_window(pass)
    /\ pass' = NoPass
    /\ UNCHANGED << change, stored, file, eff, rate, setting, sets >>

change_rate ==
    /\ sets < MaxSets /\ sets' = sets + 1
    /\ \E t \in DOMAIN rate, n \in Packets : rate' = [rate EXCEPT ![t] = n]
    /\ UNCHANGED << change, stored, file, eff, history, setting, pass >>

\* The program ends, wherever its threads are, and starts again.
restart_link ==
    /\ sets < MaxSets /\ sets' = sets + 1
    /\ stored' = file /\ eff' = Constructed(file, change.air)
    /\ history' = Fresh /\ setting' = Idle /\ pass' = NoPass
    /\ UNCHANGED << change, file, rate >>

LinkNext == begin_set \/ persist \/ apply \/ begin_statistics \/ apply_statistics \/ change_rate \/ restart_link

LinkFairness == WF_linkVars(persist) /\ WF_linkVars(apply)
                /\ WF_linkVars(begin_statistics) /\ WF_linkVars(apply_statistics)

---------------------------------------------------------------------------
(* Between two callbacks both headers, the redundant transmission and the   *)
(* retries of telemetry and video are those stored, after any sequence of   *)
(* sets and restarts, and neither header asks for acknowledgements the user *)
(* has not enabled; audio has the stored retries once they were set, and    *)
(* its own until then.                                                      *)
InEffectAsStored ==
    setting = Idle =>
        LET now == Constructed(stored, change.air) IN
        /\ eff.header_1 = now.header_1 /\ eff.header_2 = now.header_2
        /\ eff.redundant = now.redundant
        /\ \A r \in Receivers(change.air) :
              \/ eff.retries[r] = stored.retries
              \/ r = "audio" /\ eff.retries[r] = OwnRetries
\* Does not hold: after a restart audio asks as often as the option's default says.
AudioRetriesAsStored ==
    setting = Idle /\ stored.retries # Defaults.retries =>
        \A r \in Receivers(change.air) : eff.retries[r] = stored.retries

(* Whatever the order of a parameter set and a pass of the worker that read *)
(* the windows before it, the sizes in effect end up as those stored give.  *)
HistorySettles ==
    <>[](change.use => history = apply_retransmission_history_window(Stored))
=============================================================================
