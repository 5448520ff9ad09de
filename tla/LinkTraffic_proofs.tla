------------------------ MODULE LinkTraffic_proofs -------------------------
(***************************************************************************)
(* Proofs about what crosses the link, for any configuration, shapes of    *)
(* slices and bounds: of its parameters, what is in effect is what is      *)
(* stored; of the video, frames are whole and counted, keyframes and the   *)
(* parameter sets of a picture get through; of its rate, the encoder is    *)
(* never asked for more than the channel carries, nor is a hot card left   *)
(* unprotected.                                                            *)
(***************************************************************************)
EXTENDS LinkTraffic, WBRateControl, TLAPS

(***************************************************************************)
(* The inductive invariant. From the moment a value is stored to the one   *)
(* it is applied, the settings agree with what will then be in effect.     *)
(***************************************************************************)

Headers == [stbc : Int, ldpc : Int, sgi : Int, no_ack : BOOLEAN]
Effects == [header_1 : Headers, header_2 : Headers, redundant : Int,
            mask : SUBSET {"telemetry", "rc"}, video : BOOLEAN,
            retries : [Receivers(TRUE) -> Int] \cup [Receivers(FALSE) -> Int]]

Typed ==
  /\ change \in Changes
  /\ stored \in [Keys -> Int] /\ file \in [Keys -> Int]
  /\ eff \in Effects
  /\ setting = Idle \/ setting \in [key : Keys, value : Int, at : {"persist", "apply"}]

\* Each receiver asks as often as stored; audio does from the first set on.
RetriesMatch(retries, s) ==
  /\ DOMAIN retries = Receivers(change.air)
  /\ \A r \in DOMAIN retries : \/ retries[r] = s.retries
                               \/ r = "audio" /\ retries[r] = OwnRetries

Matches(e, s) ==
  LET now == Constructed(s, change.air) IN
  /\ e.header_1 = now.header_1 /\ e.header_2 = now.header_2
  /\ RetriesMatch(e.retries, s) /\ e.redundant = now.redundant

InStep ==
  /\ setting = Idle => Matches(eff, stored)
  /\ setting # Idle => Matches(Applied(setting.key, setting.value, eff), stored)

IInv == Typed /\ InStep

LEMMA KeyFacts ==
  /\ Keys = {"redundant", "rtx", "rtx_video", "rtx_telemetry", "rtx_rc", "video", "telemetry",
             "rc", "retries", "stbc", "ldpc", "sgi", "high_retransmit", "fec", "qp_max",
             "qp_min", "rate_percent", "block"}
  /\ Defaults \in [Keys -> Int]
  BY DEF Keys, Defaults

LEMMA ChangeFacts ==
  ASSUME change \in Changes
  PROVE  change.air \in BOOLEAN /\ change.params \subseteq Keys \X Int
  BY ChangesAssumption

\* What the constructor applies is typed, and is what it applies.
LEMMA ConstructedFits ==
  ASSUME change \in Changes, NEW s \in [Keys -> Int]
  PROVE  Constructed(s, change.air) \in Effects /\ Matches(Constructed(s, change.air), s)
<1>1. /\ s.stbc \in Int /\ s.ldpc \in Int /\ s.sgi \in Int
      /\ s.redundant \in Int /\ s.retries \in Int
  BY KeyFacts
<1>2. \A high \in BOOLEAN : Header(s, high) \in Headers
  BY <1>1 DEF Header, Headers
<1>3. /\ (~change.air \/ s.high_retransmit = 1) \in BOOLEAN
      /\ Mask(s) \subseteq {"telemetry", "rc"} /\ VideoRetransmitted(s) \in BOOLEAN
  BY ChangeFacts DEF Mask, VideoRetransmitted
<1>4. /\ Retries(s, change.air) \in [Receivers(TRUE) -> Int] \cup [Receivers(FALSE) -> Int]
      /\ RetriesMatch(Retries(s, change.air), s)
  <2>1. Retries(s, change.air) \in [Receivers(change.air) -> Int]
    BY <1>1 DEF Retries, OwnRetries
  <2>2. change.air = TRUE \/ change.air = FALSE
    BY ChangeFacts
  <2> QED  BY <2>1, <2>2 DEF Retries, RetriesMatch
<1> QED  BY <1>1, <1>2, <1>3, <1>4 DEF Constructed, Effects, Matches

LEMMA Matching ==
  ASSUME NEW s, NEW e
  PROVE  Matches(e, s) <=> /\ e.header_1 = Header(s, ~change.air \/ s.high_retransmit = 1)
                           /\ e.header_2 = Header(s, FALSE)
                           /\ RetriesMatch(e.retries, s) /\ e.redundant = s.redundant
  BY DEF Matches, Constructed

\* A callback applies to what is in effect what it does to the settings.
LEMMA AppliedFits ==
  ASSUME change \in Changes, NEW s \in [Keys -> Int], NEW e \in Effects, Matches(e, s),
         NEW k \in Keys, NEW v \in Int, Offered(k), Valid(k, v)
  PROVE  Matches(Applied(k, v, e), [s EXCEPT ![k] = v])
<1> DEFINE t == [s EXCEPT ![k] = v]
<1>1. \A j \in Keys : t[j] = IF j = k THEN v ELSE s[j]
  OBVIOUS
<1> SUFFICES Matches(Applied(k, v, e), t)
  OBVIOUS
<1> HIDE DEF t
<1>0. Matches(e, s)
  OBVIOUS
<1>9. k # "retries" => \A retries : RetriesMatch(retries, s) => RetriesMatch(retries, t)
  BY <1>1, KeyFacts DEF RetriesMatch
<1>2. CASE k = "redundant"
  BY <1>0, <1>1, <1>2, <1>9, KeyFacts, Matching DEF Applied, Effects, OnlySomeCards, Header
<1>6. CASE k = "retries"
  <2>1. Applied(k, v, e) = [e EXCEPT !.retries = [r \in DOMAIN e.retries |-> v]]
    BY <1>6 DEF Applied, OnlySomeCards
  <2>2. /\ Applied(k, v, e).header_1 = e.header_1 /\ Applied(k, v, e).header_2 = e.header_2
        /\ Applied(k, v, e).retries = [r \in DOMAIN e.retries |-> v]
        /\ Applied(k, v, e).redundant = e.redundant
    BY <2>1 DEF Effects
  <2>3. /\ t.stbc = s.stbc /\ t.ldpc = s.ldpc /\ t.sgi = s.sgi
        /\ t.high_retransmit = s.high_retransmit /\ t.redundant = s.redundant /\ t.retries = v
    BY <1>1, <1>6, KeyFacts
  <2>4. RetriesMatch(Applied(k, v, e).retries, t)
    BY <1>0, <2>2, <2>3, Matching DEF RetriesMatch
  <2>5. \A high : Header(t, high) = Header(s, high)
    BY <2>3 DEF Header
  <2> QED  BY <1>0, <2>2, <2>3, <2>4, <2>5, Matching
<1>3. CASE k \in OnlySomeCards
  <2>0. k \in {"stbc", "ldpc", "sgi"}
    BY <1>3 DEF OnlySomeCards
  <2>1. Applied(k, v, e) = BothHeaders(k, v, e)
    BY <1>3, <2>0 DEF Applied
  <2>2. /\ BothHeaders(k, v, e).header_1 = [e.header_1 EXCEPT ![k] = v]
        /\ BothHeaders(k, v, e).header_2 = [e.header_2 EXCEPT ![k] = v]
        /\ BothHeaders(k, v, e).retries = e.retries
        /\ BothHeaders(k, v, e).redundant = e.redundant
    BY DEF BothHeaders, Effects
  <2>3. ASSUME NEW high PROVE [Header(s, high) EXCEPT ![k] = v] = Header(t, high)
    <3>1. CASE k = "stbc"
      BY <1>1, <3>1, KeyFacts DEF Header
    <3>2. CASE k = "ldpc"
      BY <1>1, <3>2, KeyFacts DEF Header
    <3>3. CASE k = "sgi"
      BY <1>1, <3>3, KeyFacts DEF Header
    <3> QED  BY <2>0, <3>1, <3>2, <3>3
  <2>4. t.high_retransmit = s.high_retransmit /\ t.redundant = s.redundant
           /\ RetriesMatch(e.retries, t)
    BY <1>0, <1>1, <1>9, <2>0, KeyFacts, Matching
  <2>5. Header(t, ~change.air \/ t.high_retransmit = 1)
           = Header(t, ~change.air \/ s.high_retransmit = 1)
    BY <2>4
  <2> QED  BY <1>0, <2>1, <2>2, <2>3, <2>4, <2>5, Matching
<1>4. CASE k = "high_retransmit"
  <2>1. change.air /\ v \in {0, 1}
    BY <1>4 DEF Offered, Valid, OnlyAir, YesOrNo, Windows
  <2>2. Applied(k, v, e) = [e EXCEPT !.header_1.no_ack = (v = 0)]
    BY <1>4 DEF Applied, OnlySomeCards
  <2>3. /\ Applied(k, v, e).header_1 = [e.header_1 EXCEPT !.no_ack = (v = 0)]
        /\ Applied(k, v, e).header_2 = e.header_2
        /\ Applied(k, v, e).retries = e.retries /\ Applied(k, v, e).redundant = e.redundant
    BY <2>2 DEF Effects
  <2>4. /\ t.stbc = s.stbc /\ t.ldpc = s.ldpc /\ t.sgi = s.sgi
        /\ t.high_retransmit = v /\ RetriesMatch(e.retries, t) /\ t.redundant = s.redundant
    BY <1>0, <1>1, <1>4, <1>9, KeyFacts, Matching
  <2>5. (v = 0) = ~(~change.air \/ v = 1)
    BY <2>1
  <2>6. [Header(s, ~change.air \/ s.high_retransmit = 1) EXCEPT !.no_ack = (v = 0)]
           = Header(t, ~change.air \/ v = 1)
    BY <2>4, <2>5 DEF Header
  <2>7. Header(t, FALSE) = Header(s, FALSE)
    BY <2>4 DEF Header
  <2> QED  BY ZenonT(40), <1>0, <2>3, <2>4, <2>6, <2>7, Matching
<1>5. CASE k \notin {"redundant", "retries", "stbc", "ldpc", "sgi", "high_retransmit"}
  BY <1>0, <1>1, <1>5, <1>9, KeyFacts, Matching DEF Applied, OnlySomeCards, Header
<1> QED  BY <1>2, <1>3, <1>4, <1>5, <1>6 DEF OnlySomeCards

LEMMA AppliedTyped ==
  ASSUME NEW e \in Effects, NEW k \in Keys, NEW v \in Int
  PROVE  Applied(k, v, e) \in Effects
<1>1. CASE k \in OnlySomeCards
  BY <1>1 DEF Applied, BothHeaders, Effects, Headers, OnlySomeCards
<1>2. CASE k = "retries"
  <2> DEFINE q == [r \in DOMAIN e.retries |-> v]
  <2>1. q \in [Receivers(TRUE) -> Int] \cup [Receivers(FALSE) -> Int]
    BY DEF Effects
  <2>2. Applied(k, v, e) = [e EXCEPT !.retries = q]
    BY <1>2 DEF Applied, OnlySomeCards
  <2> HIDE DEF q
  <2> QED  BY <2>1, <2>2 DEF Effects
<1>3. CASE k \notin OnlySomeCards /\ k # "retries"
  BY <1>3 DEF Applied, Effects, Headers
<1> QED  BY <1>1, <1>2, <1>3

LEMMA NextPreserves == IInv /\ [Next]_vars => IInv'
<1> SUFFICES ASSUME IInv, [Next]_vars PROVE IInv'
  OBVIOUS
<1>0. /\ Typed /\ InStep
      /\ Idle.at = "idle"
  BY DEF IInv, Idle
<1>1. CASE LinkNext
  <2>1. CASE begin_set
    <3>0. PICK kv \in change.params :
            IF Offered(kv[1]) /\ Valid(kv[1], kv[2])
            THEN /\ stored' = [stored EXCEPT ![kv[1]] = kv[2]]
                 /\ setting' = [key |-> kv[1], value |-> kv[2], at |-> "persist"]
            ELSE UNCHANGED << stored, setting >>
      BY <2>1 DEF begin_set
    <3>1. CASE ~(Offered(kv[1]) /\ Valid(kv[1], kv[2]))
      BY <1>0, <2>1, <3>0, <3>1 DEF begin_set, IInv, Typed, InStep, Matches, RetriesMatch
    <3>2. CASE Offered(kv[1]) /\ Valid(kv[1], kv[2])
      <4>1. /\ UNCHANGED << change, file, eff >>
            /\ setting = Idle
            /\ kv[1] \in Keys /\ kv[2] \in Int
        BY <1>0, <2>1, ChangeFacts DEF begin_set, Typed
      <4>2. Matches(Applied(kv[1], kv[2], eff), [stored EXCEPT ![kv[1]] = kv[2]])
        BY <3>2, <1>0, <4>1, AppliedFits DEF Typed, InStep
      <4>3. setting' # Idle
        BY <3>0, <3>2 DEF Idle
      <4>4. Typed'
        BY <1>0, <3>0, <3>2, <4>1 DEF Typed
      <4>5. setting'.key = kv[1] /\ setting'.value = kv[2]
        BY <3>0, <3>2
      <4>6. InStep'
        BY <3>0, <3>2, <4>1, <4>2, <4>3, <4>5 DEF InStep, Matches, RetriesMatch
      <4> QED  BY <4>4, <4>6 DEF IInv
    <3> QED  BY <3>1, <3>2
  <2>2. CASE persist
    <3>1. /\ UNCHANGED << change, stored, eff >> /\ file' = stored
          /\ setting # Idle /\ setting' = [setting EXCEPT !.at = "apply"]
      BY <2>2 DEF persist, Idle
    <3>2. /\ setting' \in [key : Keys, value : Int, at : {"persist", "apply"}]
          /\ setting'.key = setting.key /\ setting'.value = setting.value
          /\ setting' # Idle
      BY <1>0, <3>1 DEF Typed, Idle
    <3> QED  BY <1>0, <3>1, <3>2 DEF IInv, Typed, InStep, Matches, RetriesMatch
  <2>3. CASE apply
    <3>1. /\ UNCHANGED << change, stored, file >> /\ setting # Idle /\ setting' = Idle
          /\ eff' = Applied(setting.key, setting.value, eff)
      BY <2>3 DEF apply, Idle
    <3>2. eff' \in Effects
      BY <1>0, <3>1, AppliedTyped DEF Typed
    <3> QED  BY <1>0, <3>1, <3>2 DEF IInv, Typed, InStep, Matches, RetriesMatch
  <2>4. CASE restart_link
    <3>1. /\ UNCHANGED << change, file >> /\ setting' = Idle /\ stored' = file
          /\ eff' = Constructed(file, change.air)
      BY <2>4 DEF restart_link
    <3>2. eff' \in Effects /\ Matches(eff', file)
      BY <1>0, <3>1, ConstructedFits DEF Typed
    <3> QED  BY <1>0, <3>1, <3>2 DEF IInv, Typed, InStep, Matches, RetriesMatch
  <2>5. CASE begin_statistics \/ apply_statistics \/ change_rate
    BY <1>0, <2>5 DEF begin_statistics, apply_statistics, change_rate, IInv, Typed, InStep, Matches, RetriesMatch
  <2> QED  BY <1>1, <2>1, <2>2, <2>3, <2>4, <2>5 DEF LinkNext
<1>2. CASE UNCHANGED linkVars
  BY <1>0, <1>2 DEF linkVars, IInv, Typed, InStep, Matches, RetriesMatch
<1> QED  BY <1>1, <1>2 DEF Next, vars

LEMMA InitHolds == Init => IInv
<1> SUFFICES ASSUME LinkInit PROVE IInv
  BY DEF Init
<1>1. /\ change \in Changes /\ setting = Idle /\ stored = Defaults /\ file = Defaults
      /\ eff = Constructed(stored, change.air)
  BY DEF LinkInit
<1> QED  BY <1>1, KeyFacts, ConstructedFits DEF IInv, Typed, InStep, Matches, RetriesMatch

\* Between two callbacks the headers, the redundant transmission and the retries of the
\* receivers are those stored, after any sequence of sets, restarts and passes of the
\* worker, except that audio has its own retries until they are set once; and
\* acknowledgements are asked for only where the user enabled them
\* (get_all_settings, the constructor of WBLink).
THEOREM EffectAsStored == Spec => []InEffectAsStored
<1>1. IInv => InEffectAsStored
  BY DEF IInv, InStep, Matches, RetriesMatch, InEffectAsStored
<1> QED  BY <1>1, InitHolds, NextPreserves, PTL DEF Spec

-----------------------------------------------------------------------------
(***************************************************************************)
(* Video. The fragments a camera's thread has gathered are the last ones   *)
(* its running pipeline emitted; what the link holds is whole and counted; *)
(* the raw path knows the parameter sets of the picture it is in.          *)
(***************************************************************************)
Pieces == [nal : {"config", "idr", "slice"}, part : Parts]
Fragments == [run : Nat, seq : Nat, codec : Codecs, nal : {"config", "idr", "slice"}, part : Parts]
Units == [kind : {"none", "sps", "pps", "idr", "aud", "slice"}, ver : 0 .. 2]
Encoders(T) ==
  [run : Nat, codec : Codecs, todo : Seq(T), slices : Nat, seq : Nat, ver : 1 .. 2]
Blocks == Seq(Fragments \cup Units)
Networks ==
  [queue : [Streams -> Seq(Blocks)], drops : [Streams -> Nat], taken : [Streams -> Nat],
   injected : [Streams -> Nat], port : [Streams -> Blocks]]

VideoTyped ==
  /\ path \in Paths
  /\ codec \in [path.cams -> Codecs]
  /\ enc \in [path.cams -> Encoders(IF path.raw THEN Units ELSE Pieces)]
  /\ asm \in [path.cams -> [frags : Seq(Fragments), idr : BOOLEAN]]
  /\ rtp \in [path.cams -> [sps : Units, pps : Units, due : BOOLEAN]]
  /\ net \in Networks

\* The fragments of c continue each other up to the next one to come.
Continues(frags, e) ==
  frags # << >> => frags[Len(frags)].run = e.run /\ frags[Len(frags)].seq + 1 = e.seq

Assembled ==
  ~path.raw => \A c \in path.cams : Unbroken(asm[c].frags) /\ Continues(asm[c].frags, enc[c])

AllUnbroken(t) ==
  \A s \in Streams :
    /\ \A i \in 1 .. Len(t.queue[s]) : Unbroken(t.queue[s][i])
    /\ Unbroken(t.port[s])

Counted(t) ==
  path.link = "wb" => \A s \in Streams :
    /\ Len(t.queue[s]) <= QueueSize
    /\ t.taken[s] = Len(t.queue[s]) + t.injected[s] + t.drops[s]

\* What is left of a slice ends with its last fragmentation unit; until then
\* the assembly remembers that it began as a keyframe.
RestOfSlice(todo) ==
  \A i \in 1 .. Len(todo) : todo[i].part = IF i = Len(todo) THEN "end" ELSE "middle"

KeyFrameStarts(frags) ==
  \E i \in 1 .. Len(frags) : frags[i].nal = "idr" /\ frags[i].part = "start"

KeyFrameKnown ==
  ~path.raw => \A c \in path.cams :
    /\ RestOfSlice(enc[c].todo)
    /\ ~path.switch /\ path.codec = "h264" =>
         /\ codec[c] = "h264" /\ enc[c].codec = "h264"
         /\ KeyFrameStarts(asm[c].frags) => asm[c].idr /\ enc[c].todo # << >>

\* Where a raw sample is, and what the helper knows there.
Unit(k, v) == [kind |-> k, ver |-> v]

KnowsConfig(h, e) ==
  \/ /\ e.todo \in {<< >>, << Unit("slice", e.ver) >>}
     /\ \/ h.sps = NoNal /\ h.pps = NoNal
        \/ h.sps = Unit("sps", e.ver) /\ h.pps = Unit("pps", e.ver)
  \/ /\ e.todo = << Unit("pps", e.ver), Unit("idr", e.ver) >>
     /\ h.sps = Unit("sps", e.ver) /\ h.pps \in {NoNal, Unit("pps", e.ver)}
  \/ /\ e.todo = << Unit("idr", e.ver) >>
     /\ h.sps = Unit("sps", e.ver) /\ h.pps = Unit("pps", e.ver)

ConfigKnown ==
  path.raw => \A c \in path.cams : enc[c].codec = "h264" => KnowsConfig(rtp[c], enc[c])

VideoInv ==
  /\ VideoTyped /\ Assembled /\ KeyFrameKnown /\ ConfigKnown
  /\ ~path.raw => AllUnbroken(net)
  /\ Counted(net)

-----------------------------------------------------------------------------
LEMMA PathFacts ==
  ASSUME path \in Paths
  PROVE  /\ path.cams \subseteq Nat /\ path.codec \in Codecs
         /\ path.link \in {"wb", "ethernet", "microhard"}
         /\ path.raw \in BOOLEAN /\ path.intra \in BOOLEAN /\ path.record_only \in BOOLEAN
         /\ path.switch \in BOOLEAN
  BY PathsAssumption

\* What the link does with a frame: it is the last of its stream's queue or not
\* in it at all, everything else the link holds was there before, and the
\* frame is counted.
Handed(s, frags, t, r) ==
  /\ r \in Networks
  /\ Counted(t) => Counted(r)
  /\ \A q \in Streams :
       /\ q # s => r.queue[q] = t.queue[q]
       /\ \/ r.queue[q] = t.queue[q]
          \/ r.queue[q] # << >> /\ Last(r.queue[q]) = frags
       /\ \A i \in 1 .. Len(r.queue[q]) :
            \/ r.queue[q][i] = frags
            \/ \E j \in 1 .. Len(t.queue[q]) : r.queue[q][i] = t.queue[q][j]
       /\ r.port[q] \in {t.port[q], frags}

\* A frame that is not handed over leaves everything as it was.
LEMMA NothingHanded ==
  ASSUME NEW t \in Networks, NEW s, NEW frags
  PROVE  Handed(s, frags, t, t)
  BY DEF Handed

LEMMA SumStep ==
  ASSUME NEW len \in Nat, NEW injected \in Nat, NEW drops \in Nat
  PROVE  len + injected + drops + 1 = len + injected + (drops + 1)
  OBVIOUS

\* enqueue_block and enqueue_block_dropping.
LEMMA WbHands ==
  ASSUME path \in Paths, NEW t \in Networks, NEW s \in Streams, NEW frags \in Blocks,
         NEW idr \in BOOLEAN, NEW n \in 1 .. QueueSize, path.link = "wb" => Counted(t)
  PROVE  /\ path.link = "wb" => Handed(s, frags, t, wb_transmit(s, frags, idr, n, t))
         /\ (path.link = "wb" /\ gate = "open" /\ (path.intra \/ idr)) =>
               LET r == wb_transmit(s, frags, idr, n, t) IN
               r.queue[s] # << >> /\ Last(r.queue[s]) = frags
<1> SUFFICES ASSUME path.link = "wb"
             PROVE  /\ Handed(s, frags, t, wb_transmit(s, frags, idr, n, t))
                    /\ (gate = "open" /\ (path.intra \/ idr)) =>
                         LET r == wb_transmit(s, frags, idr, n, t) IN
                         r.queue[s] # << >> /\ Last(r.queue[s]) = frags
  OBVIOUS
<1> DEFINE q == t.queue[s]
           gone == IF use_dropping_enqueue(idr) THEN Room(q, n) ELSE 0
           full == Len(q) - gone = QueueSize
           r == wb_transmit(s, frags, idr, n, t)
<1>1. QueueSize \in Nat \ {0}
  BY SizesAssumption
<1>2. CASE gate # "open"
  <2>1. r = t
    BY <1>2 DEF wb_transmit
  <2> QED BY <1>2, <2>1, NothingHanded
<1>3. CASE gate = "open"
  <2>1. q \in Seq(Blocks) /\ Len(q) \in Nat /\ Len(q) <= QueueSize
    BY DEF Networks, Counted
  <2>2. gone \in Nat /\ gone <= Len(q)
    BY <1>1, <2>1 DEF Room
  <2>3. use_dropping_enqueue(idr) => ~full
    BY <1>1, <2>1 DEF Room
  <2> DEFINE kept == Append(SubSeq(q, gone + 1, Len(q)), frags)
  <2>4. /\ kept \in Seq(Blocks) /\ Len(kept) = Len(q) - gone + 1
        /\ kept[Len(kept)] = frags
        /\ \A i \in 1 .. Len(kept) :
             \/ kept[i] = frags
             \/ \E j \in 1 .. Len(q) : kept[i] = q[j]
    <3> HIDE DEF gone, q
    <3> DEFINE u == SubSeq(q, gone + 1, Len(q))
    <3>1. /\ u \in Seq(Blocks) /\ Len(u) = Len(q) - gone
          /\ \A i \in 1 .. Len(u) : u[i] = q[i + gone]
      BY <2>1, <2>2
    <3> HIDE DEF u
    <3>2. /\ Append(u, frags) \in Seq(Blocks) /\ Len(Append(u, frags)) = Len(u) + 1
          /\ Append(u, frags)[Len(u) + 1] = frags
          /\ \A i \in 1 .. Len(u) : Append(u, frags)[i] = u[i]
      BY <3>1
    <3>3. \A i \in 1 .. Len(u) : i + gone \in 1 .. Len(q)
      BY <2>1, <2>2, <3>1
    <3>4. /\ Len(Append(u, frags)) = Len(q) - gone + 1
          /\ \A i \in 1 .. Len(u) + 1 : i = Len(u) + 1 \/ i \in 1 .. Len(u)
      BY <2>1, <2>2, <3>1, <3>2
    <3>5. kept = Append(u, frags)
      BY DEF u
    <3> HIDE DEF kept
    <3>6. ASSUME NEW i \in 1 .. Len(kept), kept[i] # frags
          PROVE  \E j \in 1 .. Len(q) : kept[i] = q[j]
      <4>1. i \in 1 .. Len(u)
        BY <3>1, <3>2, <3>4, <3>5, <3>6
      <4>2. kept[i] = q[i + gone]
        BY <3>1, <3>2, <3>5, <4>1
      <4> QED BY <3>3, <4>1, <4>2
    <3> QED BY <3>2, <3>4, <3>5, <3>6
  <2>5. r = [t EXCEPT !.taken[s] = @ + 1, !.drops[s] = @ + Dropped(full, gone),
                      !.queue[s] = IF full THEN @ ELSE kept]
    BY <1>3 DEF wb_transmit
  <2> HIDE DEF r, kept, full, gone
  <2>6. /\ r.queue = [t.queue EXCEPT ![s] = IF full THEN q ELSE kept]
        /\ r.taken = [t.taken EXCEPT ![s] = @ + 1]
        /\ r.drops = [t.drops EXCEPT ![s] = @ + Dropped(full, gone)]
        /\ r.injected = t.injected /\ r.port = t.port
        /\ r = [queue |-> r.queue, drops |-> r.drops, taken |-> r.taken, injected |-> r.injected,
                port |-> r.port]
    BY <2>5 DEF Networks
  <2>7. Dropped(full, gone) \in Nat
    BY <2>2 DEF Dropped
  <2>8. r \in Networks
    <3>1. /\ r.queue \in [Streams -> Seq(Blocks)]
          /\ r.taken \in [Streams -> Nat] /\ r.drops \in [Streams -> Nat]
          /\ r.injected \in [Streams -> Nat] /\ r.port \in [Streams -> Blocks]
      BY <2>1, <2>4, <2>6, <2>7 DEF Networks
    <3> QED BY <2>6, <3>1 DEF Networks
  <2>9. Counted(r)
    <3>1. Len(r.queue[s]) <= QueueSize
             /\ r.taken[s] = Len(r.queue[s]) + r.injected[s] + r.drops[s]
      <4>1. /\ t.taken[s] = Len(q) + t.injected[s] + t.drops[s]
            /\ t.taken[s] \in Nat /\ t.injected[s] \in Nat /\ t.drops[s] \in Nat
        BY DEF Counted, Networks
      <4>2. /\ r.taken[s] = t.taken[s] + 1 /\ r.injected[s] = t.injected[s]
            /\ r.drops[s] = t.drops[s] + Dropped(full, gone)
            /\ r.queue[s] = IF full THEN q ELSE kept
        BY <2>6 DEF Networks
      <4>3. CASE full
        <5>1. /\ r.drops[s] = t.drops[s] + 1 /\ Len(r.queue[s]) = Len(q)
              /\ r.taken[s] = t.taken[s] + 1 /\ r.injected[s] = t.injected[s]
          BY <4>2, <4>3 DEF Dropped
        <5>2. Len(q) + t.injected[s] + t.drops[s] + 1
                = Len(q) + t.injected[s] + (t.drops[s] + 1)
          BY <2>1, <2>2, <4>1, SumStep
        <5> QED BY <2>1, <4>1, <5>1, <5>2
      <4>4. CASE ~full
        <5>1. Len(q) - gone + 1 <= QueueSize
          BY <1>1, <2>1, <2>2, <4>4 DEF full
        <5>2. /\ r.drops[s] = t.drops[s] + gone /\ Len(r.queue[s]) = Len(q) - gone + 1
              /\ r.taken[s] = t.taken[s] + 1 /\ r.injected[s] = t.injected[s]
          BY <2>4, <4>2, <4>4 DEF Dropped
        <5>3. Len(q) + t.injected[s] + t.drops[s] + 1
                = (Len(q) - gone + 1) + t.injected[s] + (t.drops[s] + gone)
          <6> DEFINE l == Len(q)
                     i == t.injected[s]
                     d == t.drops[s]
          <6>1. l \in Nat /\ i \in Nat /\ d \in Nat /\ gone \in Nat /\ gone <= l
            BY <2>1, <2>2, <4>1
          <6> HIDE DEF l, i, d
          <6>2. l + i + d + 1 = (l - gone + 1) + i + (d + gone)
            BY <6>1
          <6> QED BY <6>2 DEF l, i, d
        <5>4. Len(r.queue[s]) <= QueueSize
          BY <5>1, <5>2
        <5> DEFINE len == Len(q) - gone + 1
        <5>5. /\ Len(q) + t.injected[s] + t.drops[s] + 1 = len + t.injected[s] + (t.drops[s] + gone)
              /\ Len(r.queue[s]) = len
          BY <5>2, <5>3
        <5> HIDE DEF len
        <5> QED BY <4>1, <5>2, <5>4, <5>5
      <4> QED BY <4>3, <4>4
    <3>2. ASSUME NEW p \in Streams, p # s
          PROVE  /\ r.queue[p] = t.queue[p] /\ r.taken[p] = t.taken[p]
                 /\ r.injected[p] = t.injected[p] /\ r.drops[p] = t.drops[p]
      BY <2>6, <3>2 DEF Networks
    <3> QED BY <3>1, <3>2 DEF Counted
  <2>10. \A p \in Streams :
           /\ p # s => r.queue[p] = t.queue[p]
           /\ p = s => r.queue[p] = IF full THEN q ELSE kept
           /\ r.port[p] = t.port[p]
    BY <2>6 DEF Networks
  <2>11. kept # << >> /\ Last(kept) = frags
    BY <2>1, <2>2, <2>4 DEF Last
  <2>12. Handed(s, frags, t, r)
    <3>1. ASSUME NEW p \in Streams, NEW i \in 1 .. Len(r.queue[p]), r.queue[p][i] # frags
          PROVE  \E j \in 1 .. Len(t.queue[p]) : r.queue[p][i] = t.queue[p][j]
      <4>1. CASE r.queue[p] = t.queue[p]
        BY <4>1
      <4>2. CASE p = s /\ r.queue[p] = kept
        BY <2>4, <3>1, <4>2 DEF q
      <4> QED BY <2>10, <4>1, <4>2
    <3>2. \A p \in Streams : \/ r.queue[p] = t.queue[p]
                             \/ r.queue[p] # << >> /\ Last(r.queue[p]) = frags
      BY <2>10, <2>11
    <3> QED BY <2>8, <2>9, <2>10, <3>1, <3>2 DEF Handed
  <2>13. (path.intra \/ idr) => r.queue[s] = kept
    BY <2>3, <2>10 DEF use_dropping_enqueue
  <2> QED BY <2>11, <2>12, <2>13 DEF r
<1> QED BY <1>2, <1>3

\* The other links put the fragments on a port.
LEMMA PortHands ==
  ASSUME NEW t \in Networks, NEW s, NEW p \in Streams, NEW frags \in Blocks,
         path.link # "wb"
  PROVE  Handed(s, frags, t, [t EXCEPT !.port[p] = frags])
<1> DEFINE r == [t EXCEPT !.port[p] = frags]
<1>1. /\ r.port = [t.port EXCEPT ![p] = frags]
      /\ r.queue = t.queue /\ r.drops = t.drops /\ r.taken = t.taken /\ r.injected = t.injected
      /\ r \in Networks
  BY DEF Networks
<1>2. Counted(r)
  BY DEF Counted
<1> HIDE DEF r
<1>3. \A q \in Streams : r.port[q] \in {t.port[q], frags}
  BY <1>1 DEF Networks
<1>4. \A q \in Streams : \A i \in 1 .. Len(r.queue[q]) :
        \/ r.queue[q][i] = frags
        \/ \E j \in 1 .. Len(t.queue[q]) : r.queue[q][i] = t.queue[q][j]
  BY <1>1
<1>5. \A q \in Streams : r.queue[q] = t.queue[q]
  BY <1>1
<1>6. r \in Networks
  BY <1>1
<1>7. Handed(s, frags, t, r)
  BY <1>2, <1>3, <1>4, <1>5, <1>6 DEF Handed
<1> QED BY <1>7 DEF r

\* OHDVideoAir::on_video_data, whatever the link.
LEMMA VideoHanded ==
  ASSUME path \in Paths, NEW t \in Networks, NEW s \in Nat, NEW frags \in Blocks,
         NEW idr \in BOOLEAN, NEW n \in 1 .. QueueSize, Counted(t)
  PROVE  Handed(s, frags, t, on_video_data(s, frags, idr, n, t))
<1> DEFINE r == on_video_data(s, frags, idr, n, t)
<1>1. CASE path.record_only \/ s \notin Streams
  BY <1>1, NothingHanded DEF on_video_data
<1>2. CASE ~path.record_only /\ s \in Streams
  <2>1. r = transmit_video_data(s, frags, idr, n, t)
    BY <1>2 DEF on_video_data
  <2>2. CASE path.link = "wb"
    <3>1. r = wb_transmit(s, frags, idr, n, t)
      BY <2>1, <2>2 DEF transmit_video_data
    <3> HIDE DEF r
    <3>2. Handed(s, frags, t, wb_transmit(s, frags, idr, n, t))
      BY <1>2, <2>2, WbHands
    <3> QED BY <3>1, <3>2 DEF r
  <2>3. CASE path.link = "ethernet"
    <3>1. r = [t EXCEPT !.port[0] = frags]
      BY <2>1, <2>3 DEF transmit_video_data, ethernet_transmit, GroundStream
    <3> HIDE DEF r
    <3>2. Handed(s, frags, t, [t EXCEPT !.port[0] = frags])
      BY <2>3, PortHands DEF Streams
    <3> QED BY <3>1, <3>2 DEF r
  <2>4. CASE path.link = "microhard"
    <3>1. r = IF s = 0 THEN [t EXCEPT !.port[0] = frags] ELSE t
      BY <2>1, <2>4 DEF transmit_video_data, microhard_transmit, GroundStream
    <3> HIDE DEF r
    <3>2. Handed(s, frags, t, [t EXCEPT !.port[0] = frags]) /\ Handed(s, frags, t, t)
      BY <2>4, PortHands, NothingHanded DEF Streams
    <3> QED BY <3>1, <3>2 DEF r
  <2> QED BY <2>2, <2>3, <2>4, PathFacts
<1> QED BY <1>1, <1>2

\* What is handed over whole leaves everything whole.
LEMMA HandedUnbroken ==
  ASSUME NEW s, NEW frags, NEW t, NEW r, Handed(s, frags, t, r), AllUnbroken(t), Unbroken(frags)
  PROVE  AllUnbroken(r)
<1>1. ASSUME NEW q \in Streams, NEW i \in 1 .. Len(r.queue[q])
      PROVE  Unbroken(r.queue[q][i])
  <2>1. \/ r.queue[q][i] = frags
        \/ \E j \in 1 .. Len(t.queue[q]) : r.queue[q][i] = t.queue[q][j]
    BY DEF Handed
  <2> QED BY <2>1 DEF AllUnbroken
<1>2. ASSUME NEW q \in Streams
      PROVE  Unbroken(r.port[q])
  <2>1. r.port[q] = t.port[q] \/ r.port[q] = frags
    BY DEF Handed
  <2> QED BY <2>1 DEF AllUnbroken
<1> QED BY <1>1, <1>2 DEF AllUnbroken

\* A fragment that continues the gathered ones keeps them whole.
LEMMA UnbrokenAppend ==
  ASSUME NEW frags \in Seq(Fragments), NEW f \in Fragments, Unbroken(frags), Continues(frags, f)
  PROVE  Unbroken(Append(frags, f))
<1> DEFINE b == Append(frags, f)
<1>1. /\ Len(frags) \in Nat /\ Len(b) = Len(frags) + 1 /\ b[Len(b)] = f
      /\ \A i \in 1 .. Len(frags) : b[i] = frags[i]
  OBVIOUS
<1> HIDE DEF b
<1>2. ASSUME NEW i \in 2 .. Len(b)
      PROVE  b[i].run = b[i - 1].run /\ b[i].seq = b[i - 1].seq + 1
  <2>1. CASE i \in 2 .. Len(frags)
    <3>1. b[i] = frags[i] /\ b[i - 1] = frags[i - 1]
      BY <1>1, <2>1
    <3> QED BY <2>1, <3>1 DEF Unbroken
  <2>2. CASE i = Len(b)
    <3>1. Len(frags) \in 1 .. Len(frags) /\ i - 1 = Len(frags) /\ frags # << >>
      BY <1>1, <2>2
    <3>2. b[i - 1] = frags[Len(frags)] /\ b[i] = f
      BY <1>1, <2>2, <3>1
    <3> QED BY <3>1, <3>2 DEF Continues
  <2> QED BY <1>1, <2>1, <2>2
<1> QED BY <1>2 DEF b, Unbroken

\* A payloader's slice: its first part, and what is left after it.
LEMMA ShapeParts ==
  ASSUME NEW nal \in {"config", "idr", "slice"}, NEW shape \in Shapes \cup {<< "single" >>}
  PROVE  LET parts == [i \in 1 .. Len(shape) |-> [nal |-> nal, part |-> shape[i]]] IN
         /\ shape[1] \in Parts /\ shape[1] \in {"single", "start"}
         /\ Tail(parts) \in Seq(Pieces) /\ RestOfSlice(Tail(parts))
         /\ shape[1] = "start" => Tail(parts) # << >>
<1> DEFINE parts == [i \in 1 .. Len(shape) |-> [nal |-> nal, part |-> shape[i]]]
<1>1. shape \in Seq(Parts) /\ Len(shape) \in Nat /\ Len(shape) > 0
  BY ShapesAssumption DEF Parts
<1>2. /\ shape[1] \in {"single", "start"}
      /\ \A i \in 2 .. Len(shape) : shape[i] = IF i = Len(shape) THEN "end" ELSE "middle"
      /\ shape[1] = "start" => Len(shape) > 1
  BY <1>1, ShapesAssumption
<1>3. parts \in Seq(Pieces) /\ Len(parts) = Len(shape)
  BY <1>1 DEF Pieces
<1>4. \A i \in 1 .. Len(shape) : parts[i].part = shape[i]
  OBVIOUS
<1>5. /\ Tail(parts) \in Seq(Pieces) /\ Len(Tail(parts)) = Len(shape) - 1
      /\ \A i \in 1 .. Len(shape) - 1 : Tail(parts)[i] = parts[i + 1]
  <2> HIDE DEF parts
  <2> QED BY <1>1, <1>3
<1> HIDE DEF parts
<1>6. ASSUME NEW i \in 1 .. Len(Tail(parts))
      PROVE  Tail(parts)[i].part = IF i = Len(Tail(parts)) THEN "end" ELSE "middle"
  <2>1. i + 1 \in 2 .. Len(shape) /\ i + 1 \in 1 .. Len(shape)
    BY <1>1, <1>5
  <2>2. Tail(parts)[i].part = shape[i + 1]
    BY <1>4, <1>5, <2>1
  <2>3. i = Len(Tail(parts)) <=> i + 1 = Len(shape)
    BY <1>1, <1>5
  <2> QED BY <1>2, <2>1, <2>2, <2>3
<1>7. ASSUME shape[1] = "start", Tail(parts) = << >>
      PROVE  FALSE
  <2> DEFINE l == Len(shape)
  <2>1. l > 1 /\ l \in Nat
    BY <1>1, <1>2, <1>7
  <2>2. l - 1 = 0
    BY <1>5, <1>7
  <2> HIDE DEF l
  <2> QED BY <2>1, <2>2
<1>8. shape[1] \in Parts
  BY <1>2 DEF Parts
<1> QED BY <1>2, <1>5, <1>6, <1>7, <1>8 DEF RestOfSlice, parts

\* The next part of a slice, and what is left after it.
LEMMA RestParts ==
  ASSUME NEW todo \in Seq(Pieces), todo # << >>, RestOfSlice(todo)
  PROVE  /\ Head(todo) \in Pieces /\ Head(todo).part \in {"middle", "end"}
         /\ Tail(todo) \in Seq(Pieces) /\ RestOfSlice(Tail(todo))
         /\ Head(todo).part = "middle" => Tail(todo) # << >>
<1>1. /\ Len(todo) \in Nat /\ Len(todo) > 0
      /\ Head(todo) = todo[1] /\ Head(todo) \in Pieces
      /\ Tail(todo) \in Seq(Pieces) /\ Len(Tail(todo)) = Len(todo) - 1
      /\ \A i \in 1 .. Len(todo) - 1 : Tail(todo)[i] = todo[i + 1]
  OBVIOUS
<1>2. todo[1].part = IF 1 = Len(todo) THEN "end" ELSE "middle"
  <2>1. 1 \in 1 .. Len(todo)
    BY <1>1
  <2> QED BY <2>1 DEF RestOfSlice
<1>3. ASSUME NEW i \in 1 .. Len(Tail(todo))
      PROVE  Tail(todo)[i].part = IF i = Len(Tail(todo)) THEN "end" ELSE "middle"
  <2>1. i + 1 \in 1 .. Len(todo) /\ (i = Len(Tail(todo)) <=> i + 1 = Len(todo))
    BY <1>1
  <2>2. Tail(todo)[i] = todo[i + 1]
    BY <1>1
  <2>3. todo[i + 1].part = IF i + 1 = Len(todo) THEN "end" ELSE "middle"
    BY <2>1 DEF RestOfSlice
  <2> QED BY <2>1, <2>2, <2>3
<1>4. ASSUME Head(todo).part = "middle", Tail(todo) = << >>
      PROVE  FALSE
  <2> DEFINE l == Len(todo)
  <2>1. l - 1 = 0 /\ l \in Nat
    BY <1>1, <1>4
  <2>2. l # 1
    <3>1. todo[1].part = "middle"
      BY <1>1, <1>4
    <3> QED BY <1>2, <3>1
  <2> HIDE DEF l
  <2> QED BY <2>1, <2>2
<1> QED BY <1>1, <1>2, <1>3, <1>4 DEF RestOfSlice

\* The assembly of a fragment (buffer_and_forward): what has been gathered is
\* cut and handed over, or grows by the fragment.
LEMMA AssemblyStep ==
  ASSUME VideoInv, ~path.raw, NEW c \in path.cams, NEW f \in Fragments, NEW n \in 1 .. QueueSize,
         Continues(asm[c].frags, f), on_new_rtp_frame_fragment(c, f, n)
  PROVE  /\ asm' \in [path.cams -> [frags : Seq(Fragments), idr : BOOLEAN]]
         /\ \A d \in path.cams : d # c => asm'[d] = asm[d]
         /\ net' \in Networks /\ Counted(net') /\ AllUnbroken(net')
         /\ Unbroken(asm'[c].frags)
         /\ \/ asm'[c].frags = << >>
            \/ /\ asm'[c].frags = Append(asm[c].frags, f)
               /\ asm'[c].idr = IF Info(c, f).start THEN is_idr_frame(Info(c, f).nal) ELSE asm[c].idr
               /\ ~Info(c, f).end
<1> DEFINE frags == Append(asm[c].frags, f)
           idr == IF Info(c, f).start THEN is_idr_frame(Info(c, f).nal) ELSE asm[c].idr
<1>1. /\ asm[c].frags \in Seq(Fragments) /\ asm[c].idr \in BOOLEAN /\ c \in Nat
      /\ asm \in [path.cams -> [frags : Seq(Fragments), idr : BOOLEAN]]
      /\ net \in Networks /\ Counted(net) /\ AllUnbroken(net) /\ path \in Paths
  BY PathFacts DEF VideoInv, VideoTyped
<1>2. frags \in Seq(Fragments) /\ frags \in Blocks
  BY <1>1 DEF Blocks
<1>3. idr \in BOOLEAN
  BY <1>1 DEF is_idr_frame
<1>4. Unbroken(asm[c].frags)
  BY DEF VideoInv, Assembled
<1>5. Unbroken(frags)
  BY <1>1, <1>4, UnbrokenAppend
<1>6. CASE Info(c, f).end \/ Len(frags) > FragmentLimit
  <2>1. /\ net' = on_video_data(c, frags, idr, n, net)
        /\ asm' = [asm EXCEPT ![c] = Nothing]
    BY <1>6 DEF on_new_rtp_frame_fragment
  <2> HIDE DEF frags, idr
  <2>2. Handed(c, frags, net, net')
    BY <1>1, <1>2, <1>3, <2>1, VideoHanded
  <2>3. net' \in Networks /\ Counted(net')
    BY <1>1, <2>2 DEF Handed
  <2>4. AllUnbroken(net')
    BY <1>1, <1>5, <2>2, HandedUnbroken
  <2>5. Nothing \in [frags : Seq(Fragments), idr : BOOLEAN] /\ Nothing.frags = << >>
    BY DEF Nothing
  <2>6. asm'[c] = Nothing /\ Unbroken(<< >>)
    BY <1>1, <2>1 DEF Unbroken
  <2> QED BY <1>1, <2>1, <2>3, <2>4, <2>5, <2>6
<1>7. CASE ~(Info(c, f).end \/ Len(frags) > FragmentLimit)
  <2>1. /\ net' = net /\ asm' = [asm EXCEPT ![c] = [frags |-> frags, idr |-> idr]]
        /\ ~Info(c, f).end
    BY <1>7 DEF on_new_rtp_frame_fragment
  <2> HIDE DEF frags, idr
  <2>2. asm'[c] = [frags |-> frags, idr |-> idr]
    BY <1>1, <2>1
  <2> QED BY <1>1, <1>2, <1>3, <1>5, <2>1, <2>2 DEF frags, idr
<1> QED BY <1>6, <1>7

LEMMA StartsAppend ==
  ASSUME NEW frags \in Seq(Fragments), NEW f \in Fragments, KeyFrameStarts(Append(frags, f))
  PROVE  KeyFrameStarts(frags) \/ (f.nal = "idr" /\ f.part = "start")
<1> DEFINE b == Append(frags, f)
<1>1. /\ Len(frags) \in Nat /\ Len(b) = Len(frags) + 1 /\ b[Len(frags) + 1] = f
      /\ \A i \in 1 .. Len(frags) : b[i] = frags[i]
  OBVIOUS
<1> HIDE DEF b
<1>2. PICK i \in 1 .. Len(b) : b[i].nal = "idr" /\ b[i].part = "start"
  BY DEF KeyFrameStarts, b
<1>3. CASE i \in 1 .. Len(frags)
  BY <1>1, <1>2, <1>3 DEF KeyFrameStarts
<1>4. CASE i = Len(frags) + 1
  BY <1>1, <1>2, <1>4
<1> QED BY <1>1, <1>3, <1>4

\* A sample of the pipeline: the part of a slice that is next.
Pulled(c, nal, part, todo, n) ==
  /\ c \in path.cams /\ nal \in {"config", "idr", "slice"} /\ part \in Parts
  /\ todo \in Seq(Pieces) /\ RestOfSlice(todo)
  /\ part \in {"start", "middle"} => todo # << >>
  /\ part \in {"start", "single"} => enc[c].todo = << >>
  /\ enc' \in [path.cams -> Encoders(Pieces)]
  /\ enc'[c].run = enc[c].run /\ enc'[c].codec = enc[c].codec
  /\ enc'[c].todo = todo /\ enc'[c].seq = enc[c].seq + 1
  /\ \A d \in path.cams : d # c => enc'[d] = enc[d]
  /\ on_new_rtp_frame_fragment(c, Fragment(c, nal, part), n)

LEMMA PieceStep ==
  ASSUME VideoInv, ~path.raw, UNCHANGED << path, codec, rtp, gate >>,
         NEW c, NEW nal, NEW part, NEW todo, NEW n \in 1 .. QueueSize,
         Pulled(c, nal, part, todo, n)
  PROVE  VideoInv'
<1>0. /\ c \in path.cams /\ nal \in {"config", "idr", "slice"} /\ part \in Parts
      /\ todo \in Seq(Pieces) /\ RestOfSlice(todo)
      /\ part \in {"start", "middle"} => todo # << >>
      /\ part \in {"start", "single"} => enc[c].todo = << >>
      /\ enc' \in [path.cams -> Encoders(Pieces)]
      /\ enc'[c].run = enc[c].run /\ enc'[c].codec = enc[c].codec
      /\ enc'[c].todo = todo /\ enc'[c].seq = enc[c].seq + 1
      /\ \A d \in path.cams : d # c => enc'[d] = enc[d]
  BY DEF Pulled
<1> DEFINE f == Fragment(c, nal, part)
<1>1. /\ path \in Paths /\ path' = path
      /\ enc[c] \in Encoders(Pieces) /\ asm[c].frags \in Seq(Fragments)
  BY <1>0 DEF VideoInv, VideoTyped
<1>2. /\ f \in Fragments /\ f.run = enc[c].run /\ f.seq = enc[c].seq
      /\ f.codec = enc[c].codec /\ f.nal = nal /\ f.part = part
  BY <1>0, <1>1 DEF Fragment, Fragments, Encoders, Codecs
<1>3. Continues(asm[c].frags, f)
  BY <1>0, <1>2 DEF VideoInv, Assembled, Continues
<1> HIDE DEF f
<1>4. on_new_rtp_frame_fragment(c, f, n)
  BY DEF f, Pulled
<1>5. /\ asm' \in [path.cams -> [frags : Seq(Fragments), idr : BOOLEAN]]
      /\ \A d \in path.cams : d # c => asm'[d] = asm[d]
      /\ net' \in Networks /\ Counted(net') /\ AllUnbroken(net')
      /\ Unbroken(asm'[c].frags)
      /\ \/ asm'[c].frags = << >>
         \/ /\ asm'[c].frags = Append(asm[c].frags, f)
            /\ asm'[c].idr = IF Info(c, f).start THEN is_idr_frame(Info(c, f).nal) ELSE asm[c].idr
            /\ ~Info(c, f).end
  BY <1>0, <1>2, <1>3, <1>4, AssemblyStep
<1>6. VideoTyped'
  BY <1>0, <1>1, <1>5 DEF VideoInv, VideoTyped
<1>7. Assembled'
  <2>1. Continues(asm'[c].frags, enc'[c])
    <3>1. CASE asm'[c].frags = << >>
      BY <3>1 DEF Continues
    <3>2. CASE asm'[c].frags = Append(asm[c].frags, f)
      <4>1. asm'[c].frags[Len(asm'[c].frags)] = f
        BY <1>1, <1>2, <3>2
      <4>2. f.run = enc'[c].run /\ f.seq + 1 = enc'[c].seq
        BY <1>0, <1>2
      <4> QED BY <4>1, <4>2 DEF Continues
    <3> QED BY <1>5, <3>1, <3>2
  <2>2. \A d \in path.cams : Unbroken(asm'[d].frags) /\ Continues(asm'[d].frags, enc'[d])
    BY <1>0, <1>5, <2>1 DEF VideoInv, Assembled
  <2> QED BY <1>1, <2>2 DEF Assembled
<1>8. KeyFrameKnown'
  <2>1. ASSUME ~path.switch, path.codec = "h264"
        PROVE  /\ codec[c] = "h264" /\ enc'[c].codec = "h264"
               /\ KeyFrameStarts(asm'[c].frags) => asm'[c].idr /\ todo # << >>
    <3>1. /\ codec[c] = "h264" /\ enc[c].codec = "h264"
          /\ KeyFrameStarts(asm[c].frags) => asm[c].idr /\ enc[c].todo # << >>
      BY <1>0, <2>1 DEF VideoInv, KeyFrameKnown
    <3>2. Info(c, f) = h264_more_info(f)
      BY <3>1 DEF Info
    <3> SUFFICES ASSUME KeyFrameStarts(asm'[c].frags) PROVE asm'[c].idr /\ todo # << >>
      BY <1>0, <3>1
    <3>3. asm'[c].frags # << >>
      BY DEF KeyFrameStarts
    <3>4. /\ asm'[c].frags = Append(asm[c].frags, f)
          /\ asm'[c].idr = IF Info(c, f).start THEN is_idr_frame(Info(c, f).nal) ELSE asm[c].idr
          /\ ~Info(c, f).end
      BY <1>5, <3>3
    <3>5. KeyFrameStarts(asm[c].frags) \/ (nal = "idr" /\ part = "start")
      BY <1>1, <1>2, <3>4, StartsAppend
    <3>6. CASE part = "end"
      <4>1. h264_more_info(f) = [Unknown EXCEPT !.end = TRUE]
        BY <1>2, <3>1, <3>6 DEF h264_more_info
      <4> QED BY <3>2, <3>4, <4>1 DEF Unknown
    <3>7. CASE part = "start"
      <4>1. h264_more_info(f) = [Unknown EXCEPT !.start = TRUE, !.nal = nal]
        BY <1>2, <3>1, <3>7 DEF h264_more_info
      <4>2. Info(c, f).start = TRUE /\ Info(c, f).nal = nal
        BY <3>2, <4>1 DEF Unknown
      <4>3. nal = "idr"
        BY <1>0, <3>1, <3>5, <3>7
      <4> QED BY <1>0, <3>4, <3>7, <4>2, <4>3 DEF is_idr_frame
    <3>8. CASE part \in {"single", "middle"}
      <4>1. KeyFrameStarts(asm[c].frags)
        BY <3>5, <3>8
      <4>2. part = "middle"
        BY <1>0, <3>1, <3>8, <4>1
      <4>3. h264_more_info(f) = Unknown
        BY <1>2, <4>2 DEF h264_more_info
      <4>4. Info(c, f).start = FALSE
        BY <3>2, <4>3 DEF Unknown
      <4> QED BY <1>0, <3>1, <3>4, <4>1, <4>2, <4>4
    <3> QED BY <1>0, <3>6, <3>7, <3>8 DEF Parts
  <2>2. enc'[c].todo = todo
    BY <1>0
  <2>3. \A d \in path.cams :
          /\ RestOfSlice(enc'[d].todo)
          /\ ~path.switch /\ path.codec = "h264" =>
               /\ codec[d] = "h264" /\ enc'[d].codec = "h264"
               /\ KeyFrameStarts(asm'[d].frags) => asm'[d].idr /\ enc'[d].todo # << >>
    <3> TAKE d \in path.cams
    <3>1. CASE d = c
      BY <1>0, <2>1, <2>2, <3>1
    <3>2. CASE d # c
      <4>1. enc'[d] = enc[d] /\ asm'[d] = asm[d]
        BY <1>0, <1>5, <3>2
      <4>2. /\ RestOfSlice(enc[d].todo)
            /\ ~path.switch /\ path.codec = "h264" =>
                 /\ codec[d] = "h264" /\ enc[d].codec = "h264"
                 /\ KeyFrameStarts(asm[d].frags) => asm[d].idr /\ enc[d].todo # << >>
        BY DEF VideoInv, KeyFrameKnown
      <4> QED BY <4>1, <4>2
    <3> QED BY <3>1, <3>2
  <2> QED BY <1>1, <2>3 DEF KeyFrameKnown
<1>9. ConfigKnown'
  BY DEF ConfigKnown
<1>10. (~path.raw => AllUnbroken(net))' /\ Counted(net)'
  BY <1>1, <1>5 DEF AllUnbroken, Counted
<1> QED BY <1>6, <1>7, <1>8, <1>9, <1>10 DEF VideoInv

LEMMA EncoderNext ==
  ASSUME NEW T, NEW e \in Encoders(T), NEW todo \in Seq(T)
  PROVE  /\ [e EXCEPT !.todo = todo, !.seq = @ + 1] \in Encoders(T)
         /\ [e EXCEPT !.todo = todo, !.seq = @ + 1, !.slices = @ + 1] \in Encoders(T)
         /\ [e EXCEPT !.todo = todo] \in Encoders(T)
         /\ \A v \in 1 .. 2 : [e EXCEPT !.todo = todo, !.slices = @ + 1, !.ver = v] \in Encoders(T)
<1>1. e.seq \in Nat /\ e.slices \in Nat
  BY DEF Encoders
<1>2. ASSUME NEW x \in Encoders(T), NEW y \in Seq(T)
      PROVE  [x EXCEPT !.todo = y] \in Encoders(T)
  BY DEF Encoders
<1>3. ASSUME NEW x \in Encoders(T), NEW y \in Nat
      PROVE  [x EXCEPT !.seq = y] \in Encoders(T) /\ [x EXCEPT !.slices = y] \in Encoders(T)
  BY DEF Encoders
<1>4. ASSUME NEW x \in Encoders(T), NEW v \in 1 .. 2
      PROVE  [x EXCEPT !.ver = v] \in Encoders(T)
  BY DEF Encoders
<1> DEFINE a == [e EXCEPT !.todo = todo]
           b == [a EXCEPT !.seq = e.seq + 1]
           d == [a EXCEPT !.slices = e.slices + 1]
<1>5. a \in Encoders(T)
  BY <1>2
<1>6. b \in Encoders(T) /\ d \in Encoders(T)
  <2> HIDE DEF a
  <2>1. e.seq + 1 \in Nat /\ e.slices + 1 \in Nat
    BY <1>1
  <2> QED BY <1>3, <1>5, <2>1
<1>7. [e EXCEPT !.todo = todo, !.seq = @ + 1] = b
  BY DEF Encoders
<1>8. [e EXCEPT !.todo = todo, !.seq = @ + 1, !.slices = @ + 1] = [b EXCEPT !.slices = e.slices + 1]
  BY DEF Encoders
<1>9. [b EXCEPT !.slices = e.slices + 1] \in Encoders(T)
  <2>1. e.slices + 1 \in Nat /\ b \in Encoders(T)
    BY <1>1, <1>6
  <2> HIDE DEF a, b
  <2> QED BY <1>3, <2>1
<1>10. ASSUME NEW v \in 1 .. 2
       PROVE  [e EXCEPT !.todo = todo, !.slices = @ + 1, !.ver = v] \in Encoders(T)
  <2>1. [e EXCEPT !.todo = todo, !.slices = @ + 1, !.ver = v] = [d EXCEPT !.ver = v]
    BY DEF Encoders
  <2> HIDE DEF a, d
  <2> QED BY <1>4, <1>6, <2>1
<1> QED BY <1>5, <1>6, <1>7, <1>8, <1>9, <1>10

\* pull_sample: the next part of the slice under way, or the first of another.
LEMMA PullStep ==
  ASSUME VideoInv, NEW c \in path.cams, pull_sample(c)
  PROVE  VideoInv'
<1>1. /\ ~path.raw /\ UNCHANGED << path, codec, rtp, gate >>
      /\ enc \in [path.cams -> Encoders(Pieces)] /\ path \in Paths
  BY DEF pull_sample, VideoInv, VideoTyped
<1>2. /\ enc[c].todo \in Seq(Pieces) /\ RestOfSlice(enc[c].todo)
      /\ enc[c].seq \in Nat /\ enc[c].slices \in Nat
      /\ enc[c] = [run |-> enc[c].run, codec |-> enc[c].codec, todo |-> enc[c].todo,
                   slices |-> enc[c].slices, seq |-> enc[c].seq, ver |-> enc[c].ver]
  BY <1>1 DEF Encoders, VideoInv, KeyFrameKnown
<1>3. PICK n \in 1 .. QueueSize :
        IF enc[c].todo # << >>
        THEN LET h == Head(enc[c].todo) IN
             /\ enc' = [enc EXCEPT ![c].todo = Tail(@), ![c].seq = @ + 1]
             /\ on_new_rtp_frame_fragment(c, Fragment(c, h.nal, h.part), n)
        ELSE /\ enc[c].slices < path.slices
             /\ \E nal \in {"config", "idr", "slice"} :
                \E shape \in (IF nal = "config" THEN {<< "single" >>} ELSE Shapes) :
                    LET parts == [i \in 1 .. Len(shape) |-> [nal |-> nal, part |-> shape[i]]] IN
                    /\ enc' = [enc EXCEPT ![c].todo = Tail(parts), ![c].seq = @ + 1, ![c].slices = @ + 1]
                    /\ on_new_rtp_frame_fragment(c, Fragment(c, nal, shape[1]), n)
  BY <1>1 DEF pull_sample
<1>4. CASE enc[c].todo # << >>
  <2> DEFINE h == Head(enc[c].todo)
             rest == Tail(enc[c].todo)
  <2>1. /\ h \in Pieces /\ h.part \in {"middle", "end"} /\ rest \in Seq(Pieces)
        /\ RestOfSlice(rest)
        /\ h.part = "middle" => rest # << >>
    BY <1>2, <1>4, RestParts
  <2>2. /\ enc' = [enc EXCEPT ![c].todo = rest, ![c].seq = @ + 1]
        /\ on_new_rtp_frame_fragment(c, Fragment(c, h.nal, h.part), n)
    BY <1>3, <1>4
  <2> HIDE DEF h, rest
  <2>3. enc' = [enc EXCEPT ![c] = [enc[c] EXCEPT !.todo = rest, !.seq = @ + 1]]
    BY <1>1, <2>2
  <2>4. /\ enc'[c] = [enc[c] EXCEPT !.todo = rest, !.seq = @ + 1]
        /\ \A d \in path.cams : d # c => enc'[d] = enc[d]
    BY <1>1, <2>3
  <2>5. [enc[c] EXCEPT !.todo = rest, !.seq = @ + 1] \in Encoders(Pieces)
    BY <1>1, <2>1, EncoderNext
  <2>6. enc' \in [path.cams -> Encoders(Pieces)]
    BY <1>1, <2>3, <2>5
  <2>7. /\ enc'[c].run = enc[c].run /\ enc'[c].codec = enc[c].codec
         /\ enc'[c].todo = rest /\ enc'[c].seq = enc[c].seq + 1
    <3>1. enc[c] \in Encoders(Pieces)
      BY <1>1
    <3> QED BY <2>4, <3>1 DEF Encoders
  <2>8. /\ h.nal \in {"config", "idr", "slice"} /\ h.part \in Parts
        /\ h.part \in {"start", "middle"} => rest # << >>
        /\ h.part \in {"start", "single"} => enc[c].todo = << >>
    BY <1>4, <2>1 DEF Pieces
  <2>9. Pulled(c, h.nal, h.part, rest, n)
    BY <2>1, <2>2, <2>4, <2>6, <2>7, <2>8 DEF Pulled
  <2> QED BY <1>1, <2>9, PieceStep
<1>5. CASE enc[c].todo = << >>
  <2>0. PICK nal \in {"config", "idr", "slice"} :
          \E shape \in (IF nal = "config" THEN {<< "single" >>} ELSE Shapes) :
            LET parts == [i \in 1 .. Len(shape) |-> [nal |-> nal, part |-> shape[i]]] IN
            /\ enc' = [enc EXCEPT ![c].todo = Tail(parts), ![c].seq = @ + 1, ![c].slices = @ + 1]
            /\ on_new_rtp_frame_fragment(c, Fragment(c, nal, shape[1]), n)
    BY <1>3, <1>5
  <2>1. PICK shape \in (IF nal = "config" THEN {<< "single" >>} ELSE Shapes) :
          LET parts == [i \in 1 .. Len(shape) |-> [nal |-> nal, part |-> shape[i]]] IN
          /\ enc' = [enc EXCEPT ![c].todo = Tail(parts), ![c].seq = @ + 1, ![c].slices = @ + 1]
          /\ on_new_rtp_frame_fragment(c, Fragment(c, nal, shape[1]), n)
    BY <2>0
  <2> DEFINE rest == Tail([i \in 1 .. Len(shape) |-> [nal |-> nal, part |-> shape[i]]])
             part == shape[1]
  <2>2. shape \in Shapes \cup {<< "single" >>}
    OBVIOUS
  <2>3. /\ part \in Parts /\ part \in {"single", "start"} /\ rest \in Seq(Pieces)
        /\ RestOfSlice(rest)
        /\ part = "start" => rest # << >>
    BY <2>2, ShapeParts
  <2>4. /\ enc' = [enc EXCEPT ![c].todo = rest, ![c].seq = @ + 1, ![c].slices = @ + 1]
        /\ on_new_rtp_frame_fragment(c, Fragment(c, nal, part), n)
    BY <2>1
  <2> HIDE DEF rest, part
  <2>5. enc' = [enc EXCEPT ![c] = [enc[c] EXCEPT !.todo = rest, !.seq = @ + 1, !.slices = @ + 1]]
    BY <1>1, <2>4
  <2>6. /\ enc'[c] = [enc[c] EXCEPT !.todo = rest, !.seq = @ + 1, !.slices = @ + 1]
        /\ \A d \in path.cams : d # c => enc'[d] = enc[d]
    BY <1>1, <2>5
  <2>7. [enc[c] EXCEPT !.todo = rest, !.seq = @ + 1, !.slices = @ + 1] \in Encoders(Pieces)
    BY <1>1, <2>3, EncoderNext
  <2>8. enc' \in [path.cams -> Encoders(Pieces)]
    BY <1>1, <2>5, <2>7
  <2>9. /\ enc'[c].run = enc[c].run /\ enc'[c].codec = enc[c].codec
         /\ enc'[c].todo = rest /\ enc'[c].seq = enc[c].seq + 1
    <3>1. enc[c] \in Encoders(Pieces)
      BY <1>1
    <3> QED BY <2>6, <3>1 DEF Encoders
  <2>10. part \in {"start", "middle"} => rest # << >>
    BY <2>3
  <2>11. Pulled(c, nal, part, rest, n)
    BY <1>5, <2>3, <2>4, <2>6, <2>8, <2>9, <2>10 DEF Pulled
  <2> QED BY <1>1, <2>11, PieceStep
<1> QED BY <1>4, <1>5

-----------------------------------------------------------------------------
Helpers == [sps : Units, pps : Units, due : BOOLEAN]

LEMMA HelperFacts ==
  ASSUME VideoInv, NEW c \in path.cams
  PROVE  /\ path \in Paths /\ c \in Nat
         /\ rtp \in [path.cams -> Helpers] /\ rtp[c] \in Helpers
         /\ rtp[c].sps \in Units /\ rtp[c].pps \in Units /\ rtp[c].due \in BOOLEAN
         /\ net \in Networks /\ Counted(net)
  BY PathFacts DEF VideoInv, VideoTyped, Helpers

\* What the helper keeps of a NALU (save_if_config, reset).
LEMMA KeptTyped ==
  ASSUME NEW c, NEW nal \in Units, rtp[c] \in Helpers
  PROVE  Kept(c, nal) \in Helpers
<1> DEFINE h == rtp[c]
<1>1. NoNal \in Units
  BY DEF NoNal, Units
<1>2. reset(h) \in Helpers
  BY <1>1 DEF reset, Helpers
<1>3. ASSUME NEW g \in Helpers PROVE save_if_config(g, nal, c) \in Helpers
  BY <1>3 DEF save_if_config, Helpers
<1> HIDE DEF h
<1>4. h \in Helpers
  BY DEF h
<1>5. Kept(c, nal) \in {save_if_config(h, nal, c), h, save_if_config(reset(h), nal, c)}
  BY DEF Kept, h
<1> QED BY <1>2, <1>3, <1>4, <1>5

\* Whatever is forwarded, it is the NALU itself or the config before it.
ForwardedOnly(c, nal) ==
  \A q \in Streams :
    \/ net'.queue[q] = net.queue[q]
    \/ /\ q = c /\ Forwards(c, nal)
       /\ Last(net'.queue[q]) \in {<< rtp[c].sps, rtp[c].pps >>, << nal >>}

LEMMA SplitStep ==
  ASSUME VideoInv, NEW c \in path.cams, NEW nal \in Units, NEW n \in 1 .. QueueSize,
         on_new_split_nalu(c, nal, n)
  PROVE  /\ rtp' = [rtp EXCEPT ![c] = IF Forwards(c, nal) THEN [rtp[c] EXCEPT !.due = FALSE]
                                      ELSE Kept(c, nal)]
         /\ rtp' \in [path.cams -> Helpers]
         /\ net' \in Networks /\ Counted(net') /\ ForwardedOnly(c, nal)
<1>1. /\ path \in Paths /\ c \in Nat
      /\ rtp \in [path.cams -> Helpers] /\ rtp[c] \in Helpers
      /\ rtp[c].sps \in Units /\ rtp[c].pps \in Units /\ rtp[c].due \in BOOLEAN
      /\ net \in Networks /\ Counted(net)
  BY HelperFacts
<1>2. CASE ~Forwards(c, nal)
  <2>1. rtp' = [rtp EXCEPT ![c] = Kept(c, nal)] /\ net' = net
    BY <1>2 DEF on_new_split_nalu
  <2>2. Kept(c, nal) \in Helpers
    BY <1>1, KeptTyped
  <2> QED BY <1>1, <1>2, <2>1, <2>2 DEF ForwardedOnly
<1>3. CASE Forwards(c, nal)
  <2> DEFINE config == << rtp[c].sps, rtp[c].pps >>
             picture == << nal >>
             sent == IF rtp[c].due THEN on_video_data(c, config, FALSE, n, net) ELSE net
  <2>1. /\ net' = on_video_data(c, picture, FALSE, n, sent)
        /\ rtp' = [rtp EXCEPT ![c].due = FALSE]
    BY <1>3 DEF on_new_split_nalu, on_new_nalu_frame
  <2>2. config \in Blocks /\ picture \in Blocks
    BY <1>1 DEF Blocks
  <2>3. Handed(c, config, net, sent)
    <3> HIDE DEF config
    <3>1. Handed(c, config, net, on_video_data(c, config, FALSE, n, net)) /\ Handed(c, config, net, net)
      BY <1>1, <2>2, VideoHanded, NothingHanded
    <3> QED BY <3>1
  <2> HIDE DEF config, picture, sent
  <2>4. sent \in Networks /\ Counted(sent)
    BY <1>1, <2>3 DEF Handed
  <2>5. Handed(c, picture, sent, net')
    BY <1>1, <2>1, <2>2, <2>4, VideoHanded
  <2>6. net' \in Networks /\ Counted(net')
    BY <2>4, <2>5 DEF Handed
  <2>7. ASSUME NEW q \in Streams, net'.queue[q] # net.queue[q]
        PROVE  q = c /\ Last(net'.queue[q]) \in {config, picture}
    <3>1. /\ q # c => net'.queue[q] = sent.queue[q] /\ sent.queue[q] = net.queue[q]
          /\ net'.queue[q] = sent.queue[q] \/ Last(net'.queue[q]) = picture
          /\ sent.queue[q] = net.queue[q] \/ Last(sent.queue[q]) = config
      BY <2>3, <2>5 DEF Handed
    <3> QED BY <2>7, <3>1
  <2>8. ForwardedOnly(c, nal)
    BY <1>3, <2>7 DEF ForwardedOnly, config, picture
  <2>9. rtp' = [rtp EXCEPT ![c] = [rtp[c] EXCEPT !.due = FALSE]]
    BY <1>1, <2>1
  <2>10. [rtp[c] EXCEPT !.due = FALSE] \in Helpers
    BY <1>1 DEF Helpers
  <2> QED BY <1>1, <1>3, <2>6, <2>8, <2>9, <2>10
<1> QED BY <1>2, <1>3

\* Where a sample is after its next NALU.
NextUnit(e, nal, todo, v) ==
  \/ /\ e.todo = << >>
     /\ \/ nal = Unit("sps", v) /\ todo = << Unit("pps", v), Unit("idr", v) >>
        \/ nal = Unit("aud", v) /\ todo = << Unit("slice", v) >> /\ v = e.ver
  \/ e.todo = << nal >> /\ todo = << >> /\ v = e.ver
  \/ e.todo = << nal, Unit("idr", v) >> /\ todo = << Unit("idr", v) >> /\ v = e.ver

\* The helper follows the sample (on_new_split_nalu).
LEMMA HelperFollows ==
  ASSUME NEW c, NEW nal \in Units, NEW v \in 1 .. 2, NEW todo, NEW h, NEW e,
         rtp[c] \in Helpers, enc[c] \in Encoders(Units), enc[c].codec = "h264",
         KnowsConfig(rtp[c], enc[c]), NextUnit(enc[c], nal, todo, v),
         h = IF Forwards(c, nal) THEN [rtp[c] EXCEPT !.due = FALSE] ELSE Kept(c, nal),
         e.todo = todo, e.ver = v
  PROVE  /\ KnowsConfig(h, e)
         /\ Forwards(c, nal) => /\ rtp[c].sps = Unit("sps", v) /\ rtp[c].pps = Unit("pps", v)
                                /\ nal.ver = v /\ h.sps = rtp[c].sps /\ h.pps = rtp[c].pps
<1> DEFINE g == rtp[c]
           u == enc[c].ver
<1>1. /\ g \in Helpers /\ u \in 1 .. 2
      /\ g = [sps |-> g.sps, pps |-> g.pps, due |-> g.due]
  BY DEF Helpers, Encoders
<1>2. \A k, w : Unit(k, w).kind = k /\ Unit(k, w).ver = w
  BY DEF Unit
<1>3. NoNal.kind = "none"
  BY DEF NoNal
<1>4. all_config_available(g, c) <=> g.sps # NoNal /\ g.pps # NoNal
  BY DEF all_config_available
<1>5. \A f : \A x \in {"sps", "pps", "aud", "slice", "idr"} :
        x = nal.kind => save_if_config(f, nal, c) = IF x = "sps" THEN [f EXCEPT !.sps = nal]
                                                    ELSE IF x = "pps" THEN [f EXCEPT !.pps = nal] ELSE f
  BY DEF save_if_config, Kind
<1>6. h = IF Forwards(c, nal) THEN [g EXCEPT !.due = FALSE] ELSE Kept(c, nal)
  OBVIOUS
<1>7. /\ KnowsConfig(g, enc[c])
      /\ Forwards(c, nal) <=> all_config_available(g, c) /\ nal.kind \notin {"sps", "pps", "sei", "aud"}
      /\ Kept(c, nal) = CASE ~all_config_available(g, c) -> save_if_config(g, nal, c)
                          [] all_config_available(g, c) /\ nal.kind \in {"sps", "pps"} ->
                               IF check_is_still_same_config_data(g, nal) THEN g
                               ELSE save_if_config(reset(g), nal, c)
                          [] OTHER -> g
  BY DEF Forwards, Kept
<1> HIDE DEF g
<1>8. \A x : [g EXCEPT !.sps = x] = [sps |-> x, pps |-> g.pps, due |-> g.due]
  BY <1>1
<1>9. \A x : [g EXCEPT !.pps = x] = [sps |-> g.sps, pps |-> x, due |-> g.due]
  BY <1>1
<1>10. CASE nal = Unit("sps", v)
  <2>1. /\ enc[c].todo = << >> /\ todo = << Unit("pps", v), Unit("idr", v) >>
    BY <1>2, <1>7, <1>10 DEF NextUnit, KnowsConfig
  <2>2. \/ g.sps = NoNal /\ g.pps = NoNal
        \/ g.sps = Unit("sps", u) /\ g.pps = Unit("pps", u)
    BY <1>7, <2>1 DEF KnowsConfig
  <2>3. h = Kept(c, nal) /\ nal.kind = "sps" /\ ~Forwards(c, nal)
    BY <1>2, <1>6, <1>7, <1>10
  <2>4. CASE g.sps = NoNal /\ g.pps = NoNal
    <3>1. h = [sps |-> nal, pps |-> g.pps, due |-> g.due]
      BY <1>4, <1>5, <1>7, <1>8, <2>3, <2>4
    <3> QED BY <1>10, <2>1, <2>3, <2>4, <3>1 DEF KnowsConfig
  <2>5. CASE g.sps = Unit("sps", u) /\ g.pps = Unit("pps", u)
    <3>1. all_config_available(g, c)
      BY <1>2, <1>3, <1>4, <2>5
    <3>2. CASE nal = g.sps
      <4>1. h = g
        BY <1>7, <2>3, <3>1, <3>2 DEF check_is_still_same_config_data
      <4>2. u = v
        BY <1>2, <1>10, <2>5, <3>2
      <4> QED BY <2>1, <2>3, <2>5, <4>1, <4>2 DEF KnowsConfig
    <3>3. CASE nal # g.sps
      <4>1. h = save_if_config(reset(g), nal, c)
        BY <1>7, <2>3, <3>1, <3>3 DEF check_is_still_same_config_data
      <4>2. reset(g) = [sps |-> NoNal, pps |-> NoNal, due |-> g.due]
        <5>1. [[g EXCEPT !.sps = NoNal] EXCEPT !.pps = NoNal]
                = [sps |-> NoNal, pps |-> NoNal, due |-> g.due]
          <6> DEFINE k == [g EXCEPT !.sps = NoNal]
          <6>1. k = [sps |-> NoNal, pps |-> g.pps, due |-> g.due]
            BY <1>8
          <6> HIDE DEF k
          <6>2. [k EXCEPT !.pps = NoNal] = [sps |-> NoNal, pps |-> NoNal, due |-> g.due]
            BY <6>1
          <6> QED BY <6>2 DEF k
        <5> QED BY <5>1 DEF reset
      <4>3. h = [sps |-> nal, pps |-> NoNal, due |-> g.due]
        <5>1. h = [reset(g) EXCEPT !.sps = nal]
          BY <1>5, <2>3, <4>1
        <5> DEFINE k == reset(g)
        <5>2. k = [sps |-> NoNal, pps |-> NoNal, due |-> g.due] /\ h = [k EXCEPT !.sps = nal]
          BY <4>2, <5>1
        <5> HIDE DEF k
        <5> QED BY <5>2
      <4> QED BY <1>10, <2>1, <2>3, <4>3 DEF KnowsConfig
    <3> QED BY <3>2, <3>3
  <2> QED BY <2>2, <2>4, <2>5
<1>11. CASE nal = Unit("aud", v)
  <2>1. /\ enc[c].todo = << >> /\ todo = << Unit("slice", v) >> /\ v = u
    BY <1>2, <1>7, <1>11 DEF NextUnit, KnowsConfig
  <2>2. \/ g.sps = NoNal /\ g.pps = NoNal
        \/ g.sps = Unit("sps", u) /\ g.pps = Unit("pps", u)
    BY <1>7, <2>1 DEF KnowsConfig
  <2>3. h = Kept(c, nal) /\ nal.kind = "aud" /\ ~Forwards(c, nal)
    BY <1>2, <1>6, <1>7, <1>11
  <2>4. h = g
    BY <1>5, <1>7, <2>3
  <2> QED BY <2>1, <2>2, <2>3, <2>4 DEF KnowsConfig
<1>12. CASE enc[c].todo = << nal >> /\ todo = << >> /\ v = u
  <2>1. \/ /\ nal = Unit("slice", u)
           /\ \/ g.sps = NoNal /\ g.pps = NoNal
              \/ g.sps = Unit("sps", u) /\ g.pps = Unit("pps", u)
        \/ nal = Unit("idr", u) /\ g.sps = Unit("sps", u) /\ g.pps = Unit("pps", u)
    BY <1>7, <1>12 DEF KnowsConfig
  <2>2. nal.kind \in {"slice", "idr"} /\ nal.ver = u
    BY <1>2, <2>1
  <2>3. CASE g.sps = NoNal /\ g.pps = NoNal
    <3>1. ~Forwards(c, nal) /\ h = g
      BY <1>4, <1>5, <1>6, <1>7, <2>2, <2>3
    <3> QED BY <1>12, <2>3, <3>1 DEF KnowsConfig
  <2>4. CASE g.sps = Unit("sps", u) /\ g.pps = Unit("pps", u)
    <3>1. Forwards(c, nal)
      BY <1>2, <1>3, <1>4, <1>7, <2>2, <2>4
    <3>2. h.sps = g.sps /\ h.pps = g.pps
      BY <1>1, <1>6, <3>1
    <3> QED BY <1>12, <2>2, <2>4, <3>2 DEF KnowsConfig, g
  <2> QED BY <2>1, <2>3, <2>4
<1>13. CASE enc[c].todo = << nal, Unit("idr", v) >> /\ todo = << Unit("idr", v) >> /\ v = u
  <2>1. nal = Unit("pps", u) /\ g.sps = Unit("sps", u) /\ g.pps \in {NoNal, Unit("pps", u)}
    BY <1>7, <1>13 DEF KnowsConfig
  <2>2. nal.kind = "pps" /\ ~Forwards(c, nal) /\ h = Kept(c, nal)
    BY <1>2, <1>6, <1>7, <2>1
  <2>3. CASE g.pps = NoNal
    <3>1. h = [sps |-> g.sps, pps |-> nal, due |-> g.due]
      BY <1>4, <1>5, <1>7, <1>9, <2>2, <2>3
    <3> QED BY <1>13, <2>1, <2>2, <3>1 DEF KnowsConfig
  <2>4. CASE g.pps = Unit("pps", u)
    <3>1. all_config_available(g, c)
      BY <1>2, <1>3, <1>4, <2>1, <2>4
    <3>2. h = g
      BY <1>7, <2>1, <2>2, <2>4, <3>1 DEF check_is_still_same_config_data
    <3> QED BY <1>13, <2>1, <2>2, <2>4, <3>2 DEF KnowsConfig
  <2> QED BY <2>1, <2>3, <2>4
<1> QED BY <1>10, <1>11, <1>12, <1>13 DEF NextUnit

\* ConfigCurrent, of one stream.
CurrentIn(c) ==
  (net'.queue[c] # net.queue[c] /\ Len(net'.queue[c]) >= Len(net.queue[c]))
    => LET nal == Last(Last(net'.queue[c])) IN
       nal.kind \in {"idr", "slice"} => rtp'[c].sps.ver = nal.ver /\ rtp'[c].pps.ver = nal.ver

\* One NALU of a raw sample (feed_multiple_nalu).
Fed(c, nal, todo, v, n) ==
  /\ c \in path.cams /\ nal \in Units /\ v \in 1 .. 2 /\ n \in 1 .. QueueSize
  /\ enc' \in [path.cams -> Encoders(Units)]
  /\ enc'[c].codec = enc[c].codec /\ enc'[c].todo = todo /\ enc'[c].ver = v
  /\ \A d \in path.cams : d # c => enc'[d] = enc[d]
  /\ enc[c].codec = "h264" => NextUnit(enc[c], nal, todo, v)
  /\ on_new_split_nalu(c, nal, n)

LEMMA FedStep ==
  ASSUME VideoInv, path.raw, UNCHANGED << path, codec, asm, gate >>,
         NEW c, NEW nal, NEW todo, NEW v, NEW n, Fed(c, nal, todo, v, n)
  PROVE  VideoInv' /\ \A d \in path.cams \cap Streams : CurrentIn(d)
<1>1. /\ c \in path.cams /\ nal \in Units /\ v \in 1 .. 2 /\ n \in 1 .. QueueSize
      /\ enc' \in [path.cams -> Encoders(Units)]
      /\ enc'[c].codec = enc[c].codec /\ enc'[c].todo = todo /\ enc'[c].ver = v
      /\ \A d \in path.cams : d # c => enc'[d] = enc[d]
      /\ enc[c].codec = "h264" => NextUnit(enc[c], nal, todo, v)
      /\ on_new_split_nalu(c, nal, n)
  BY DEF Fed
<1>2. /\ rtp' = [rtp EXCEPT ![c] = IF Forwards(c, nal) THEN [rtp[c] EXCEPT !.due = FALSE]
                                   ELSE Kept(c, nal)]
      /\ rtp' \in [path.cams -> Helpers]
      /\ net' \in Networks /\ Counted(net') /\ ForwardedOnly(c, nal)
  BY <1>1, SplitStep
<1>3. /\ rtp \in [path.cams -> Helpers] /\ rtp[c] \in Helpers
  BY <1>1, HelperFacts
<1>4. /\ rtp'[c] = IF Forwards(c, nal) THEN [rtp[c] EXCEPT !.due = FALSE] ELSE Kept(c, nal)
      /\ \A d \in path.cams : d # c => rtp'[d] = rtp[d]
  BY <1>1, <1>2, <1>3
<1>5. enc \in [path.cams -> Encoders(Units)] /\ enc[c] \in Encoders(Units)
  BY <1>1 DEF VideoInv, VideoTyped
<1>6. VideoTyped'
  BY <1>1, <1>2 DEF VideoInv, VideoTyped, Helpers
<1>7. ASSUME enc[c].codec = "h264"
      PROVE  /\ KnowsConfig(rtp'[c], enc'[c])
             /\ KnowsConfig(rtp[c], enc[c])
             /\ Forwards(c, nal) => /\ rtp[c].sps = Unit("sps", v) /\ rtp[c].pps = Unit("pps", v)
                                    /\ nal.ver = v /\ rtp'[c].sps = rtp[c].sps
                                    /\ rtp'[c].pps = rtp[c].pps
  <2>1. KnowsConfig(rtp[c], enc[c])
    BY <1>1, <1>7 DEF VideoInv, ConfigKnown
  <2> DEFINE h == rtp'[c]
             e == enc'[c]
  <2>2. /\ h = IF Forwards(c, nal) THEN [rtp[c] EXCEPT !.due = FALSE] ELSE Kept(c, nal)
        /\ e.todo = todo /\ e.ver = v
    BY <1>1, <1>4
  <2>3. NextUnit(enc[c], nal, todo, v)
    BY <1>1, <1>7
  <2> HIDE DEF h, e
  <2>4. /\ KnowsConfig(h, e)
        /\ Forwards(c, nal) => /\ rtp[c].sps = Unit("sps", v) /\ rtp[c].pps = Unit("pps", v)
                               /\ nal.ver = v /\ h.sps = rtp[c].sps /\ h.pps = rtp[c].pps
    BY <1>1, <1>3, <1>5, <1>7, <2>1, <2>2, <2>3, HelperFollows
  <2> QED BY <2>1, <2>4 DEF h, e
<1>8. ConfigKnown'
  <2>1. ASSUME NEW d \in path.cams, enc'[d].codec = "h264"
        PROVE  KnowsConfig(rtp'[d], enc'[d])
    <3>1. CASE d = c
      BY <1>1, <1>7, <2>1, <3>1
    <3>2. CASE d # c
      BY <1>1, <1>4, <2>1, <3>2 DEF VideoInv, ConfigKnown
    <3> QED BY <3>1, <3>2
  <2> QED BY <2>1 DEF ConfigKnown
<1>9. Assembled' /\ KeyFrameKnown'
  BY DEF Assembled, KeyFrameKnown
<1>10. (~path.raw => AllUnbroken(net))' /\ Counted(net)'
  BY <1>2 DEF Counted
<1>11. ASSUME NEW d \in path.cams \cap Streams PROVE CurrentIn(d)
  <2> SUFFICES ASSUME net'.queue[d] # net.queue[d],
                      Last(Last(net'.queue[d])).kind \in {"idr", "slice"}
               PROVE  /\ rtp'[d].sps.ver = Last(Last(net'.queue[d])).ver
                      /\ rtp'[d].pps.ver = Last(Last(net'.queue[d])).ver
    BY DEF CurrentIn
  <2>1. /\ d = c /\ Forwards(c, nal)
        /\ Last(net'.queue[d]) \in {<< rtp[c].sps, rtp[c].pps >>, << nal >>}
    BY <1>2 DEF ForwardedOnly
  <2>2. enc[c].codec = "h264"
    BY <2>1 DEF Forwards, all_config_available
  <2>3. /\ rtp[c].sps = Unit("sps", v) /\ rtp[c].pps = Unit("pps", v)
        /\ nal.ver = v /\ rtp'[c].sps = rtp[c].sps /\ rtp'[c].pps = rtp[c].pps
    BY <1>7, <2>1, <2>2
  <2>4. Last(<< rtp[c].sps, rtp[c].pps >>) = rtp[c].pps /\ Last(<< nal >>) = nal
    BY DEF Last
  <2>5. Last(Last(net'.queue[d])) = nal
    BY <2>1, <2>3, <2>4 DEF Unit
  <2> QED BY <2>1, <2>3, <2>5 DEF Unit
<1> QED BY <1>6, <1>8, <1>9, <1>10, <1>11 DEF VideoInv

LEMMA RawStep ==
  ASSUME VideoInv, NEW c \in path.cams, pull_raw_sample(c)
  PROVE  VideoInv' /\ \A d \in path.cams \cap Streams : CurrentIn(d)
<1>1. /\ path.raw /\ UNCHANGED << path, codec, asm, gate >>
      /\ enc \in [path.cams -> Encoders(Units)] /\ enc[c] \in Encoders(Units)
      /\ enc[c].todo \in Seq(Units) /\ enc[c].ver \in 1 .. 2
      /\ enc[c].codec = "h264" => KnowsConfig(rtp[c], enc[c])
  BY DEF pull_raw_sample, VideoInv, VideoTyped, Encoders, ConfigKnown
<1>2. PICK n \in 1 .. QueueSize :
        IF enc[c].todo # << >>
        THEN /\ enc' = [enc EXCEPT ![c].todo = Tail(@)]
             /\ on_new_split_nalu(c, Head(enc[c].todo), n)
        ELSE /\ enc[c].slices < path.slices
             /\ \E nal \in {"idr", "slice"}, changed \in BOOLEAN :
                LET v == IF nal = "idr" /\ changed THEN 3 - enc[c].ver ELSE enc[c].ver IN
                /\ enc' = [enc EXCEPT ![c].todo = Tail(Sample(nal, v)), ![c].slices = @ + 1, ![c].ver = v]
                /\ on_new_split_nalu(c, Head(Sample(nal, v)), n)
  BY DEF pull_raw_sample
<1>3. CASE enc[c].todo # << >>
  <2> DEFINE nal == Head(enc[c].todo)
             rest == Tail(enc[c].todo)
  <2>1. nal \in Units /\ rest \in Seq(Units)
    BY <1>1, <1>3
  <2>2. enc[c].codec = "h264" => NextUnit(enc[c], nal, rest, enc[c].ver)
    <3> SUFFICES ASSUME enc[c].codec = "h264" PROVE NextUnit(enc[c], nal, rest, enc[c].ver)
      OBVIOUS
    <3>1. CASE enc[c].todo = << Unit("slice", enc[c].ver) >>
      BY <3>1 DEF NextUnit
    <3>2. CASE enc[c].todo = << Unit("pps", enc[c].ver), Unit("idr", enc[c].ver) >>
      BY <3>2 DEF NextUnit
    <3>3. CASE enc[c].todo = << Unit("idr", enc[c].ver) >>
      BY <3>3 DEF NextUnit
    <3> QED BY <1>1, <1>3, <3>1, <3>2, <3>3 DEF KnowsConfig
  <2>3. /\ enc' = [enc EXCEPT ![c].todo = rest] /\ on_new_split_nalu(c, nal, n)
    BY <1>2, <1>3
  <2> HIDE DEF nal, rest
  <2>4. enc' = [enc EXCEPT ![c] = [enc[c] EXCEPT !.todo = rest]]
    BY <1>1, <2>3
  <2>5. [enc[c] EXCEPT !.todo = rest] \in Encoders(Units)
    BY <1>1, <2>1, EncoderNext
  <2>6. /\ enc' \in [path.cams -> Encoders(Units)]
        /\ enc'[c] = [enc[c] EXCEPT !.todo = rest]
        /\ \A d \in path.cams : d # c => enc'[d] = enc[d]
    BY <1>1, <2>4, <2>5
  <2>7. enc'[c].codec = enc[c].codec /\ enc'[c].todo = rest /\ enc'[c].ver = enc[c].ver
    BY <1>1, <2>6 DEF Encoders
  <2>8. Fed(c, nal, rest, enc[c].ver, n)
    BY <1>1, <2>1, <2>2, <2>3, <2>6, <2>7 DEF Fed
  <2> QED BY <1>1, <2>8, FedStep
<1>4. CASE enc[c].todo = << >>
  <2>1. PICK kind \in {"idr", "slice"}, changed \in BOOLEAN :
          LET v == IF kind = "idr" /\ changed THEN 3 - enc[c].ver ELSE enc[c].ver IN
          /\ enc' = [enc EXCEPT ![c].todo = Tail(Sample(kind, v)), ![c].slices = @ + 1, ![c].ver = v]
          /\ on_new_split_nalu(c, Head(Sample(kind, v)), n)
    BY <1>2, <1>4
  <2> DEFINE v == IF kind = "idr" /\ changed THEN 3 - enc[c].ver ELSE enc[c].ver
             nal == Head(Sample(kind, v))
             rest == Tail(Sample(kind, v))
  <2>2. v \in 1 .. 2 /\ (kind = "slice" => v = enc[c].ver)
    BY <1>1
  <2>3. /\ enc' = [enc EXCEPT ![c].todo = rest, ![c].slices = @ + 1, ![c].ver = v]
        /\ on_new_split_nalu(c, nal, n)
    BY <2>1
  <2> HIDE DEF v
  <2>4. \A k \in {"sps", "pps", "idr", "aud", "slice"} : Unit(k, v) \in Units
    BY <2>2 DEF Unit, Units
  <2>5. \/ nal = Unit("sps", v) /\ rest = << Unit("pps", v), Unit("idr", v) >>
        \/ nal = Unit("aud", v) /\ rest = << Unit("slice", v) >> /\ v = enc[c].ver
    <3>1. CASE kind = "idr"
      <4>1. Sample(kind, v) = << Unit("sps", v), Unit("pps", v), Unit("idr", v) >>
        BY <3>1 DEF Sample, Unit
      <4> QED BY <4>1
    <3>2. CASE kind = "slice"
      <4>1. Sample(kind, v) = << Unit("aud", v), Unit("slice", v) >>
        BY <3>2 DEF Sample, Unit
      <4>2. \A x, y : Head(<< x, y >>) = x /\ Tail(<< x, y >>) = << y >>
        OBVIOUS
      <4>3. nal = Unit("aud", v) /\ rest = << Unit("slice", v) >>
        BY <4>1, <4>2
      <4> QED BY <2>2, <3>2, <4>3
    <3> QED BY <3>1, <3>2
  <2> HIDE DEF nal, rest
  <2>6. nal \in Units /\ rest \in Seq(Units) /\ NextUnit(enc[c], nal, rest, v)
    <3>1. CASE nal = Unit("sps", v) /\ rest = << Unit("pps", v), Unit("idr", v) >>
      BY <1>4, <2>4, <3>1 DEF NextUnit
    <3>2. CASE nal = Unit("aud", v) /\ rest = << Unit("slice", v) >> /\ v = enc[c].ver
      BY <1>4, <2>4, <3>2 DEF NextUnit
    <3> QED BY <2>5, <3>1, <3>2
  <2>7. enc' = [enc EXCEPT ![c] = [enc[c] EXCEPT !.todo = rest, !.slices = @ + 1, !.ver = v]]
    BY <1>1, <2>3
  <2>8. [enc[c] EXCEPT !.todo = rest, !.slices = @ + 1, !.ver = v] \in Encoders(Units)
    BY <1>1, <2>2, <2>6, EncoderNext
  <2>9. /\ enc' \in [path.cams -> Encoders(Units)]
        /\ enc'[c] = [enc[c] EXCEPT !.todo = rest, !.slices = @ + 1, !.ver = v]
        /\ \A d \in path.cams : d # c => enc'[d] = enc[d]
    BY <1>1, <2>7, <2>8
  <2>10. enc'[c].codec = enc[c].codec /\ enc'[c].todo = rest /\ enc'[c].ver = v
    BY <1>1, <2>9 DEF Encoders
  <2>11. Fed(c, nal, rest, v, n)
    BY <2>2, <2>3, <2>6, <2>9, <2>10 DEF Fed
  <2> QED BY <1>1, <2>11, FedStep
<1> QED BY <1>3, <1>4

-----------------------------------------------------------------------------
\* KeyFramesGoThrough, of one stream.
KeyFrameKept(c) ==
  (/\ path.link = "wb" /\ ~path.record_only /\ gate = "open"
   /\ ~path.switch /\ path.codec = "h264"
   /\ KeyFrameStarts(asm[c].frags)
   /\ asm'[c].frags = << >> /\ enc'[c].run = enc[c].run)
  => /\ net'.queue[c] # << >>
     /\ IsPrefix(asm[c].frags, Last(net'.queue[c]))

LEMMA NotStarted == ~KeyFrameStarts(<< >>)
  BY DEF KeyFrameStarts

\* While what was gathered stays, no keyframe is handed over.
LEMMA StillGathered ==
  ASSUME NEW c, asm'[c] = asm[c]
  PROVE  KeyFrameKept(c)
  BY NotStarted DEF KeyFrameKept

LEMMA AppendPrefix ==
  ASSUME NEW S, NEW b \in Seq(S), NEW x \in S
  PROVE  IsPrefix(b, Append(b, x))
<1> DEFINE a == Append(b, x)
           n == Len(b)
<1>1. /\ a \in Seq(S) /\ Len(a) = n + 1 /\ n \in Nat
      /\ \A i \in 1 .. n : a[i] = b[i]
  OBVIOUS
<1> HIDE DEF a
<1>2. SubSeq(a, 1, n) = SubSeq(b, 1, n)
  BY <1>1
<1> QED BY <1>1, <1>2 DEF IsPrefix, a

\* A further part of a keyframe that completes or cuts it.
LEMMA KeyFrameHanded ==
  ASSUME VideoInv, ~path.raw, NEW c \in path.cams \cap Streams, NEW f \in Fragments,
         NEW n \in 1 .. QueueSize, on_new_rtp_frame_fragment(c, f, n),
         f.codec = enc[c].codec, f.part \in {"middle", "end"}
  PROVE  KeyFrameKept(c)
<1> DEFINE frags == Append(asm[c].frags, f)
           idr == IF Info(c, f).start THEN is_idr_frame(Info(c, f).nal) ELSE asm[c].idr
<1> SUFFICES ASSUME path.link = "wb", ~path.record_only, gate = "open", ~path.switch,
                    path.codec = "h264", KeyFrameStarts(asm[c].frags), asm'[c].frags = << >>
             PROVE  /\ net'.queue[c] # << >>
                    /\ IsPrefix(asm[c].frags, Last(net'.queue[c]))
  BY DEF KeyFrameKept
<1>1. /\ asm[c].frags \in Seq(Fragments) /\ c \in Nat /\ path \in Paths
      /\ asm \in [path.cams -> [frags : Seq(Fragments), idr : BOOLEAN]]
      /\ net \in Networks /\ Counted(net)
  BY PathFacts DEF VideoInv, VideoTyped
<1>2. /\ frags \in Seq(Fragments) /\ frags \in Blocks /\ frags # << >>
      /\ IsPrefix(asm[c].frags, frags)
  BY SMTT(30), <1>1, AppendPrefix DEF Blocks
<1>3. codec[c] = "h264" /\ enc[c].codec = "h264" /\ asm[c].idr = TRUE
  BY <1>1 DEF VideoInv, KeyFrameKnown
<1>4. Info(c, f).start = FALSE
  BY <1>3 DEF Info, h264_more_info, Unknown
<1>5. idr = TRUE
  BY <1>3, <1>4
<1>6. net' = on_video_data(c, frags, idr, n, net)
  <2>1. CASE Info(c, f).end \/ Len(frags) > FragmentLimit
    BY <2>1 DEF on_new_rtp_frame_fragment
  <2>2. CASE ~(Info(c, f).end \/ Len(frags) > FragmentLimit)
    <3>1. asm' = [asm EXCEPT ![c] = [frags |-> frags, idr |-> idr]]
      BY <2>2 DEF on_new_rtp_frame_fragment
    <3> HIDE DEF frags, idr
    <3>2. asm'[c].frags = frags
      BY <1>1, <3>1
    <3> QED BY <1>2, <3>2
  <2> QED BY <2>1, <2>2
<1> HIDE DEF frags, idr
<1>7. net' = wb_transmit(c, frags, idr, n, net)
  BY <1>6 DEF on_video_data, transmit_video_data
<1>8. net'.queue[c] # << >> /\ Last(net'.queue[c]) = frags
  <2>1. net' = wb_transmit(c, frags, TRUE, n, net)
    BY <1>5, <1>7
  <2>2. LET r == wb_transmit(c, frags, TRUE, n, net) IN
        r.queue[c] # << >> /\ Last(r.queue[c]) = frags
    BY ZenonT(40), <1>1, <1>2, WbHands
  <2> QED BY <2>1, <2>2
<1> QED BY <1>2, <1>8

LEMMA PullKeyFrame ==
  ASSUME VideoInv, NEW c \in path.cams, pull_sample(c), NEW d \in path.cams \cap Streams
  PROVE  KeyFrameKept(d)
<1>1. /\ ~path.raw /\ enc \in [path.cams -> Encoders(Pieces)]
      /\ asm \in [path.cams -> [frags : Seq(Fragments), idr : BOOLEAN]]
  BY DEF pull_sample, VideoInv, VideoTyped
<1>2. /\ enc[c].todo \in Seq(Pieces) /\ RestOfSlice(enc[c].todo) /\ enc[c] \in Encoders(Pieces)
  BY <1>1 DEF Encoders, VideoInv, KeyFrameKnown
<1>3. CASE d # c
  <2>1. PICK n \in 1 .. QueueSize : \E f : on_new_rtp_frame_fragment(c, f, n)
    BY DEF pull_sample
  <2>2. asm'[d] = asm[d]
    <3>1. \/ asm' = [asm EXCEPT ![c] = Nothing]
          \/ \E frags, idr : asm' = [asm EXCEPT ![c] = [frags |-> frags, idr |-> idr]]
      BY <2>1 DEF on_new_rtp_frame_fragment
    <3> QED BY <1>1, <1>3, <3>1
  <2> QED BY <2>2, StillGathered
<1>4. CASE d = c /\ enc[c].todo # << >>
  <2> DEFINE h == Head(enc[c].todo)
             f == Fragment(c, h.nal, h.part)
  <2>1. PICK n \in 1 .. QueueSize : on_new_rtp_frame_fragment(c, f, n)
    BY <1>1, <1>4 DEF pull_sample
  <2>2. h \in Pieces /\ h.part \in {"middle", "end"}
    BY <1>2, <1>4, RestParts
  <2> HIDE DEF h
  <2>3. /\ f \in Fragments /\ f.codec = enc[c].codec /\ f.part = h.part
    BY <1>2, <2>2 DEF Fragment, Fragments, Encoders, Pieces
  <2> HIDE DEF f
  <2> QED BY <1>1, <1>4, <2>1, <2>2, <2>3, KeyFrameHanded
<1>5. CASE d = c /\ enc[c].todo = << >>
  <2>1. (~path.switch /\ path.codec = "h264") => ~KeyFrameStarts(asm[c].frags)
    BY <1>1, <1>5 DEF VideoInv, KeyFrameKnown
  <2> QED BY <1>5, <2>1 DEF KeyFrameKept
<1> QED BY <1>3, <1>4, <1>5

\* The steps that move no frame towards the link.
LEMMA SecondStep ==
  ASSUME VideoInv, NEW c \in path.cams, second_passes(c)
  PROVE  VideoInv' /\ UNCHANGED << asm, net >>
<1>1. /\ path.raw /\ rtp' = [rtp EXCEPT ![c].due = TRUE]
      /\ UNCHANGED << path, codec, enc, asm, net >>
      /\ rtp \in [path.cams -> Helpers] /\ rtp[c] \in Helpers
  BY HelperFacts DEF second_passes
<1>2. /\ rtp' = [rtp EXCEPT ![c] = [rtp[c] EXCEPT !.due = TRUE]]
      /\ [rtp[c] EXCEPT !.due = TRUE] \in Helpers
  BY <1>1 DEF Helpers
<1>3. rtp' \in [path.cams -> Helpers]
  BY <1>1, <1>2
<1>4. \A d \in path.cams : rtp'[d].sps = rtp[d].sps /\ rtp'[d].pps = rtp[d].pps
  BY <1>1 DEF Helpers
<1>5. VideoTyped'
  BY <1>1, <1>3 DEF VideoInv, VideoTyped, Helpers
<1>6. ConfigKnown'
  BY <1>1, <1>4 DEF VideoInv, ConfigKnown, KnowsConfig
<1> QED BY <1>1, <1>5, <1>6
        DEF VideoInv, Assembled, KeyFrameKnown, AllUnbroken, Counted

LEMMA CodecStep ==
  ASSUME VideoInv, NEW c \in path.cams, set_codec(c)
  PROVE  VideoInv' /\ UNCHANGED << asm, net >>
<1>1. /\ path.switch /\ codec' = [codec EXCEPT ![c] = IF @ = "h264" THEN "h265" ELSE "h264"]
      /\ UNCHANGED << path, enc, asm, rtp, net >>
  BY DEF set_codec
<1>2. codec' \in [path.cams -> Codecs]
  BY <1>1 DEF VideoInv, VideoTyped, Codecs
<1>3. VideoTyped'
  BY <1>1, <1>2 DEF VideoInv, VideoTyped
<1> QED BY <1>1, <1>3
        DEF VideoInv, Assembled, KeyFrameKnown, ConfigKnown, AllUnbroken, Counted

\* A restart drops what was gathered and numbers the new pipeline.
LEMMA RestartStep ==
  ASSUME VideoInv, NEW c \in path.cams, restart(c)
  PROVE  /\ VideoInv' /\ UNCHANGED net
         /\ \A d \in path.cams : KeyFrameKept(d)
<1> DEFINE T == IF path.raw THEN Units ELSE Pieces
           e == [Encoder(enc[c].run + 1, codec[c], enc[c].ver) EXCEPT !.slices = enc[c].slices]
<1>1. /\ asm' = [asm EXCEPT ![c].frags = << >>] /\ enc' = [enc EXCEPT ![c] = e]
      /\ rtp' = [rtp EXCEPT ![c] = Helper] /\ UNCHANGED << path, codec, net >>
  BY DEF restart, Restarted
<1>2. /\ enc \in [path.cams -> Encoders(T)] /\ enc[c] \in Encoders(T) /\ codec[c] \in Codecs
      /\ enc[c].run \in Nat /\ enc[c].slices \in Nat /\ enc[c].ver \in 1 .. 2
      /\ asm \in [path.cams -> [frags : Seq(Fragments), idr : BOOLEAN]]
      /\ rtp \in [path.cams -> Helpers]
  BY DEF VideoInv, VideoTyped, Encoders, Helpers
<1>3. e = [run |-> enc[c].run + 1, codec |-> codec[c], todo |-> << >>,
           slices |-> enc[c].slices, seq |-> 0, ver |-> enc[c].ver]
  BY DEF Encoder
<1> HIDE DEF T, e
<1>4. e \in Encoders(T) /\ e.todo = << >> /\ e.run # enc[c].run /\ e.codec = codec[c]
  BY <1>2, <1>3 DEF Encoders
<1>5. Helper \in Helpers /\ Helper.sps = NoNal /\ Helper.pps = NoNal
  BY DEF Helper, Helpers, NoNal, Units
<1>6. /\ asm'[c] = [asm[c] EXCEPT !.frags = << >>] /\ asm'[c].frags = << >>
      /\ enc'[c] = e /\ rtp'[c] = Helper
      /\ \A d \in path.cams : d # c => asm'[d] = asm[d] /\ enc'[d] = enc[d] /\ rtp'[d] = rtp[d]
      /\ enc' \in [path.cams -> Encoders(T)] /\ rtp' \in [path.cams -> Helpers]
      /\ asm' \in [path.cams -> [frags : Seq(Fragments), idr : BOOLEAN]]
  <2>1. /\ asm' = [asm EXCEPT ![c] = [asm[c] EXCEPT !.frags = << >>]]
        /\ asm[c] \in [frags : Seq(Fragments), idr : BOOLEAN]
    BY <1>1, <1>2
  <2> DEFINE a == [asm[c] EXCEPT !.frags = << >>]
  <2>2. a \in [frags : Seq(Fragments), idr : BOOLEAN] /\ a.frags = << >>
    <3>1. a = [frags |-> << >>, idr |-> asm[c].idr] /\ asm[c].idr \in BOOLEAN
      BY <2>1
    <3> HIDE DEF a
    <3> QED BY <3>1
  <2> HIDE DEF a
  <2>3. /\ asm'[c] = a /\ \A d \in path.cams : d # c => asm'[d] = asm[d]
        /\ asm' \in [path.cams -> [frags : Seq(Fragments), idr : BOOLEAN]]
    BY <1>2, <2>1, <2>2 DEF a
  <2>4. /\ enc'[c] = e /\ rtp'[c] = Helper
        /\ \A d \in path.cams : d # c => enc'[d] = enc[d] /\ rtp'[d] = rtp[d]
        /\ enc' \in [path.cams -> Encoders(T)] /\ rtp' \in [path.cams -> Helpers]
    BY <1>1, <1>2, <1>4, <1>5
  <2> QED BY <2>2, <2>3, <2>4 DEF a
<1>7. VideoTyped'
  BY <1>1, <1>6 DEF VideoInv, VideoTyped, Helpers, T
<1>8. Assembled'
  <2>1. Unbroken(<< >>) /\ Continues(<< >>, e)
    BY DEF Unbroken, Continues
  <2> QED BY <1>1, <1>6, <2>1 DEF VideoInv, Assembled
<1>9. KeyFrameKnown'
  <2>1. RestOfSlice(<< >>)
    BY DEF RestOfSlice
  <2> QED BY <1>1, <1>4, <1>6, <2>1, NotStarted DEF VideoInv, KeyFrameKnown
<1>10. ConfigKnown'
  <2>1. KnowsConfig(Helper, e)
    BY <1>4, <1>5 DEF KnowsConfig
  <2> QED BY <1>1, <1>6, <2>1 DEF VideoInv, ConfigKnown
<1>11. (~path.raw => AllUnbroken(net))' /\ Counted(net)'
  BY <1>1 DEF VideoInv, AllUnbroken, Counted
<1>12. ASSUME NEW d \in path.cams PROVE KeyFrameKept(d)
  <2>1. CASE d = c
    BY <1>4, <1>6, <2>1 DEF KeyFrameKept
  <2>2. CASE d # c
    BY <1>6, <2>2, StillGathered
  <2> QED BY <2>1, <2>2
<1> QED BY <1>1, <1>7, <1>8, <1>9, <1>10, <1>11, <1>12 DEF VideoInv

\* The injecting thread shortens a queue, and puts a block on the port.
LEMMA InjectStep ==
  ASSUME VideoInv, NEW s \in Streams, NEW received \in BOOLEAN, inject(s, received)
  PROVE  /\ VideoInv' /\ UNCHANGED asm
         /\ \A q \in Streams :
              net'.queue[q] = net.queue[q] \/ Len(net'.queue[q]) < Len(net.queue[q])
<1> DEFINE q == net.queue[s]
           port == IF received THEN on_receive_video_data(s, Head(q), net.port) ELSE net.port
<1>1. /\ UNCHANGED << path, codec, enc, asm, rtp >> /\ q # << >>
      /\ net' = [net EXCEPT !.queue[s] = Tail(@), !.injected[s] = @ + 1,
                          !.port = IF received THEN on_receive_video_data(s, Head(q), @) ELSE @]
  BY DEF inject
<1>2. net \in Networks /\ q \in Seq(Blocks) /\ Len(q) \in Nat
  BY DEF VideoInv, VideoTyped, Networks
<1>3. /\ Head(q) \in Blocks /\ Tail(q) \in Seq(Blocks) /\ Len(Tail(q)) = Len(q) - 1
      /\ Head(q) = q[1] /\ 1 \in 1 .. Len(q)
      /\ \A i \in 1 .. Len(Tail(q)) : i + 1 \in 1 .. Len(q) /\ Tail(q)[i] = q[i + 1]
  <2> HIDE DEF q
  <2> QED BY <1>1, <1>2
<1>4. port = IF received THEN [net.port EXCEPT ![s] = Head(q)] ELSE net.port
  BY DEF on_receive_video_data
<1>5. /\ net'.queue = [net.queue EXCEPT ![s] = Tail(q)]
      /\ net'.injected = [net.injected EXCEPT ![s] = @ + 1]
      /\ net'.taken = net.taken /\ net'.drops = net.drops /\ net'.port = port
      /\ net' = [queue |-> net'.queue, drops |-> net'.drops, taken |-> net'.taken,
                 injected |-> net'.injected, port |-> net'.port]
  BY <1>1, <1>2 DEF Networks
<1>6. /\ \A p \in Streams : p # s => /\ net'.queue[p] = net.queue[p]
                                     /\ net'.injected[p] = net.injected[p]
                                     /\ net'.port[p] = net.port[p]
      /\ net'.queue[s] = Tail(q) /\ net'.injected[s] = net.injected[s] + 1
      /\ net'.port[s] \in {net.port[s], Head(q)}
  BY <1>2, <1>4, <1>5 DEF Networks
<1>7. net' \in Networks
  <2>1. port \in [Streams -> Blocks]
    BY <1>2, <1>3, <1>4 DEF Networks
  <2> HIDE DEF port
  <2>2. /\ net'.queue \in [Streams -> Seq(Blocks)] /\ net'.injected \in [Streams -> Nat]
        /\ net'.taken \in [Streams -> Nat] /\ net'.drops \in [Streams -> Nat]
        /\ net'.port \in [Streams -> Blocks]
    BY <1>2, <1>3, <1>5, <2>1 DEF Networks
  <2> HIDE DEF q
  <2> QED BY <1>5, <2>2 DEF Networks
<1>8. ~path.raw => AllUnbroken(net')
  <2> SUFFICES ASSUME AllUnbroken(net) PROVE AllUnbroken(net')
    BY DEF VideoInv
  <2>1. \A i \in 1 .. Len(q) : Unbroken(q[i])
    BY DEF AllUnbroken
  <2>2. Unbroken(net'.port[s]) /\ \A i \in 1 .. Len(net'.queue[s]) : Unbroken(net'.queue[s][i])
    <3> HIDE DEF q
    <3>1. Unbroken(Head(q))
      BY <1>3, <2>1
    <3>2. Unbroken(net.port[s])
      BY DEF AllUnbroken
    <3>3. \A i \in 1 .. Len(Tail(q)) : Unbroken(Tail(q)[i])
      BY <1>3, <2>1
    <3> QED BY <1>6, <3>1, <3>2, <3>3
  <2> QED BY <1>6, <2>2 DEF AllUnbroken
<1>9. Counted(net')
  <2> SUFFICES ASSUME path.link = "wb", NEW p \in Streams
               PROVE  /\ Len(net'.queue[p]) <= QueueSize
                      /\ net'.taken[p] = Len(net'.queue[p]) + net'.injected[p] + net'.drops[p]
    BY DEF Counted
  <2>1. /\ Len(net.queue[p]) <= QueueSize
        /\ net.taken[p] = Len(net.queue[p]) + net.injected[p] + net.drops[p]
    BY DEF VideoInv, Counted
  <2>2. CASE p # s
    BY <1>5, <1>6, <2>1, <2>2
  <2>3. CASE p = s
    <3> DEFINE l == Len(q)
               i == net.injected[s]
               d == net.drops[s]
    <3>1. /\ l \in Nat /\ i \in Nat /\ d \in Nat /\ l <= QueueSize /\ net.taken[s] = l + i + d
      BY <1>2, <2>1, <2>3 DEF Networks
    <3>2. Len(net'.queue[s]) = l - 1 /\ net'.injected[s] = i + 1 /\ net'.drops[s] = d
          /\ net'.taken[s] = net.taken[s]
      BY <1>3, <1>5, <1>6
    <3> HIDE DEF l, i, d
    <3>3. l + i + d = (l - 1) + (i + 1) + d /\ l - 1 <= QueueSize
      BY <3>1, SizesAssumption
    <3> QED BY <2>3, <3>1, <3>2, <3>3
  <2> QED BY <2>2, <2>3
<1>10. VideoTyped' /\ Assembled' /\ KeyFrameKnown' /\ ConfigKnown'
  BY <1>1, <1>7 DEF VideoInv, VideoTyped, Assembled, KeyFrameKnown, ConfigKnown
<1>11. (~path.raw => AllUnbroken(net))' /\ Counted(net)'
  BY <1>1, <1>8, <1>9 DEF AllUnbroken, Counted
<1>12. \A p \in Streams : net'.queue[p] = net.queue[p] \/ Len(net'.queue[p]) < Len(net.queue[p])
  <2>1. Len(Tail(q)) < Len(q)
    <3> DEFINE l == Len(q)
               m == Len(Tail(q))
    <3>1. l \in Nat /\ m = l - 1
      BY <1>2, <1>3
    <3> HIDE DEF l, m
    <3>2. m < l
      BY <3>1
    <3> QED BY <3>2 DEF l, m
  <2> QED BY <1>6, <2>1
<1> QED BY <1>1, <1>10, <1>11, <1>12 DEF VideoInv

\* The gate, the audio thread and the steps of others.
LEMMA OtherStep ==
  ASSUME VideoInv, UNCHANGED << path, codec, enc, asm, rtp, net >>
  PROVE  VideoInv'
  BY DEF VideoInv, VideoTyped, Assembled, KeyFrameKnown, ConfigKnown, AllUnbroken, Counted

\* Every step keeps the invariant, a keyframe's way and the parameter sets.
LEMMA VideoStep ==
  ASSUME VideoInv, VideoNext \/ UNCHANGED videoVars
  PROVE  /\ VideoInv'
         /\ \A d \in path.cams \cap Streams : KeyFrameKept(d)
         /\ path.raw => \A d \in path.cams \cap Streams : CurrentIn(d)
<1>0. ASSUME UNCHANGED asm PROVE \A d \in path.cams \cap Streams : KeyFrameKept(d)
  BY <1>0, StillGathered
<1>00. ASSUME UNCHANGED net PROVE \A d \in path.cams \cap Streams : CurrentIn(d)
  BY <1>00 DEF CurrentIn
<1>1. ASSUME NEW c \in path.cams, pull_sample(c)
      PROVE  VideoInv' /\ (\A d \in path.cams \cap Streams : KeyFrameKept(d)) /\ ~path.raw
  BY <1>1, PullStep, PullKeyFrame DEF pull_sample
<1>2. ASSUME NEW c \in path.cams, pull_raw_sample(c)
      PROVE  VideoInv' /\ UNCHANGED asm /\ \A d \in path.cams \cap Streams : CurrentIn(d)
  BY <1>2, RawStep DEF pull_raw_sample
<1>3. ASSUME NEW s \in Streams, NEW received \in BOOLEAN, inject(s, received)
      PROVE  VideoInv' /\ UNCHANGED asm /\ \A d \in path.cams \cap Streams : CurrentIn(d)
  <2>1. /\ VideoInv' /\ UNCHANGED asm
        /\ \A q \in Streams : net'.queue[q] = net.queue[q] \/ Len(net'.queue[q]) < Len(net.queue[q])
    BY <1>3, InjectStep
  <2>2. \A q \in Streams : net.queue[q] \in Seq(Blocks) /\ net'.queue[q] \in Seq(Blocks)
    BY <2>1 DEF VideoInv, VideoTyped, Networks
  <2>3. ASSUME NEW d \in Streams PROVE CurrentIn(d)
    <3> DEFINE l == Len(net.queue[d])
               m == Len(net'.queue[d])
    <3>1. l \in Nat /\ m \in Nat /\ (net'.queue[d] = net.queue[d] \/ m < l)
      BY <2>1, <2>2
    <3>2. CurrentIn(d) <=> ((net'.queue[d] # net.queue[d] /\ m >= l)
                => LET nal == Last(Last(net'.queue[d])) IN
                   nal.kind \in {"idr", "slice"} =>
                     rtp'[d].sps.ver = nal.ver /\ rtp'[d].pps.ver = nal.ver)
      BY DEF CurrentIn
    <3> HIDE DEF l, m
    <3>3. net'.queue[d] = net.queue[d] \/ ~(m >= l)
      BY <3>1
    <3> QED BY <3>2, <3>3
  <2> QED BY <2>1, <2>3
<1>4. ASSUME NEW c \in path.cams, second_passes(c) \/ set_codec(c)
      PROVE  VideoInv' /\ UNCHANGED << asm, net >>
  BY <1>4, SecondStep, CodecStep
<1>5. ASSUME NEW c \in path.cams, restart(c)
      PROVE  VideoInv' /\ UNCHANGED net /\ \A d \in path.cams \cap Streams : KeyFrameKept(d)
  BY <1>5, RestartStep
<1>6. ASSUME set_gate \/ AudioNext \/ UNCHANGED videoVars
      PROVE  VideoInv' /\ UNCHANGED << asm, net >>
  <2>1. UNCHANGED << path, codec, enc, asm, rtp, net >>
    BY <1>6 DEF set_gate, AudioNext, AudioOnly, videoVars
  <2> QED BY <2>1, OtherStep
<1> QED BY <1>0, <1>00, <1>1, <1>2, <1>3, <1>4, <1>5, <1>6 DEF VideoNext

LEMMA VideoStarts == VideoInit => VideoInv
<1> SUFFICES ASSUME VideoInit PROVE VideoInv
  OBVIOUS
<1>1. /\ path \in Paths /\ path.codec \in Codecs
      /\ codec = [c \in path.cams |-> path.codec]
      /\ enc = [c \in path.cams |-> Encoder(1, path.codec, 1)]
      /\ asm = [c \in path.cams |-> Nothing]
      /\ rtp = [c \in path.cams |-> Helper]
      /\ net = [queue |-> [s \in Streams |-> << >>], drops |-> [s \in Streams |-> 0],
                taken |-> [s \in Streams |-> 0], injected |-> [s \in Streams |-> 0],
                port |-> [s \in Streams |-> << >>]]
  BY PathFacts DEF VideoInit
<1> DEFINE e == Encoder(1, path.codec, 1)
<1>2. /\ \A T : e \in Encoders(T)
      /\ e.todo = << >> /\ e.codec = path.codec
  BY <1>1 DEF Encoder, Encoders
<1>3. /\ Nothing \in [frags : Seq(Fragments), idr : BOOLEAN] /\ Nothing.frags = << >>
      /\ Helper \in Helpers /\ Helper.sps = NoNal /\ Helper.pps = NoNal
  BY DEF Nothing, Helper, Helpers, NoNal, Units
<1>4. net \in Networks
  BY <1>1 DEF Networks, Blocks
<1>5. /\ Unbroken(<< >>) /\ RestOfSlice(<< >>) /\ Continues(<< >>, e)
      /\ KnowsConfig(Helper, e)
  BY <1>2, <1>3 DEF Unbroken, RestOfSlice, Continues, KnowsConfig
<1> HIDE DEF e
<1>6. VideoTyped
  BY <1>1, <1>2, <1>3, <1>4 DEF VideoTyped, Helpers, e
<1>7. Assembled /\ KeyFrameKnown /\ ConfigKnown
  BY <1>1, <1>2, <1>3, <1>5, NotStarted DEF Assembled, KeyFrameKnown, ConfigKnown, e
<1>8. AllUnbroken(net)
  BY <1>1, <1>5 DEF AllUnbroken
<1>9. Counted(net)
  BY <1>1, SizesAssumption DEF Counted
<1> QED BY <1>6, <1>7, <1>8, <1>9 DEF VideoInv

LEMMA VideoInductive ==
  ASSUME VideoInv, [Next]_vars
  PROVE  /\ VideoInv'
         /\ \A d \in path.cams \cap Streams : KeyFrameKept(d)
         /\ path.raw => \A d \in path.cams \cap Streams : CurrentIn(d)
<1>1. VideoNext \/ UNCHANGED videoVars
  BY DEF Next, vars
<1> QED BY <1>1, VideoStep

\* Every frame handed to the link is a piece of what one run of the pipeline
\* emitted, without gap, and every frame that passed the gate is queued,
\* injected or counted as dropped, whatever is cut, restarted or switched in
\* between (on_new_rtp_frame_fragment, transmit_video_data).
THEOREM VideoWhole == Spec => []VideoIntact
<1>1. Init => VideoInv
  BY VideoStarts DEF Init
<1>2. VideoInv /\ [Next]_vars => VideoInv'
  BY VideoInductive
<1>3. VideoInv => VideoIntact
  BY DEF VideoInv, VideoIntact, FramesUnbroken, DropsAccounted, AllUnbroken, Counted
<1> QED BY <1>1, <1>2, <1>3, PTL DEF Spec

\* A picture of the raw path goes out only with the parameter sets that
\* belong to it, and a keyframe of several fragments is never the one that a
\* full queue turns away (CodecConfigFinder, use_dropping_enqueue).
THEOREM ForwardedRight == Spec => VideoForwarded
<1>1. Init => VideoInv
  BY VideoStarts DEF Init
<1>2. VideoInv /\ [Next]_vars => VideoInv'
  BY VideoInductive
<1> DEFINE Current == path.raw => \A c \in path.cams \cap Streams :
             (net'.queue[c] # net.queue[c] /\ Len(net'.queue[c]) >= Len(net.queue[c]))
               => LET nal == Last(Last(net'.queue[c])) IN
                  nal.kind \in {"idr", "slice"} =>
                    rtp'[c].sps.ver = nal.ver /\ rtp'[c].pps.ver = nal.ver
           Through == \A c \in path.cams \cap Streams :
             (/\ path.link = "wb" /\ ~path.record_only /\ gate = "open"
              /\ ~path.switch /\ path.codec = "h264"
              /\ \E i \in 1 .. Len(asm[c].frags) : asm[c].frags[i].nal = "idr" /\ asm[c].frags[i].part = "start"
              /\ asm'[c].frags = << >> /\ enc'[c].run = enc[c].run)
             => /\ net'.queue[c] # << >>
                /\ IsPrefix(asm[c].frags, Last(net'.queue[c]))
<1>3. VideoInv /\ [Next]_vars => [Current]_videoVars
  BY VideoInductive DEF CurrentIn
<1>4. VideoInv /\ [Next]_vars => [Through]_videoVars
  BY VideoInductive DEF KeyFrameKept, KeyFrameStarts
<1>5. Spec => [][Current]_videoVars
  BY <1>1, <1>2, <1>3, PTL DEF Spec
<1>6. Spec => [][Through]_videoVars
  BY <1>1, <1>2, <1>4, PTL DEF Spec
<1> QED BY <1>5, <1>6 DEF VideoForwarded, ConfigCurrent, KeyFramesGoThrough

-----------------------------------------------------------------------------
(***************************************************************************)
(* What the encoder may send (WBRateControl), for all bands, widths, MCS   *)
(* indices and percentages the setters accept and for any readings of the  *)
(* sensor. First the integer arithmetic of the rates.                      *)
(***************************************************************************)

LEMMA RoundDown ==
  ASSUME NEW a \in Nat, NEW b \in Nat, b > 0
  PROVE  a \div b \in Nat /\ (a \div b) * b <= a
  OBVIOUS

LEMMA AtLeastOne ==
  ASSUME NEW a \in Nat, NEW b \in Nat, b > 0, a >= b
  PROVE  a \div b >= 1
  OBVIOUS

LEMMA Products ==
  ASSUME NEW a \in Nat, NEW b \in Nat, NEW m \in Nat, NEW n \in Nat, a >= m, b >= n
  PROVE  a * b \in Nat /\ a * b >= m * n
  OBVIOUS

LEMMA RateTableFits ==
  /\ Len(RateTable) = 13
  /\ \A i \in 1 .. 13, j \in 1 .. 3 : RateTable[i][j] \in Nat /\ RateTable[i][j] >= 2900
<1>1. Len(RateTable) = 13
  BY DEF RateTable
<1>2. ASSUME NEW i \in 1 .. 13, NEW j \in 1 .. 3
      PROVE RateTable[i][j] \in Nat /\ RateTable[i][j] >= 2900
  <2>1. j = 1 \/ j = 2 \/ j = 3  OBVIOUS
  <2>2. i = 1 \/ i = 2 \/ i = 3 \/ i = 4 \/ i = 5 \/ i = 6 \/ i = 7 \/ i = 8 \/ i = 9 \/ i = 10
        \/ i = 11 \/ i = 12 \/ i = 13
    OBVIOUS
  <2> QED  BY <2>1, <2>2 DEF RateTable
<1> QED  BY <1>1, <1>2

LEMMA MaxRateFits ==
  ASSUME NEW mcs \in 0 .. 31, NEW width \in {10, 20, 40}
  PROVE  /\ MaxRate5G(mcs, width) \in Nat /\ MaxRate5G(mcs, width) >= 2900
         /\ MaxRate2G(mcs, width) \in Nat /\ MaxRate2G(mcs, width) >= 2900
<1>1. WidthColumn[width] \in 1 .. 3
  BY DEF WidthColumn
<1>2. MaxRate5G(mcs, width) \in Nat /\ MaxRate5G(mcs, width) >= 2900
  <2>1. CASE mcs < Len(RateTable)
    <3>1. mcs + 1 \in 1 .. 13  BY <2>1, RateTableFits
    <3> QED  BY <2>1, <3>1, <1>1, RateTableFits DEF MaxRate5G
  <2>2. CASE ~(mcs < Len(RateTable))
    BY <2>2 DEF MaxRate5G
  <2> QED  BY <2>1, <2>2
<1> DEFINE kbits == MaxRate5G(mcs, width)
<1>3. kbits \in Nat /\ kbits >= 2900  BY <1>2
<1> HIDE DEF kbits
<1>4. (kbits * 100) \div 80 \in Nat /\ (kbits * 100) \div 80 >= 2900
  BY <1>3
<1> QED  BY <1>3, <1>4 DEF MaxRate2G, kbits

LEMMA ConfigFacts ==
  /\ \A x \in Percents : x \in Nat /\ x >= 6
  /\ \A x \in Fecs : x \in Nat /\ x <= 400
  /\ Mcs \subseteq 0 .. 31 /\ Widths \subseteq {10, 20, 40}
  BY ConfigsAssumption

LEMMA TotalRateFits ==
  ASSUME NEW c \in Configs
  PROVE  TotalRate(c) \in Nat /\ TotalRate(c) >= 174
<1>1. c.mcs \in Mcs /\ c.width \in Widths /\ c.percent \in Percents
  BY DEF Configs
<1> DEFINE plain == IF c.space = "2G" THEN MaxRate2G(c.mcs, c.width) ELSE MaxRate5G(c.mcs, c.width)
           percent == c.percent
<1>2. plain \in Nat /\ plain >= 2900
  <2>1. c.mcs \in 0 .. 31 /\ c.width \in {10, 20, 40}
    BY <1>1, ConfigFacts
  <2> DEFINE mcs == c.mcs
             width == c.width
  <2>2. mcs \in 0 .. 31 /\ width \in {10, 20, 40}
    BY <2>1
  <2>3. plain = IF c.space = "2G" THEN MaxRate2G(mcs, width) ELSE MaxRate5G(mcs, width)
    OBVIOUS
  <2> HIDE DEF mcs, width, plain
  <2>4. /\ MaxRate5G(mcs, width) \in Nat /\ MaxRate5G(mcs, width) >= 2900
        /\ MaxRate2G(mcs, width) \in Nat /\ MaxRate2G(mcs, width) >= 2900
    BY <2>2, MaxRateFits
  <2> QED  BY <2>3, <2>4
<1>3. percent \in Nat /\ percent >= 6
  BY <1>1, ConfigFacts
<1>4. TotalRate(c) = (plain * percent) \div 100
  BY DEF TotalRate
<1> HIDE DEF plain, percent
<1>5. plain * percent \in Nat /\ plain * percent >= 2900 * 6
  BY <1>2, <1>3, Products
<1> DEFINE scaled == plain * percent
<1> HIDE DEF scaled
<1>6. scaled \div 100 \in Nat /\ scaled \div 100 >= 174
  BY <1>5 DEF scaled
<1> QED  BY <1>4, <1>6 DEF scaled

\* What is left next to the error correction is positive, and within half a
\* kBit/s of what the whole rate can carry.
LEMMA VideoRateFits ==
  ASSUME NEW c \in Configs
  PROVE  /\ VideoRate(c) \in Nat /\ VideoRate(c) > 0
         /\ 2 * (100 * TotalRate(c) - VideoRate(c) * (100 + c.fec)) >= -(100 + c.fec)
<1>1. c.fec \in Fecs
  BY DEF Configs
<1> DEFINE fec == c.fec
           total == TotalRate(c)
           top == 200 * total + 100 + fec
           bottom == 2 * (100 + fec)
           kbits == top \div bottom
<1>2. fec \in Nat /\ fec <= 400 /\ total \in Nat /\ total >= 174
  BY <1>1, ConfigFacts, TotalRateFits
<1>3. VideoRate(c) = kbits
  BY DEF VideoRate, deduce_fec_overhead
<1> HIDE DEF fec, total
<1>4. top \in Nat /\ bottom \in Nat /\ bottom > 0 /\ top >= bottom
  BY <1>2
<1> HIDE DEF top, bottom
<1>5. kbits \in Nat /\ kbits >= 1 /\ kbits * bottom <= top
  BY <1>4, RoundDown, AtLeastOne
<1> HIDE DEF kbits
<1>6. kbits * bottom = 2 * (kbits * (100 + fec))
  BY <1>2, <1>5 DEF bottom
<1>7. kbits * (100 + fec) \in Nat
  BY <1>2, <1>5
<1> DEFINE carried == kbits * (100 + fec)
<1> HIDE DEF carried
<1>8. carried \in Nat /\ 2 * carried <= 200 * total + 100 + fec
  BY <1>5, <1>6, <1>7 DEF carried, top
<1>9. 2 * (100 * total - carried) >= -(100 + fec)
  BY <1>8, <1>2
<1> QED  BY <1>3, <1>5, <1>9 DEF carried, fec, total

\* The encoder is never asked for more than the rate it was last told is the
\* most, and that is only ever the rate of a configuration, which is positive.
RateInv == TypeOK /\ announced <= max_video

LEMMA RateStarts == RateInit => RateInv
<1> SUFFICES ASSUME RateInit PROVE RateInv
  OBVIOUS
<1> USE DEF RateInit
<1>1. settings \in Configs /\ is_x20 \in X20
  OBVIOUS
<1>2. temp \in Temps \cup {0} /\ limits_file \in BOOLEAN
  BY ThermalAssumption
<1>3. held \in 0 .. Hold
  BY ThermalAssumption
<1>4. level \in NONE .. VIDEO_DISABLED
  BY DEF NONE, VIDEO_DISABLED
<1>5. /\ freq_changed \in BOOLEAN /\ armed \in BOOLEAN /\ pc \in {"thermal", "rate"}
      /\ max_total = 0 /\ max_video = 0 /\ changes = 0 /\ announced = -1
  OBVIOUS
<1> HIDE DEF RateInit
<1>6. TypeOK
  BY <1>1, <1>2, <1>3, <1>4, <1>5 DEF TypeOK
<1> QED  BY <1>5, <1>6 DEF RateInv

LEMMA LevelFits ==
  ASSUME TypeOK
  PROVE  /\ NextLevel(temp) \in NONE .. VIDEO_DISABLED
         /\ NextLevel(temp) >= LevelFor(temp) \/ limits_file
         /\ temp > 0 /\ ~limits_file /\ NextLevel(temp) < level
              => held >= Hold /\ (level = VIDEO_DISABLED => temp <= 70)
<1>1. temp \in Nat /\ limits_file \in BOOLEAN /\ level \in 0 .. 2 /\ held \in Int /\ Hold \in Int
  BY ThermalAssumption DEF TypeOK, NONE, VIDEO_DISABLED
<1> QED  BY <1>1 DEF NextLevel, LevelFor, NONE, RATE_REDUCED, VIDEO_DISABLED

\* An adjusted rate is no more than the plain one.
LEMMA AdjustedFits ==
  ASSUME TypeOK, NEW kbits \in Nat
  PROVE  x20_rate(kbits) \in Nat /\ x20_rate(kbits) <= kbits
<1> DEFINE thermal == IF level > NONE THEN 30 ELSE 70
           arming == IF armed THEN 100 ELSE 50
           cooled == (kbits * thermal) \div 100
<1>1. thermal \in {30, 70} /\ arming \in {50, 100}
  OBVIOUS
<1>2. x20_rate(kbits) = (cooled * arming) \div 100
  BY DEF x20_rate
<1> HIDE DEF thermal, arming
<1>3. cooled \in Nat /\ cooled <= kbits
  BY <1>1
<1> HIDE DEF cooled
<1>4. (cooled * arming) \div 100 \in Nat /\ (cooled * arming) \div 100 <= cooled
  BY <1>1, <1>3
<1> QED  BY <1>2, <1>3, <1>4

LEMMA RateStep == RateInv /\ [RateNext]_rateVars => RateInv'
<1> SUFFICES ASSUME RateInv, [RateNext]_rateVars PROVE RateInv'
  OBVIOUS
<1>t. /\ is_x20 \in X20 /\ settings \in Configs /\ armed \in BOOLEAN
      /\ temp \in Temps \cup {0} /\ limits_file \in BOOLEAN /\ level \in NONE .. VIDEO_DISABLED
      /\ held \in 0 .. Hold /\ freq_changed \in BOOLEAN /\ max_total \in Nat /\ max_video \in Nat
      /\ announced \in (Nat \ {0}) \cup {-1} /\ pc \in {"thermal", "rate"} /\ changes \in Nat
      /\ announced <= max_video
  BY DEF RateInv, TypeOK
<1>h. Hold \in Nat
  BY ThermalAssumption
<1>r. /\ TotalRate(settings) \in Nat
      /\ VideoRate(settings) \in Nat /\ VideoRate(settings) > 0
  BY <1>t, TotalRateFits, VideoRateFits
<1>1. CASE update_thermal_protection
  <2> USE <1>1 DEF update_thermal_protection
  <2>1. level' \in NONE .. VIDEO_DISABLED
    BY <1>t, LevelFits DEF RateInv
  <2>2. held' \in 0 .. Hold
    BY <1>t, <1>h
  <2>3. UNCHANGED <<is_x20, settings, armed, temp, limits_file, freq_changed, max_total, max_video,
                    announced, changes>> /\ pc' = "rate"
    OBVIOUS
  <2> QED  BY <2>1, <2>2, <2>3, <1>t DEF RateInv, TypeOK
<1>n. NextTurn => pc' = "thermal" /\ held' \in 0 .. Hold
  BY <1>t, <1>h DEF NextTurn
<1>2. CASE skip_rate_adjustment
  BY <1>2, <1>t, <1>n DEF skip_rate_adjustment, RateInv, TypeOK
<1>3. CASE apply_default_rate
  <2> USE <1>3 DEF apply_default_rate
  <2>1. max_total' \in Nat /\ max_video' \in Nat /\ max_video' > 0
    BY <1>r
  <2>2. announced' = max_video'
    BY <2>1 DEF recommend
  <2>3. /\ UNCHANGED <<is_x20, settings, armed, temp, limits_file, level, changes>>
        /\ freq_changed' \in BOOLEAN /\ pc' = "thermal" /\ held' \in 0 .. Hold
    BY <1>n
  <2>4. announced' \in Nat \ {0} /\ announced' <= max_video'
    BY <2>1, <2>2
  <2> HIDE <1>3 DEF apply_default_rate
  <2> QED  BY <2>1, <2>3, <2>4, <1>t DEF RateInv, TypeOK
<1>4. CASE adjust_rate
  <2> USE <1>4 DEF adjust_rate
  <2> DEFINE kbits == IF is_x20 THEN x20_rate(max_video) ELSE max_video
  <2>1. kbits \in Nat /\ kbits <= max_video
    BY <1>t, AdjustedFits DEF RateInv
  <2>2. recommend(kbits)
    OBVIOUS
  <2> HIDE DEF kbits
  <2>3. announced' \in (Nat \ {0}) \cup {-1} /\ announced' <= max_video
    BY <2>1, <2>2, <1>t DEF recommend
  <2>4. /\ UNCHANGED <<is_x20, settings, armed, temp, limits_file, level, freq_changed, max_video, changes>>
        /\ max_total' \in Nat /\ pc' = "thermal" /\ held' \in 0 .. Hold
    BY <1>n, <1>r
  <2> QED  BY <2>3, <2>4, <1>t DEF RateInv, TypeOK
<1>c. ASSUME settings' \in Configs, changes' = changes + 1, freq_changed' \in BOOLEAN, armed' \in BOOLEAN,
             UNCHANGED <<is_x20, temp, limits_file, level, held, max_total, max_video, announced, pc>>
      PROVE  RateInv'
  BY <1>c, <1>t DEF RateInv, TypeOK
<1>5. ASSUME NEW space \in Spaces, set_frequency(space)
      PROVE  RateInv'
  <2>1. settings' \in Configs
    BY <1>5, <1>t DEF set_frequency, Configs
  <2> QED  BY <2>1, <1>5, <1>c, <1>t DEF set_frequency
<1>6. ASSUME NEW width \in Widths, NEW mcs \in Mcs, set_width_or_mcs(width, mcs)
      PROVE  RateInv'
  <2>1. settings' \in Configs
    BY <1>6, <1>t DEF set_width_or_mcs, Configs
  <2> QED  BY <2>1, <1>6, <1>c, <1>t DEF set_width_or_mcs
<1>7. ASSUME NEW fec \in Fecs, set_parameter("fec", fec)
      PROVE  RateInv'
  <2>1. settings' \in Configs
    BY <1>7, <1>t DEF set_parameter, Configs
  <2> QED  BY <2>1, <1>7, <1>c, <1>t DEF set_parameter
<1>8. ASSUME NEW percent \in Percents, set_parameter("percent", percent)
      PROVE  RateInv'
  <2>1. settings' \in Configs
    BY <1>8, <1>t DEF set_parameter, Configs
  <2> QED  BY <2>1, <1>8, <1>c, <1>t DEF set_parameter
<1>9. ASSUME NEW b \in BOOLEAN, set_parameter("variable", b)
      PROVE  RateInv'
  <2>1. settings' \in Configs
    BY <1>9, <1>t DEF set_parameter, Configs
  <2> QED  BY <2>1, <1>9, <1>c, <1>t DEF set_parameter
<1>10. CASE update_arming_state
  BY <1>10, <1>c, <1>t DEF update_arming_state
<1>11. ASSUME NEW t \in Temps, NEW f \in LimitsFile, environment(t, f)
       PROVE  RateInv'
  BY <1>11, <1>t, ThermalAssumption DEF environment, RateInv, TypeOK
<1>12. CASE UNCHANGED rateVars
  BY <1>12, <1>t DEF rateVars, RateInv, TypeOK
<1> QED
  BY <1>1, <1>2, <1>3, <1>4, <1>5, <1>6, <1>7, <1>8, <1>9, <1>10, <1>11, <1>12
     DEF RateNext, Worker

LEMMA RateInvAlways == RateSpec => []RateInv
  BY RateStarts, RateStep, PTL DEF RateSpec

LEMMA RateInvFits == RateInv => RateFitsChannel
  BY VideoRateFits DEF RateInv, RateFitsChannel

\* The rate the encoder is asked for is carried by the configuration it was
\* computed for, for all bands, widths, indices and percentages.
THEOREM RateFits == RateSpec => []RateFitsChannel
  BY RateInvAlways, RateInvFits, PTL

\* Only a turn's update takes protection away.
LEMMA LevelMoves ==
  ASSUME RateInv, [RateNext]_rateVars
  PROVE  \/ update_thermal_protection
         \/ level' = level /\ ~(pc = "thermal" /\ pc' = "rate")
<1>1. CASE Worker
  BY <1>1 DEF Worker, skip_rate_adjustment, apply_default_rate, adjust_rate
<1>2. ASSUME NEW space \in Spaces, set_frequency(space)
      PROVE  level' = level /\ pc' = pc
  BY <1>2 DEF set_frequency
<1>3. ASSUME NEW width \in Widths, NEW mcs \in Mcs, set_width_or_mcs(width, mcs)
      PROVE  level' = level /\ pc' = pc
  BY <1>3 DEF set_width_or_mcs
<1>4. ASSUME NEW field, NEW value, set_parameter(field, value)
      PROVE  level' = level /\ pc' = pc
  BY <1>4 DEF set_parameter
<1>5. ASSUME update_arming_state \/ UNCHANGED rateVars
      PROVE  level' = level /\ pc' = pc
  BY <1>5 DEF update_arming_state, rateVars
<1>6. ASSUME NEW t \in Temps, NEW f \in LimitsFile, environment(t, f)
      PROVE  level' = level /\ pc' = pc
  BY <1>6 DEF environment
<1> QED  BY <1>1, <1>2, <1>3, <1>4, <1>5, <1>6 DEF RateNext

\* Protection is not lifted early, whatever the sensor and the file do.
THEOREM ThermalHolds == RateSpec => ThermalHold
<1>1. RateInv /\ [RateNext]_rateVars =>
        [temp > 0 /\ ~limits_file /\ level' < level =>
           held >= Hold /\ (level = VIDEO_DISABLED => temp <= 70)]_rateVars
  <2> SUFFICES ASSUME RateInv, [RateNext]_rateVars, temp > 0, ~limits_file, level' < level
      PROVE  held >= Hold /\ (level = VIDEO_DISABLED => temp <= 70)
    OBVIOUS
  <2>1. level \in Int
    BY DEF RateInv, TypeOK, NONE, VIDEO_DISABLED
  <2>2. update_thermal_protection
    BY <2>1, LevelMoves
  <2>3. level' = NextLevel(temp)
    BY <2>1, <2>2 DEF update_thermal_protection
  <2> QED  BY <2>3, LevelFits DEF RateInv
<1> QED  BY <1>1, RateInvAlways, PTL DEF RateSpec, ThermalHold

\* A turn never leaves a hot card with less protection than its temperature
\* calls for.
THEOREM HotProtected == RateSpec => HotIsProtected
<1>1. RateInv /\ [RateNext]_rateVars =>
        [pc = "thermal" /\ pc' = "rate" /\ is_x20 /\ ~limits_file
           => level' >= LevelFor(temp)]_rateVars
  <2> SUFFICES ASSUME RateInv, [RateNext]_rateVars, pc = "thermal", pc' = "rate", is_x20, ~limits_file
      PROVE  level' >= LevelFor(temp)
    OBVIOUS
  <2>1. update_thermal_protection
    BY LevelMoves
  <2>2. level' = NextLevel(temp)
    BY <2>1 DEF update_thermal_protection
  <2> QED  BY <2>2, LevelFits DEF RateInv
<1> QED  BY <1>1, RateInvAlways, PTL DEF RateSpec, HotIsProtected

=============================================================================
