------------------------- MODULE Telemetry_proofs --------------------------
(***************************************************************************)
(* The proof that Telemetry implements MessageBus, for any traffic, any    *)
(* endpoints, losses and unplugged devices.                                *)
(***************************************************************************)
EXTENDS Telemetry, TLAPS

(***************************************************************************)
(* The inductive invariant: where a message may be, what it went through   *)
(* when a consumer has got it, and what a reply was preceded by.           *)
(***************************************************************************)

Ios == [wb : [Units -> SUBSET (Messages \X Int)], wire : [Units -> SUBSET Messages],
        got : SUBSET (Consumers \X Messages), twice : SUBSET (Consumers \X Messages)]
Places == {"idle", "forward", "process", "join", "register"}
Pcs == [at : Places, msg : SUBSET Messages, join : {"none", "fc", "ohd", "tracker", "joy"}]
Carried(s, u) == {e[1] : e \in s.wb[u]}
Holds(t, m) == m \in pc[t].msg
Serving == {"join", "register"}
\* The threads that give messages to the components.
Processors == ({"air"} \X {"wb", "ohd", "tcp"}) \cup ({"gnd"} \X {"ohd", "net", "tracker"})

Typed ==
  /\ wired \in BOOLEAN
  /\ unsent \subseteq Traffic /\ made \subseteq Messages /\ unsent \cap made = {}
  /\ io \in Ios
  /\ seen \in [Units -> SUBSET Messages]
  /\ holder \in [Units -> SUBSET Threads]
  /\ pc \in [Threads -> Pcs]
  /\ \A t \in Threads : /\ pc[t].at = "idle" => pc[t].msg = {}
                        /\ pc[t].at # "idle" => \E m \in made : pc[t].msg = {m}
                        /\ pc[t].at \in Serving \cup {"process"} => t \in Processors

\* What the air unit sends down, and what reaches it from the ground: its own messages
\* only over the wired UARTs.
FromAir(m) == m.from \in {"fc", "air"} /\ ~HasTarget(m)
ForAir(m) == /\ m.from # "tcp" /\ ~LocalTo(m, "gnd")
             /\ m.from \in {"fc", "air"} => wired

LinksFit(s, M) ==
  /\ \A u \in Units : Carried(s, u) \cup s.wire[u] \subseteq M
  /\ \A m \in Carried(s, "gnd") \cup s.wire["gnd"] : FromAir(m)
  /\ \A m \in Carried(s, "air") \cup s.wire["air"] : ForAir(m)
  /\ s.wire["gnd"] # {} => wired
  /\ s.twice = {}

SeenFit ==
  /\ \A u \in Units : seen[u] \subseteq made
  /\ \A m \in seen["gnd"] : FromAir(m)
  /\ \A m \in seen["air"] : ForAir(m)
  /\ pc[<< "gnd", "ohd" >>].msg # {} => wired

\* A thread holds what its source sent, or what its unit has not taken from a link before.
Held ==
  /\ \A t \in Threads : \A m \in pc[t].msg :
       IF t[2] \in {"wb", "ohd"} THEN m \in seen[t[1]] ELSE m.from = SourceOf(t)
  /\ \A u \in Units : \A m \in Messages :
       ~(Holds(<< u, "wb" >>, m) /\ Holds(<< u, "ohd" >>, m))

\* The handler that gives m to c is over for good.
Before(t, m, places) == Holds(t, m) /\ pc[t].at \in places
Passed(c, m) ==
  CASE c \in {"gcs", "tracker"} ->
         /\ m.from \in {"fc", "air"} => m \in seen["gnd"] /\ ~Holds(<< "gnd", "wb" >>, m)
         /\ m.from = "joy" => ~Holds(<< "gnd", "joy" >>, m)
    [] c \in {"tcp", "armAir"} -> ~Holds(<< "air", "fc" >>, m)
    [] c = "armGnd" -> m \in seen["gnd"] /\ ~Holds(<< "gnd", "wb" >>, m)
    [] c = "fc" -> /\ m.from # "tcp" => m \in seen["air"]
                   /\ \A n \in {"wb", "ohd", "tcp"} : ~Before(<< "air", n >>, m, {"forward"})
    [] c = "air" -> /\ m.from # "tcp" => m \in seen["air"]
                    /\ \A n \in {"wb", "ohd", "tcp"} :
                         ~Before(<< "air", n >>, m, {"forward", "process"})
    [] c = "gnd" -> /\ m.from \in {"fc", "air"} => m \in seen["gnd"]
                    /\ \A n \in {"ohd", "net", "tracker"} :
                         ~Before(<< "gnd", n >>, m, {"forward", "process"})

Given ==
  \A c \in Consumers : \A m \in Messages : << c, m >> \in io.got =>
    m \in made /\ Allowed(m, c, wired) /\ Passed(c, m)

\* While a thread serves a request, its unit has been given it and has not replied.
Served ==
  \A t \in Threads : pc[t].at \in Serving =>
    /\ holder[t[1]] = {t}
    /\ \A m \in pc[t].msg : << t[1], m >> \in io.got /\ Reply(t[1], m) \notin made

Answered == \A r \in made : Cause(r) \subseteq io.got

IInv == Typed /\ LinksFit(io, made) /\ SeenFit /\ Held /\ Given /\ Served /\ Answered

(***************************************************************************)
(* Messages.                                                               *)
(***************************************************************************)

LEMMA ReplyFacts ==
  ASSUME NEW u, NEW m
  PROVE  LET r == Reply(u, m) IN
         /\ r.from = u /\ r.kind = "reply" /\ r.re = {m} /\ ~HasTarget(r)
         /\ r \notin Traffic
         /\ Replies(m, u) \subseteq {r}
         /\ \A v : Replies(r, v) = {}
<1>1. /\ Reply(u, m).from = u /\ Reply(u, m).kind = "reply" /\ Reply(u, m).re = {m}
      /\ Reply(u, m).to = "none"
  BY DEF Reply, Msg
<1>2. ~HasTarget(Reply(u, m))
  BY <1>1 DEF HasTarget
<1>3. Reply(u, m) \notin Traffic
  BY <1>1, TrafficAssumption
<1>4. Replies(m, u) \subseteq {Reply(u, m)}
  BY DEF Replies, SelfReplies, TimesyncReplies
<1>5. \A v : Replies(Reply(u, m), v) = {}
  BY <1>1, <1>2 DEF Replies, SelfReplies, TimesyncReplies, LocalTo
<1> QED  BY <1>1, <1>2, <1>3, <1>4, <1>5

\* The messages that exist are those that entered and the replies to them.
LEMMA MessageFacts ==
  ASSUME NEW m \in Messages
  PROVE  /\ m \in Traffic \/ \E u \in Units : \E q \in Traffic : m = Reply(u, q)
         /\ \A u \in Units : Replies(m, u) \subseteq Messages
         /\ m.from \in {"fc", "air", "gnd", "joy"} => ~HasTarget(m)
<1>1. m \in Traffic \/ \E u \in Units : \E q \in Traffic : m = Reply(u, q)
  BY ReplyFacts DEF Messages
<1>2. CASE m \in Traffic
  BY <1>2, TrafficAssumption DEF Messages
<1>3. CASE \E u \in Units : \E q \in Traffic : m = Reply(u, q)
  BY <1>3, ReplyFacts
<1> QED  BY <1>1, <1>2, <1>3

(***************************************************************************)
(* What sending changes.                                                   *)
(***************************************************************************)

\* r is s after m was sent: to the wb links of the units in W, over the wires to the
\* units in V, and to the consumers in C.
Sends(s, r, m, W, V, C) ==
  /\ r \in Ios
  /\ \A u \in Units : Carried(r, u) \subseteq Carried(s, u) \cup (IF u \in W THEN {m} ELSE {})
  /\ \A u \in Units : r.wire[u] \subseteq s.wire[u] \cup (IF u \in V /\ wired THEN {m} ELSE {})
  /\ s.got \subseteq r.got /\ r.got \subseteq s.got \cup (C \X {m})
  /\ (C \X {m}) \cap s.got = {} => r.twice = s.twice

LEMMA SendsNothing ==
  ASSUME NEW s \in Ios, NEW m
  PROVE  Sends(s, s, m, {}, {}, {})
  BY DEF Sends

LEMMA SendsBoth ==
  ASSUME NEW s, NEW q, NEW r, NEW m, NEW W, NEW V, NEW C, NEW X, NEW Y, NEW Z,
         Sends(s, q, m, W, V, C), Sends(q, r, m, X, Y, Z), C \cap Z = {}
  PROVE  Sends(s, r, m, W \cup X, V \cup Y, C \cup Z)
<1>1. (Z \X {m}) \cap q.got \subseteq s.got
  BY DEF Sends
<1>2. (C \cup Z) \X {m} = (C \X {m}) \cup (Z \X {m})
  OBVIOUS
<1>3. ((C \cup Z) \X {m}) \cap s.got = {} => r.twice = s.twice
  BY <1>1, <1>2 DEF Sends
<1>4. r.got \subseteq s.got \cup ((C \cup Z) \X {m}) /\ s.got \subseteq r.got
  BY <1>2 DEF Sends
<1>5. \A u \in Units :
        Carried(r, u) \subseteq Carried(s, u) \cup (IF u \in W \cup X THEN {m} ELSE {})
  BY DEF Sends
<1>6. \A u \in Units :
        r.wire[u] \subseteq s.wire[u] \cup (IF u \in V \cup Y /\ wired THEN {m} ELSE {})
  BY DEF Sends
<1> QED  BY <1>3, <1>4, <1>5, <1>6 DEF Sends

LEMMA SendsMore ==
  ASSUME NEW s, NEW r, NEW m, NEW W, NEW V, NEW C, NEW Z,
         Sends(s, r, m, W, V, C), C \subseteq Z
  PROVE  Sends(s, r, m, W, V, Z)
<1>1. C \X {m} \subseteq Z \X {m}
  OBVIOUS
<1> QED  BY <1>1 DEF Sends

LEMMA SendsGive ==
  ASSUME NEW s \in Ios, NEW m \in Messages, NEW c \in Consumers
  PROVE  /\ Sends(s, Give(s, c, m), m, {}, {}, {c})
         /\ << c, m >> \in Give(s, c, m).got
<1>1. CASE << c, m >> \in s.got
  <2>1. Give(s, c, m) = [s EXCEPT !.twice = @ \cup {<< c, m >>}]
    BY <1>1 DEF Give
  <2>2. /\ Give(s, c, m) \in Ios /\ Give(s, c, m).wb = s.wb
        /\ Give(s, c, m).wire = s.wire /\ Give(s, c, m).got = s.got
    BY <2>1 DEF Ios
  <2> QED  BY <1>1, <2>2 DEF Sends, Carried
<1>2. CASE << c, m >> \notin s.got
  <2>1. Give(s, c, m) = [s EXCEPT !.got = @ \cup {<< c, m >>}]
    BY <1>2 DEF Give
  <2>2. /\ Give(s, c, m) \in Ios /\ Give(s, c, m).wb = s.wb
        /\ Give(s, c, m).wire = s.wire /\ Give(s, c, m).twice = s.twice
        /\ Give(s, c, m).got = s.got \cup {<< c, m >>}
    BY <2>1 DEF Ios
  <2> QED  BY <2>2 DEF Sends, Carried
<1> QED  BY <1>1, <1>2

LEMMA SendsGiveIf ==
  ASSUME NEW s \in Ios, NEW m \in Messages, NEW c \in Consumers, NEW b \in BOOLEAN
  PROVE  Sends(s, GiveIf(b, s, c, m), m, {}, {}, IF b THEN {c} ELSE {})
  BY SendsGive, SendsNothing DEF GiveIf

LEMMA SendsUart ==
  ASSUME NEW s \in Ios, NEW m \in Messages, NEW u \in Units, wired \in BOOLEAN
  PROVE  Sends(s, ToUart(u, s, m), m, {}, {Other(u)}, {})
<1>1. CASE ToUart(u, s, m) = s
  BY <1>1, SendsNothing DEF Sends
<1>2. CASE wired /\ ToUart(u, s, m) = [s EXCEPT !.wire[Other(u)] = @ \cup {m}]
  <2>0. Other(u) \in Units
    BY DEF Other, Units
  <2>1. /\ ToUart(u, s, m) \in Ios /\ ToUart(u, s, m).wb = s.wb
        /\ ToUart(u, s, m).got = s.got /\ ToUart(u, s, m).twice = s.twice
        /\ ToUart(u, s, m).wire = [s.wire EXCEPT ![Other(u)] = @ \cup {m}]
    BY <1>2, <2>0 DEF Ios
  <2>2. s.wire \in [Units -> SUBSET Messages]
    BY DEF Ios
  <2> QED  BY <1>2, <2>0, <2>1, <2>2 DEF Sends, Carried
<1> QED  BY <1>1, <1>2 DEF ToUart

LEMMA SendsWb ==
  ASSUME NEW s \in Ios, NEW m \in Messages, NEW u \in Units, NEW n \in Int
  PROVE  /\ Sends(s, ToWb(u, s, m, n), m, {u}, {}, {})
         /\ m \in Carried(s, u) \/ n = 0 => Sends(s, ToWb(u, s, m, n), m, {}, {}, {})
<1> DEFINE r == ToWb(u, s, m, n)
           new == {e \in s.wb[u] : e[1] /= m} \cup (IF n = 0 THEN {} ELSE {<< m, n >>})
<1>0. s.wb \in [Units -> SUBSET (Messages \X Int)]
  BY DEF Ios
<1>1. /\ r.wire = s.wire /\ r.got = s.got /\ r.twice = s.twice
      /\ r.wb = [s.wb EXCEPT ![u] = new]
  BY DEF ToWb, Ios
<1>2. new \subseteq Messages \X Int
  BY <1>0
<1>3. r \in Ios
  BY <1>0, <1>2 DEF ToWb, Ios
<1>4. r.wb[u] = new /\ \A v \in Units \ {u} : r.wb[v] = s.wb[v]
  BY <1>0, <1>1
<1>5. /\ Carried(r, u) \subseteq Carried(s, u) \cup (IF n = 0 THEN {} ELSE {m})
      /\ \A v \in Units \ {u} : Carried(r, v) = Carried(s, v)
  BY <1>4 DEF Carried
<1> HIDE DEF r, new
<1>6. Sends(s, r, m, {u}, {}, {})
  BY <1>1, <1>3, <1>5 DEF Sends
<1>7. m \in Carried(s, u) \/ n = 0 => Sends(s, r, m, {}, {}, {})
  BY <1>1, <1>3, <1>5 DEF Sends
<1> QED  BY <1>6, <1>7 DEF r

\* The ways that messages take from one unit.
LEMMA SendsToGround ==
  ASSUME NEW s \in Ios, NEW m \in Messages, wired \in BOOLEAN
  PROVE  Sends(s, ToGround(s, m), m, {"gnd"}, {"gnd"}, {"tcp"})
<1> DEFINE q == ToWb("gnd", s, m, ReplyInjections(m))
           p == Give(q, "tcp", m)
<1>1. ReplyInjections(m) \in Int /\ "gnd" \in Units /\ "air" \in Units /\ "tcp" \in Consumers
        /\ Other("air") = "gnd"
  BY DEF ReplyInjections, Units, Consumers, Other
<1>2. Sends(s, q, m, {"gnd"}, {}, {})
  BY <1>1, SendsWb
<1>3. q \in Ios
  BY <1>2 DEF Sends
<1> HIDE DEF q
<1>4. Sends(q, p, m, {}, {}, {"tcp"})
  BY <1>1, <1>3, SendsGive
<1>5. p \in Ios
  BY <1>4 DEF Sends
<1> HIDE DEF p
<1>6. Sends(p, ToUart("air", p, m), m, {}, {"gnd"}, {})
  BY <1>1, <1>5, SendsUart
<1>7. Sends(s, p, m, {"gnd"}, {}, {"tcp"})
  BY <1>2, <1>4, SendsBoth
<1>8. Sends(s, ToUart("air", p, m), m, {"gnd"} \cup {}, {} \cup {"gnd"}, {"tcp"} \cup {})
  BY <1>6, <1>7, SendsBoth
<1> QED  BY <1>8 DEF ToGround, p, q

LEMMA SendsToClients ==
  ASSUME NEW s \in Ios, NEW m \in Messages, wired \in BOOLEAN
  PROVE  Sends(s, ToClients(s, m), m, {}, {"air"}, {"gcs"})
<1> DEFINE p == Give(s, "gcs", m)
<1>1. "gnd" \in Units /\ "gcs" \in Consumers /\ Other("gnd") = "air"
  BY DEF Units, Consumers, Other
<1>2. Sends(s, p, m, {}, {}, {"gcs"})
  BY <1>1, SendsGive
<1>3. p \in Ios
  BY <1>2 DEF Sends
<1> HIDE DEF p
<1>4. Sends(p, ToUart("gnd", p, m), m, {}, {"air"}, {})
  BY <1>1, <1>3, SendsUart
<1>5. Sends(s, ToUart("gnd", p, m), m, {} \cup {}, {} \cup {"air"}, {"gcs"} \cup {})
  BY <1>2, <1>4, SendsBoth
<1> QED  BY <1>5 DEF ToClients, p

LEMMA SendsToTracker ==
  ASSUME NEW s \in Ios, NEW m \in Messages
  PROVE  Sends(s, ToTracker(s, m), m, {}, {}, {"tracker"})
<1>1. (port["gnd"].tracker = "open") \in BOOLEAN /\ "tracker" \in Consumers
  BY DEF Consumers
<1> QED  BY <1>1, SendsGiveIf, SendsMore DEF ToTracker

LEMMA SendsToFc ==
  ASSUME NEW s \in Ios, NEW m \in Messages
  PROVE  Sends(s, ToFc(s, m), m, {}, {}, IF LocalTo(m, "air") THEN {} ELSE {"fc"})
<1>1. (~LocalTo(m, "air") /\ port["air"].fc = "open") \in BOOLEAN /\ "fc" \in Consumers
  BY DEF Consumers
<1> QED  BY <1>1, SendsGiveIf, SendsMore DEF ToFc

Heartbeat(m) == m.from = "fc" /\ m.kind = "heartbeat"
LEMMA SendsActOn ==
  ASSUME NEW s \in Ios, NEW m \in Messages, NEW u \in Units
  PROVE  Sends(s, ActOn(u, s, m), m, {}, {},
               IF Heartbeat(m) THEN {IF u = "air" THEN "armAir" ELSE "armGnd"} ELSE {})
<1>1. /\ (m.from = "fc" /\ m.kind = "heartbeat" /\ fcid[u]) \in BOOLEAN
      /\ (IF u = "air" THEN "armAir" ELSE "armGnd") \in Consumers
  BY DEF Consumers
<1> QED  BY <1>1, SendsGiveIf, SendsMore DEF ActOn, Heartbeat

\* A reply of the air unit goes to the ground, one of the ground unit to its clients.
Outlets(u) == IF u = "air" THEN {"tcp"} ELSE {"gcs", "tracker"}
LEMMA SendsToOutlets ==
  ASSUME NEW s \in Ios, NEW m \in Messages, wired \in BOOLEAN
  PROVE  Sends(s, ToTracker(ToClients(s, m), m), m, {}, {"air"}, {"gcs", "tracker"})
<1> DEFINE p == ToClients(s, m)
<1>1. Sends(s, p, m, {}, {"air"}, {"gcs"})
  BY SendsToClients
<1>2. p \in Ios
  BY <1>1 DEF Sends
<1> HIDE DEF p
<1>3. Sends(p, ToTracker(p, m), m, {}, {}, {"tracker"})
  BY <1>2, SendsToTracker
<1>4. Sends(s, ToTracker(p, m), m, {} \cup {}, {"air"} \cup {}, {"gcs"} \cup {"tracker"})
  BY <1>1, <1>3, SendsBoth
<1>5. {"gcs"} \cup {"tracker"} = {"gcs", "tracker"}
  OBVIOUS
<1> QED  BY <1>4, <1>5 DEF p

(***************************************************************************)
(* What a step keeps.                                                      *)
(***************************************************************************)

LEMMA LinksKept ==
  ASSUME NEW s, NEW M, LinksFit(s, M), NEW r, NEW N, M \subseteq N, NEW m \in N,
         NEW W, NEW V, NEW C, Sends(s, r, m, W, V, C), (C \X {m}) \cap s.got = {},
         "gnd" \in W \cup V => FromAir(m), "air" \in W => ForAir(m),
         "air" \in V /\ wired => ForAir(m)
  PROVE  LinksFit(r, N)
<1>0. "air" \in Units /\ "gnd" \in Units
  BY DEF Units
<1>1. r.twice = {}
  BY DEF LinksFit, Sends
<1>2. \A u \in Units : Carried(r, u) \cup r.wire[u] \subseteq N
  BY DEF LinksFit, Sends
<1>3. \A x \in Carried(r, "gnd") \cup r.wire["gnd"] : FromAir(x)
  BY <1>0 DEF LinksFit, Sends
<1>4. \A x \in Carried(r, "air") \cup r.wire["air"] : ForAir(x)
  BY <1>0 DEF LinksFit, Sends
<1>5. r.wire["gnd"] # {} => wired
  BY <1>0 DEF LinksFit, Sends
<1> QED  BY <1>1, <1>2, <1>3, <1>4, <1>5 DEF LinksFit

\* No thread takes up a message or goes back to an earlier place.
Goes ==
  /\ \A t \in Threads :
       /\ pc'[t].msg \subseteq pc[t].msg
       /\ pc'[t].at = "forward" => pc[t].at = "forward"
       /\ pc'[t].at = "process" => pc[t].at \in {"forward", "process"}
  /\ \A u \in Units : seen[u] \subseteq seen'[u]

LEMMA ThreadFacts ==
  /\ \A u \in Units : << u, "wb" >> \in Threads /\ << u, "ohd" >> \in Threads
  /\ \A n \in {"fc", "tcp"} : << "air", n >> \in Threads
  /\ \A n \in {"net", "tracker", "joy"} : << "gnd", n >> \in Threads
  /\ \A t \in Threads : t = << t[1], t[2] >> /\ t[1] \in Units
  /\ "air" \in Units /\ "gnd" \in Units /\ Units \subseteq Consumers
  BY DEF Units, Threads, Consumers

\* The same for one message.
GoesOf(m) ==
  /\ \A t \in Threads : Holds(t, m)' =>
       /\ Holds(t, m)
       /\ pc'[t].at = "forward" => pc[t].at = "forward"
       /\ pc'[t].at = "process" => pc[t].at \in {"forward", "process"}
  /\ \A u \in Units : m \in seen[u] => m \in seen'[u]

LEMMA PassedOfKept ==
  ASSUME NEW c \in Consumers, NEW m, Passed(c, m), GoesOf(m)
  PROVE  Passed(c, m)'
<1>1. /\ \A t \in Threads : Holds(t, m)' => Holds(t, m)
      /\ \A t \in Threads : Before(t, m, {"forward"})' => Before(t, m, {"forward"})
      /\ \A t \in Threads :
           Before(t, m, {"forward", "process"})' => Before(t, m, {"forward", "process"})
  BY DEF GoesOf, Holds, Before
<1>2. \A u \in Units : m \in seen[u] => m \in seen'[u]
  BY DEF GoesOf
<1> HIDE DEF Before, Holds
<1>3. CASE c \in {"gcs", "tracker"}
  BY <1>1, <1>2, <1>3, ThreadFacts DEF Passed
<1>4. CASE c \in {"tcp", "armAir", "armGnd"}
  BY <1>1, <1>2, <1>4, ThreadFacts DEF Passed
<1>5. CASE c = "fc"
  BY <1>1, <1>2, <1>5, ThreadFacts DEF Passed
<1>6. CASE c = "air"
  BY <1>1, <1>2, <1>6, ThreadFacts DEF Passed
<1>7. CASE c = "gnd"
  BY <1>1, <1>2, <1>7, ThreadFacts DEF Passed
<1> QED  BY <1>3, <1>4, <1>5, <1>6, <1>7 DEF Consumers

LEMMA PassedKept ==
  ASSUME NEW c \in Consumers, NEW m, Passed(c, m), Goes
  PROVE  Passed(c, m)'
<1>1. GoesOf(m)
  BY DEF Goes, GoesOf, Holds
<1> QED  BY <1>1, PassedOfKept

LEMMA HeldKept ==
  ASSUME Held, Goes
  PROVE  Held'
<1>1. \A t \in Threads : \A m \in pc'[t].msg :
        IF t[2] \in {"wb", "ohd"} THEN m \in seen'[t[1]] ELSE m.from = SourceOf(t)
  BY ThreadFacts DEF Held, Goes
<1>2. \A u \in Units : \A m \in Messages :
        ~(m \in pc'[<< u, "wb" >>].msg /\ m \in pc'[<< u, "ohd" >>].msg)
  BY ThreadFacts DEF Held, Goes, Holds
<1> QED  BY <1>1, <1>2 DEF Held, Holds

\* Of the threads that give a message to the components, only one at a time holds it.
LEMMA OneHandler ==
  ASSUME IInv, NEW m \in Messages
  PROVE  /\ \A n, k \in {"wb", "ohd", "tcp"} :
              Holds(<< "air", n >>, m) /\ Holds(<< "air", k >>, m) => n = k
         /\ \A n, k \in {"ohd", "net", "tracker"} :
              Holds(<< "gnd", n >>, m) /\ Holds(<< "gnd", k >>, m) => n = k
<1>1. /\ Holds(<< "air", "tcp" >>, m) => m.from = "tcp"
      /\ \A n \in {"wb", "ohd"} : Holds(<< "air", n >>, m) => m \in seen["air"]
      /\ Holds(<< "gnd", "ohd" >>, m) => m \in seen["gnd"]
      /\ Holds(<< "gnd", "net" >>, m) => m.from = "gcs"
      /\ Holds(<< "gnd", "tracker" >>, m) => m.from = "tracker"
  BY ThreadFacts DEF IInv, Held, Holds, SourceOf
<1>2. /\ m \in seen["air"] => m.from # "tcp"
      /\ m \in seen["gnd"] => m.from \notin {"gcs", "tracker"}
  BY DEF IInv, SeenFit, ForAir, FromAir
<1>3. ~(Holds(<< "air", "wb" >>, m) /\ Holds(<< "air", "ohd" >>, m))
  BY ThreadFacts DEF IInv, Held
<1> QED  BY <1>1, <1>2, <1>3

\* What was given before stays as it was, what is new is as it should be.
LEMMA GivenKept ==
  ASSUME IInv, Goes, UNCHANGED wired, made \subseteq made',
         \A c \in Consumers : \A m \in Messages : << c, m >> \in io'.got \ io.got =>
           m \in made' /\ Allowed(m, c, wired) /\ Passed(c, m)'
  PROVE  Given'
<1> SUFFICES ASSUME NEW c \in Consumers, NEW m \in Messages, << c, m >> \in io'.got
             PROVE  m \in made' /\ Allowed(m, c, wired) /\ Passed(c, m)'
  BY DEF Given
<1>1. CASE << c, m >> \in io.got
  BY <1>1, PassedKept DEF IInv, Given
<1> QED  BY <1>1

Step == IInv' /\ made \subseteq made' /\ io.got \subseteq io'.got /\ UNCHANGED wired

LEMMA LinksPrimed ==
  ASSUME UNCHANGED wired, LinksFit(io', made')
  PROVE  LinksFit(io, made)'
  BY DEF LinksFit, ForAir, Carried

LEMMA SeenKept ==
  ASSUME SeenFit, Goes, UNCHANGED << seen, wired >>, made \subseteq made'
  PROVE  SeenFit'
<1>1. pc'[<< "gnd", "ohd" >>].msg # {} => wired
  BY ThreadFacts DEF SeenFit, Goes
<1> QED  BY <1>1 DEF SeenFit, ForAir

\* A thread that serves a request does so undisturbed by what sends no reply.
LEMMA ServedKept ==
  ASSUME Served, UNCHANGED << holder, made >>, io.got \subseteq io'.got,
         \A t \in Threads : pc'[t].at \in Serving =>
           pc[t].at \in Serving /\ pc'[t].msg \subseteq pc[t].msg
  PROVE  Served'
  BY DEF Served

(***************************************************************************)
(* Forwarding.                                                             *)
(***************************************************************************)

LEMMA Forwarded ==
  ASSUME IInv, NEW t \in Threads, NEW m \in pc[t].msg, pc[t].at = "forward",
         \/ pc' = [pc EXCEPT ![t] = Idle]
         \/ t \in Processors /\ pc' = [pc EXCEPT ![t] = At(t, "process", m)],
         UNCHANGED << wired, unsent, made, seen, holder >>,
         NEW W, NEW V, NEW C, C \subseteq Consumers, Sends(io, io', m, W, V, C),
         \A c \in C : << c, m >> \notin io.got,
         "gnd" \in W \cup V => FromAir(m), "air" \in W => ForAir(m),
         "air" \in V /\ wired => ForAir(m),
         \A c \in C : Allowed(m, c, wired) /\ Passed(c, m)'
  PROVE  Step
<1> PICK next \in {Idle, At(t, "process", m)} :
       pc' = [pc EXCEPT ![t] = next] /\ (next = Idle \/ t \in Processors)
  OBVIOUS
<1>0. pc \in [Threads -> Pcs] /\ io \in Ios
  BY DEF IInv, Typed
<1>1. /\ m \in made /\ m \in Messages /\ pc[t].msg = {m}
      /\ made \subseteq Messages
  BY DEF IInv, Typed
<1>2. /\ pc' \in [Threads -> Pcs] /\ pc'[t] = next
      /\ \A o \in Threads \ {t} : pc'[o] = pc[o]
      /\ next.at \in {"idle", "process"} /\ next.msg \subseteq {m}
      /\ next.at = "idle" => next.msg = {}
      /\ next.at = "process" => next.msg = {m} /\ t \in Processors
  BY <1>0, <1>1 DEF Idle, At, Pcs, Places
<1>3. Goes
  BY <1>1, <1>2 DEF Goes
<1>4. /\ io' \in Ios /\ io.got \subseteq io'.got
      /\ io'.got \subseteq io.got \cup (C \X {m})
      /\ (C \X {m}) \cap io.got = {}
  BY DEF Sends
<1>5. Typed'
  <2>1. \A o \in Threads : /\ pc'[o].at = "idle" => pc'[o].msg = {}
                           /\ pc'[o].at # "idle" => \E x \in made : pc'[o].msg = {x}
                           /\ pc'[o].at \in Serving \cup {"process"} => o \in Processors
    BY <1>1, <1>2 DEF IInv, Typed, Serving
  <2> QED  BY <1>2, <1>4, <2>1 DEF IInv, Typed
<1>6. LinksFit(io, made)'
  <2>1. LinksFit(io', made)
    BY <1>1, <1>4, LinksKept DEF IInv
  <2> QED  BY <2>1, LinksPrimed
<1>7. SeenFit'
  BY <1>3, SeenKept DEF IInv
<1>8. Held'
  BY <1>3, HeldKept DEF IInv
<1>9. Given'
  BY <1>1, <1>3, <1>4, GivenKept
<1>10. Served'
  BY <1>2, <1>4, ServedKept DEF IInv, Serving
<1>11. Answered'
  BY <1>4 DEF IInv, Answered, Cause
<1> QED  BY <1>4, <1>5, <1>6, <1>7, <1>8, <1>9, <1>10, <1>11 DEF IInv, Step

LEMMA FromAirUnit ==
  ASSUME IInv, NEW t \in Threads, on_messages_air_unit(t)
  PROVE  Step
<1> DEFINE G == << "gnd", "wb" >>
<1>1. PICK m \in pc[t].msg :
        LET s == ToClients(io, m)
            r == IF m.from = "fc" /\ fcid["gnd"] THEN ToTracker(s, m) ELSE s
        IN  forward(t, t = G, {"ohd", "tracker"}, ActOn("gnd", r, m), Idle)
  BY DEF on_messages_air_unit
<1> DEFINE s == ToClients(io, m)
           r == IF m.from = "fc" /\ fcid["gnd"] THEN ToTracker(s, m) ELSE s
           track == m.from = "fc" /\ fcid["gnd"]
           T == IF track THEN {"tracker"} ELSE {}
           A == IF Heartbeat(m) THEN {"armGnd"} ELSE {}
<1>2. /\ pc[t].at = "forward" /\ t = G /\ io' = ActOn("gnd", r, m)
      /\ pc' = [pc EXCEPT ![t] = Idle]
      /\ UNCHANGED << wired, unsent, made, seen, holder >>
  BY <1>1 DEF forward
<1>3. io \in Ios /\ m \in Messages /\ wired \in BOOLEAN /\ pc[t] \in Pcs /\ pc \in [Threads -> Pcs]
  BY DEF IInv, Typed, Pcs
<1>4. Sends(io, s, m, {}, {"air"}, {"gcs"})
  BY <1>3, SendsToClients
<1>5. s \in Ios
  BY <1>4 DEF Sends
<1> HIDE DEF s
<1>6. Sends(s, r, m, {}, {}, T)
  BY <1>3, <1>5, SendsToTracker, SendsNothing
<1>7. r \in Ios
  BY <1>6 DEF Sends
<1> HIDE DEF r
<1>8. Sends(r, ActOn("gnd", r, m), m, {}, {}, A)
  BY <1>3, <1>7, SendsActOn, ThreadFacts
<1>9. Sends(io, r, m, {} \cup {}, {"air"} \cup {}, {"gcs"} \cup T)
  BY <1>4, <1>6, SendsBoth
<1>10. Sends(io, io', m, ({} \cup {}) \cup {}, ({"air"} \cup {}) \cup {}, ({"gcs"} \cup T) \cup A)
  BY <1>2, <1>8, <1>9, SendsBoth
<1> DEFINE C == ({"gcs"} \cup T) \cup A
<1>11. m \in seen["gnd"] /\ FromAir(m) /\ Holds(G, m)
  BY <1>2, ThreadFacts DEF IInv, Held, SeenFit, Holds
<1>12. /\ C \subseteq {"gcs", "tracker", "armGnd"} /\ C \subseteq Consumers
       /\ "armGnd" \in C => Heartbeat(m)
       /\ "tracker" \in C => m.from = "fc"
  BY DEF Consumers
<1> HIDE DEF C, T, A, track
<1>13. ASSUME NEW c \in C
       PROVE  << c, m >> \notin io.got /\ Allowed(m, c, wired) /\ Passed(c, m)'
  <2>1. << c, m >> \notin io.got
    BY <1>3, <1>11, <1>12, <1>13 DEF IInv, Given, Passed, FromAir
  <2>2. Allowed(m, c, wired)
    BY <1>11, <1>12, <1>13 DEF Allowed, FromAir, Heartbeat
  <2>3. pc'[G].msg = {}
    BY <1>2, <1>3 DEF Idle
  <2>4. m.from # "joy"
    BY <1>11 DEF FromAir
  <2>5. ~Holds(G, m)' /\ m \in seen'["gnd"]
    BY <1>2, <1>11, <2>3 DEF Holds
  <2> HIDE DEF G
  <2>6. Passed(c, m)'
    BY <1>12, <2>4, <2>5 DEF Passed, G
  <2> QED  BY <2>1, <2>2, <2>6
<1>14. "air" \in {"air"} /\ wired => ForAir(m)
  BY <1>11 DEF FromAir, ForAir, LocalTo
<1>15. Sends(io, io', m, {}, {"air"}, C)
  BY <1>10 DEF C
<1> HIDE DEF G
<1> QED  BY <1>2, <1>11, <1>12, <1>13, <1>14, <1>15, Forwarded

LEMMA FromGroundStationClients ==
  ASSUME IInv, NEW t \in Threads, on_messages_ground_station_clients(t)
  PROVE  Step
<1>1. PICK m \in pc[t].msg :
        forward(t, t[1] = "gnd" /\ t[2] \in {"net", "tracker", "ohd"}, {},
                IF LocalTo(m, "gnd") THEN io ELSE ToWb("air", io, m, RequestInjections(m)),
                ThenComponents(t, m))
  BY DEF on_messages_ground_station_clients
<1>2. /\ pc[t].at = "forward" /\ t[1] = "gnd" /\ t[2] \in {"net", "tracker", "ohd"}
      /\ io' = IF LocalTo(m, "gnd") THEN io ELSE ToWb("air", io, m, RequestInjections(m))
      /\ t \in Processors /\ pc' = [pc EXCEPT ![t] = At(t, "process", m)]
      /\ UNCHANGED << wired, unsent, made, seen, holder >>
  BY <1>1, ThreadFacts DEF forward, ThenComponents, Processors
<1>3. io \in Ios /\ m \in Messages /\ pc[t] \in Pcs /\ RequestInjections(m) \in Int
  BY DEF IInv, Typed, Pcs, RequestInjections
<1> DEFINE W == IF LocalTo(m, "gnd") THEN {} ELSE {"air"}
<1>4. Sends(io, io', m, W, {}, {})
  BY <1>2, <1>3, SendsWb, SendsNothing, ThreadFacts
<1>5. ~LocalTo(m, "gnd") => ForAir(m)
  <2>1. CASE t[2] = "ohd"
    <3>1. t = << "gnd", "ohd" >>
      BY <1>2, <2>1, ThreadFacts
    <3>2. wired /\ m \in seen["gnd"] /\ FromAir(m)
      BY <3>1 DEF IInv, SeenFit, Held
    <3> QED  BY <3>2 DEF ForAir, FromAir
  <2>2. CASE t[2] \in {"net", "tracker"}
    <3>1. m.from \in {"gcs", "tracker"}
      BY <2>2 DEF IInv, Held, SourceOf
    <3> QED  BY <3>1 DEF ForAir
  <2> QED  BY <1>2, <2>1, <2>2
<1>6. "air" \in W => ~LocalTo(m, "gnd")
  OBVIOUS
<1>7. "gnd" \notin W
  OBVIOUS
<1> DEFINE V == {}
           C == {}
<1>8. /\ "gnd" \in W \cup V => FromAir(m)
      /\ "air" \in W => ForAir(m)
      /\ "air" \in V /\ wired => ForAir(m)
  BY <1>5, <1>6, <1>7
<1>9. /\ C \subseteq Consumers
      /\ \A c \in C : << c, m >> \notin io.got
      /\ \A c \in C : Allowed(m, c, wired) /\ Passed(c, m)'
  OBVIOUS
<1>10. Sends(io, io', m, W, V, C)
  BY <1>4
<1> HIDE DEF W, V, C
<1> QED  BY <1>2, <1>8, <1>9, <1>10, Forwarded

LEMMA FromGroundUnit ==
  ASSUME IInv, NEW t \in Threads, on_messages_ground_unit(t)
  PROVE  Step
<1>1. PICK m \in pc[t].msg :
        forward(t, t[1] = "air" /\ t[2] \in {"wb", "tcp", "ohd"}, {"fc"},
                IF m.kind = "heartbeat" /\ m.from = "gnd" THEN io ELSE ToFc(io, m),
                ThenComponents(t, m))
  BY DEF on_messages_ground_unit
<1>2. /\ pc[t].at = "forward" /\ t[1] = "air" /\ t[2] \in {"wb", "tcp", "ohd"}
      /\ io' = IF m.kind = "heartbeat" /\ m.from = "gnd" THEN io ELSE ToFc(io, m)
      /\ t \in Processors /\ pc' = [pc EXCEPT ![t] = At(t, "process", m)]
      /\ UNCHANGED << wired, unsent, made, seen, holder >>
  BY <1>1, ThreadFacts DEF forward, ThenComponents, Processors
<1>3. io \in Ios /\ m \in Messages /\ pc[t] \in Pcs /\ pc \in [Threads -> Pcs]
  BY DEF IInv, Typed, Pcs
<1> DEFINE C == IF (m.kind = "heartbeat" /\ m.from = "gnd") \/ LocalTo(m, "air") THEN {} ELSE {"fc"}
<1>4. Sends(io, io', m, {}, {}, C)
  BY <1>2, <1>3, SendsToFc, SendsNothing
<1>5. /\ C \subseteq {"fc"} /\ C \subseteq Consumers
      /\ "fc" \in C => ~(m.kind = "heartbeat" /\ m.from = "gnd") /\ ~LocalTo(m, "air")
  BY DEF Consumers
<1> HIDE DEF C
<1>6. t = << "air", t[2] >> /\ Holds(t, m)
  BY <1>2, ThreadFacts DEF Holds
<1>7. m.from # "tcp" => m \in seen["air"] /\ ForAir(m)
  <2>1. CASE t[2] = "tcp"
    BY <2>1 DEF IInv, Held, SourceOf
  <2>2. CASE t[2] \in {"wb", "ohd"}
    BY <1>2, <2>2 DEF IInv, Held, SeenFit
  <2> QED  BY <1>2, <2>1, <2>2
<1>8. << "fc", m >> \notin io.got
  <2>1. Before(<< "air", t[2] >>, m, {"forward"})
    BY <1>2, <1>6 DEF Before
  <2>2. "fc" \in Consumers
    BY DEF Consumers
  <2> QED  BY <1>2, <1>3, <2>1, <2>2 DEF IInv, Given, Passed
<1>9. ~LocalTo(m, "air") /\ ~(m.kind = "heartbeat" /\ m.from = "gnd") => Allowed(m, "fc", wired)
  BY <1>7 DEF Allowed, ForAir
<1>10. Passed("fc", m)'
  <2>1. \A n \in {"wb", "ohd", "tcp"} : ~Before(<< "air", n >>, m, {"forward"})'
    <3> SUFFICES ASSUME NEW n \in {"wb", "ohd", "tcp"}, Before(<< "air", n >>, m, {"forward"})'
                 PROVE  FALSE
      OBVIOUS
    <3> DEFINE o == << "air", n >>
    <3>1. o \in Threads /\ pc'[o].at = "forward" /\ m \in pc'[o].msg
      BY ThreadFacts DEF Before, Holds
    <3>2. o # t
      BY <1>2, <1>3, <3>1 DEF At
    <3>3. pc'[o] = pc[o]
      BY <1>2, <1>3, <3>1, <3>2
    <3>4. Holds(o, m)
      BY <3>1, <3>3 DEF Holds
    <3>5. n = t[2]
      BY <1>2, <1>3, <1>6, <3>4, OneHandler
    <3> QED  BY <1>6, <3>2, <3>5
  <2> QED  BY <1>2, <1>7, <2>1 DEF Passed
<1>11. \A c \in C : << c, m >> \notin io.got /\ Allowed(m, c, wired) /\ Passed(c, m)'
  BY <1>5, <1>8, <1>9, <1>10
<1> DEFINE W == {}
           V == {}
<1>12. /\ "gnd" \in W \cup V => FromAir(m)
       /\ "air" \in W => ForAir(m)
       /\ "air" \in V /\ wired => ForAir(m)
  OBVIOUS
<1>13. Sends(io, io', m, W, V, C)
  BY <1>4
<1> HIDE DEF W, V
<1> QED  BY <1>2, <1>5, <1>11, <1>12, <1>13, Forwarded

LEMMA FromFc ==
  ASSUME IInv, NEW t \in Threads, on_messages_fc(t)
  PROVE  Step
<1> DEFINE F == << "air", "fc" >>
<1>1. PICK m \in pc[t].msg : forward(t, t = F, {"ohd"}, ActOn("air", ToGround(io, m), m), Idle)
  BY DEF on_messages_fc
<1> DEFINE s == ToGround(io, m)
           A == IF Heartbeat(m) THEN {"armAir"} ELSE {}
           C == {"tcp"} \cup A
<1>2. /\ pc[t].at = "forward" /\ t = F /\ io' = ActOn("air", s, m)
      /\ pc' = [pc EXCEPT ![t] = Idle]
      /\ UNCHANGED << wired, unsent, made, seen, holder >>
  BY <1>1 DEF forward
<1>3. io \in Ios /\ m \in Messages /\ wired \in BOOLEAN /\ pc[t] \in Pcs /\ pc \in [Threads -> Pcs]
  BY DEF IInv, Typed, Pcs
<1>4. Sends(io, s, m, {"gnd"}, {"gnd"}, {"tcp"})
  BY <1>3, SendsToGround
<1>5. s \in Ios
  BY <1>4 DEF Sends
<1> HIDE DEF s
<1>6. Sends(s, ActOn("air", s, m), m, {}, {}, A)
  BY <1>3, <1>5, SendsActOn, ThreadFacts
<1>7. Sends(io, io', m, {"gnd"} \cup {}, {"gnd"} \cup {}, {"tcp"} \cup A)
  BY <1>2, <1>4, <1>6, SendsBoth
<1>8. Sends(io, io', m, {"gnd"}, {"gnd"}, C)
  BY <1>7
<1>9. m.from = "fc" /\ FromAir(m) /\ Holds(F, m)
  BY <1>2, <1>3, MessageFacts DEF IInv, Held, SourceOf, FromAir, Holds
<1>10. /\ C \subseteq {"tcp", "armAir"} /\ C \subseteq Consumers
       /\ "armAir" \in C => Heartbeat(m)
  BY DEF Consumers
<1> HIDE DEF C, A
<1>11. ASSUME NEW c \in C
       PROVE  << c, m >> \notin io.got /\ Allowed(m, c, wired) /\ Passed(c, m)'
  <2>1. << c, m >> \notin io.got
    BY <1>3, <1>9, <1>10, <1>11 DEF IInv, Given, Passed
  <2>2. Allowed(m, c, wired)
    BY <1>9, <1>10, <1>11 DEF Allowed, FromAir, Heartbeat
  <2>3. ~Holds(F, m)'
    BY <1>2, <1>3 DEF Idle, Holds
  <2> HIDE DEF F
  <2>4. Passed(c, m)'
    BY <1>10, <2>3 DEF Passed, F
  <2> QED  BY <2>1, <2>2, <2>4
<1>12. /\ "gnd" \in {"gnd"} \cup {"gnd"} => FromAir(m)
       /\ "air" \in {"gnd"} => ForAir(m)
       /\ "air" \in {"gnd"} /\ wired => ForAir(m)
  BY <1>9
<1> HIDE DEF F
<1> QED  BY <1>2, <1>8, <1>10, <1>11, <1>12, Forwarded

LEMMA FromJoystick ==
  ASSUME IInv, NEW t \in Threads, joystick(t)
  PROVE  Step
<1> DEFINE J == << "gnd", "joy" >>
<1>1. PICK m \in pc[t].msg :
        forward(t, t = J, {"ohd"},
                IF m.what = "clients" THEN ToClients(io, m) ELSE ToWb("air", io, m, 1), Idle)
  BY DEF joystick
<1>2. /\ pc[t].at = "forward" /\ t = J
      /\ (io' = ToClients(io, m) \/ io' = ToWb("air", io, m, 1))
      /\ pc' = [pc EXCEPT ![t] = Idle]
      /\ UNCHANGED << wired, unsent, made, seen, holder >>
  BY <1>1 DEF forward
<1>3. io \in Ios /\ m \in Messages /\ wired \in BOOLEAN /\ pc[t] \in Pcs /\ pc \in [Threads -> Pcs]
  BY DEF IInv, Typed, Pcs
<1>4. Sends(io, ToWb("air", io, m, 1), m, {"air"}, {}, {})
  BY <1>3, SendsWb, ThreadFacts
<1>5. Sends(io, ToWb("air", io, m, 1), m, {"air"}, {"air"}, {"gcs"})
  BY <1>4, SendsMore DEF Sends
<1>6. Sends(io, ToClients(io, m), m, {}, {"air"}, {"gcs"})
  BY <1>3, SendsToClients
<1>7. Sends(io, ToClients(io, m), m, {"air"}, {"air"}, {"gcs"})
  BY <1>6 DEF Sends
<1>8. Sends(io, io', m, {"air"}, {"air"}, {"gcs"})
  BY <1>2, <1>5, <1>7
<1>9. m.from = "joy" /\ ~HasTarget(m) /\ Holds(J, m)
  BY <1>2, <1>3, MessageFacts DEF IInv, Held, SourceOf, Holds
<1>10. ForAir(m)
  BY <1>9 DEF ForAir, LocalTo
<1>11. << "gcs", m >> \notin io.got /\ Allowed(m, "gcs", wired) /\ Passed("gcs", m)'
  <2>1. << "gcs", m >> \notin io.got
    BY <1>3, <1>9 DEF IInv, Given, Passed, Consumers
  <2>2. Allowed(m, "gcs", wired)
    BY <1>9 DEF Allowed
  <2>3. ~Holds(J, m)'
    BY <1>2, <1>3 DEF Idle, Holds
  <2> HIDE DEF J
  <2>4. Passed("gcs", m)'
    BY <1>9, <2>3 DEF Passed, J
  <2> QED  BY <2>1, <2>2, <2>4
<1>12. {"gcs"} \subseteq Consumers
  BY DEF Consumers
<1>13. /\ "gnd" \in {"air"} \cup {"air"} => FromAir(m)
       /\ "air" \in {"air"} => ForAir(m)
       /\ "air" \in {"air"} /\ wired => ForAir(m)
  BY <1>10
<1>14. \A c \in {"gcs"} : << c, m >> \notin io.got /\ Allowed(m, c, wired) /\ Passed(c, m)'
  BY <1>11
<1> HIDE DEF J
<1> QED  BY <1>2, <1>8, <1>12, <1>13, <1>14, Forwarded

(***************************************************************************)
(* Receiving, and what happens around the endpoints.                       *)
(***************************************************************************)

\* Nothing is published, given or taken up, and nobody begins to serve a request.
LEMMA Beside ==
  ASSUME IInv, UNCHANGED << wired, unsent, made, seen, holder >>, Goes,
         pc' \in [Threads -> Pcs],
         \A t \in Threads : /\ pc'[t].msg = pc[t].msg
                            /\ \/ pc'[t].at = pc[t].at
                               \/ /\ pc[t].at \in Serving
                                  /\ pc'[t].at \in Serving,
         NEW m \in made, Sends(io, io', m, {}, {}, {})
  PROVE  Step
<1>1. io' \in Ios /\ io.got \subseteq io'.got /\ io'.got \subseteq io.got
  BY DEF Sends
<1>2. Typed'
  <2>1. \A o \in Threads : /\ pc'[o].at = "idle" => pc'[o].msg = {}
                           /\ pc'[o].at # "idle" => \E x \in made : pc'[o].msg = {x}
                           /\ pc'[o].at \in Serving \cup {"process"} => o \in Processors
    BY DEF IInv, Typed, Serving
  <2> QED  BY <1>1, <2>1 DEF IInv, Typed
<1>3. LinksFit(io, made)'
  <2> DEFINE N == {}
  <2>1. /\ Sends(io, io', m, N, N, N) /\ (N \X {m}) \cap io.got = {}
        /\ "gnd" \in N \cup N => FromAir(m)
        /\ "air" \in N => ForAir(m)
        /\ "air" \in N /\ wired => ForAir(m)
    OBVIOUS
  <2> HIDE DEF N
  <2>2. LinksFit(io', made)
    BY <2>1, LinksKept DEF IInv
  <2> QED  BY <2>2, LinksPrimed
<1>4. SeenFit' /\ Held'
  BY SeenKept, HeldKept DEF IInv
<1>5. Given'
  BY <1>1, GivenKept
<1>6. Served'
  BY <1>1, ServedKept DEF IInv, Serving
<1>7. Answered'
  BY <1>1 DEF IInv, Answered, Cause
<1> QED  BY <1>1, <1>2, <1>3, <1>4, <1>5, <1>6, <1>7 DEF IInv, Step

LEMMA SendsTaken ==
  ASSUME NEW s \in Ios, NEW u \in Units, NEW m
  PROVE  Sends(s, [s EXCEPT !.wire[u] = @ \ {m}], m, {}, {}, {})
<1> DEFINE r == [s EXCEPT !.wire[u] = @ \ {m}]
<1>0. s.wire \in [Units -> SUBSET Messages]
  BY DEF Ios
<1>1. /\ r \in Ios /\ r.wb = s.wb /\ r.got = s.got /\ r.twice = s.twice
      /\ r.wire = [s.wire EXCEPT ![u] = @ \ {m}]
  BY DEF Ios
<1>2. \A v \in Units : r.wire[v] \subseteq s.wire[v]
  BY <1>0, <1>1
<1> HIDE DEF r
<1> QED  BY <1>1, <1>2 DEF Sends, Carried, r

\* A message that a unit takes from a link is a copy and dropped, or it is handled.
LEMMA Received ==
  ASSUME IInv, NEW u \in Units, NEW n \in {"wb", "ohd"}, pc[<< u, n >>].at = "idle",
         NEW m \in Carried(io, u) \cup io.wire[u], n = "ohd" => m \in io.wire[u],
         Sends(io, io', m, {}, {}, {}), UNCHANGED << wired, unsent, made, holder >>,
         \/ seen' \in {seen, [seen EXCEPT ![u] = @ \cup {m}]} /\ UNCHANGED pc
         \/ /\ m \notin seen[u] /\ seen' = [seen EXCEPT ![u] = @ \cup {m}]
            /\ pc' = [pc EXCEPT ![<< u, n >>] = At(<< u, n >>, "forward", m)]
  PROVE  Step
<1> DEFINE t == << u, n >>
<1>0. /\ t \in Threads /\ t[1] = u /\ t[2] = n
      /\ pc \in [Threads -> Pcs] /\ seen \in [Units -> SUBSET Messages]
  BY ThreadFacts DEF IInv, Typed
<1>1. /\ io' \in Ios /\ io.got \subseteq io'.got /\ io'.got \subseteq io.got
  BY DEF Sends
<1>2. /\ m \in made /\ m \in Messages /\ made \subseteq Messages
      /\ u = "gnd" => FromAir(m)
      /\ u = "air" => ForAir(m)
      /\ u = "gnd" /\ n = "ohd" => wired
  BY DEF IInv, LinksFit, Typed
<1>3. LinksFit(io, made)'
  <2> DEFINE N == {}
  <2>1. /\ Sends(io, io', m, N, N, N) /\ (N \X {m}) \cap io.got = {}
        /\ "gnd" \in N \cup N => FromAir(m)
        /\ "air" \in N => ForAir(m)
        /\ "air" \in N /\ wired => ForAir(m)
    OBVIOUS
  <2> HIDE DEF N
  <2>2. LinksFit(io', made)
    BY <1>2, <2>1, LinksKept DEF IInv
  <2> QED  BY <2>2, LinksPrimed
<1>4. /\ \A v \in Units : seen[v] \subseteq seen'[v] /\ seen'[v] \subseteq seen[v] \cup (IF v = u THEN {m} ELSE {})
      /\ seen' \in [Units -> SUBSET Messages]
  BY <1>0, <1>2
<1>5. CASE UNCHANGED pc
  <2>1. Goes
    BY <1>4, <1>5 DEF Goes
  <2>2. Typed'
    BY <1>1, <1>4, <1>5 DEF IInv, Typed
  <2>3. SeenFit'
    BY <1>2, <1>4, <1>5 DEF IInv, SeenFit, ForAir, Units
  <2>4. Held' /\ Given' /\ Served'
    BY <1>1, <1>5, <2>1, HeldKept, GivenKept, ServedKept DEF IInv
  <2>5. Answered'
    BY <1>1 DEF IInv, Answered, Cause
  <2> QED  BY <1>1, <1>3, <2>2, <2>3, <2>4, <2>5 DEF IInv, Step
<1>6. CASE /\ m \notin seen[u] /\ seen' = [seen EXCEPT ![u] = @ \cup {m}]
           /\ pc' = [pc EXCEPT ![t] = At(t, "forward", m)]
  <2>1. /\ pc' \in [Threads -> Pcs] /\ pc'[t].msg = {m} /\ pc'[t].at = "forward"
        /\ \A o \in Threads \ {t} : pc'[o] = pc[o]
        /\ m \in seen'[u]
    BY <1>0, <1>2, <1>6 DEF At, Pcs, Places
  <2>2. Typed'
    <3>1. \A o \in Threads : /\ pc'[o].at = "idle" => pc'[o].msg = {}
                             /\ pc'[o].at # "idle" => \E x \in made : pc'[o].msg = {x}
                             /\ pc'[o].at \in Serving \cup {"process"} => o \in Processors
      BY <1>2, <2>1 DEF IInv, Typed, Serving
    <3> QED  BY <1>1, <1>4, <2>1, <3>1 DEF IInv, Typed
  <2>3. SeenFit'
    <3>1. pc'[<< "gnd", "ohd" >>].msg # {} => wired
      BY <1>0, <1>2, <2>1, ThreadFacts DEF IInv, SeenFit
    <3> QED  BY <1>2, <1>4, <3>1 DEF IInv, SeenFit, ForAir, Units
  <2>4. Held'
    <3>1. \A o \in Threads : \A x \in pc'[o].msg :
            IF o[2] \in {"wb", "ohd"} THEN x \in seen'[o[1]] ELSE x.from = SourceOf(o)
      BY <1>0, <1>4, <2>1, ThreadFacts DEF IInv, Held
    <3>2. ASSUME NEW v \in Units, NEW x \in Messages,
                 x \in pc'[<< v, "wb" >>].msg, x \in pc'[<< v, "ohd" >>].msg
          PROVE  FALSE
      <4>1. ASSUME NEW k \in {"wb", "ohd"}, k # n PROVE m \notin pc[<< u, k >>].msg
        BY <1>6, <4>1, ThreadFacts DEF IInv, Held
      <4>2. CASE v # u
        BY <2>1, <3>2, <4>2, ThreadFacts DEF IInv, Held, Holds
      <4>3. CASE v = u
        BY <2>1, <3>2, <4>1, <4>3, ThreadFacts DEF IInv, Held, Holds
      <4> QED  BY <4>2, <4>3
    <3> QED  BY <3>1, <3>2 DEF Held, Holds
  <2>5. Given'
    <3> SUFFICES ASSUME NEW c \in Consumers, NEW x \in Messages, << c, x >> \in io.got
                 PROVE  Passed(c, x)'
      BY <1>1 DEF IInv, Given
    <3>1. Passed(c, x)
      BY DEF IInv, Given
    <3>2. CASE x # m
      <4>1. GoesOf(x)
        BY <1>4, <2>1, <3>2 DEF GoesOf, Holds
      <4> QED  BY <3>1, <4>1, PassedOfKept
    <3>3. CASE x = m
      <4>1. \A o \in Threads : o[1] # u =>
              /\ Holds(o, m)' => Holds(o, m)
              /\ \A P \in SUBSET Places : Before(o, m, P)' => Before(o, m, P)
        BY <1>0, <2>1 DEF Holds, Before
      <4>2. {"forward"} \in SUBSET Places /\ {"forward", "process"} \in SUBSET Places
        BY DEF Places
      <4>3. \A v \in Units : m \in seen[v] => m \in seen'[v]
        BY <1>4
      <4>4. ~Holds(<< "gnd", "joy" >>, m)' \/ Holds(<< "gnd", "joy" >>, m)
        BY <1>0, <2>1, ThreadFacts DEF Holds
      <4>5. ~Holds(<< "air", "fc" >>, m)' \/ Holds(<< "air", "fc" >>, m)
        BY <1>0, <2>1, ThreadFacts DEF Holds
      <4> HIDE DEF Holds, Before
      <4>6. CASE u = "gnd"
        <5>1. m.from \in {"fc", "air"} /\ m \notin seen["gnd"]
          BY <1>2, <1>6, <4>6 DEF FromAir
        <5>2. CASE c \in {"gcs", "tracker", "armGnd", "gnd"}
          BY <3>1, <3>3, <5>1, <5>2 DEF Passed
        <5>3. CASE c \in {"tcp", "armAir"}
          BY <3>1, <3>3, <4>5, <5>3 DEF Passed
        <5>4. CASE c \in {"fc", "air"}
          BY <3>1, <3>3, <4>1, <4>2, <4>3, <4>6, <5>4, ThreadFacts DEF Passed
        <5> QED  BY <5>2, <5>3, <5>4 DEF Consumers
      <4>7. CASE u = "air"
        <5>1. m.from # "tcp" /\ m \notin seen["air"]
          BY <1>2, <1>6, <4>7 DEF ForAir
        <5>2. CASE c \in {"fc", "air"}
          BY <3>1, <3>3, <5>1, <5>2 DEF Passed
        <5>3. CASE c \in {"tcp", "armAir"}
          BY <3>1, <3>3, <4>5, <5>3 DEF Passed
        <5>4. CASE c \in {"gcs", "tracker", "armGnd", "gnd"}
          BY <3>1, <3>3, <4>1, <4>2, <4>3, <4>4, <4>7, <5>4, ThreadFacts DEF Passed
        <5> QED  BY <5>2, <5>3, <5>4 DEF Consumers
      <4> QED  BY <4>6, <4>7 DEF Units
    <3> QED  BY <3>2, <3>3
  <2>6. Served'
    <3>1. \A o \in Threads : pc'[o].at \in Serving =>
            pc[o].at \in Serving /\ pc'[o].msg \subseteq pc[o].msg
      BY <2>1 DEF Serving
    <3> QED  BY <1>1, <3>1, ServedKept DEF IInv
  <2>7. Answered'
    BY <1>1 DEF IInv, Answered, Cause
  <2> QED  BY <1>1, <1>3, <2>2, <2>3, <2>4, <2>5, <2>6, <2>7 DEF IInv, Step
<1> QED  BY <1>5, <1>6

LEMMA WbReceives ==
  ASSUME IInv, NEW u \in Units, wb_receive(u)
  PROVE  Step
<1>1. PICK m \in Carried(io, u) :
        /\ io' = ToWb(u, io, m, 0) /\ seen' = [seen EXCEPT ![u] = @ \cup {m}]
        /\ IF m \notin seen[u] THEN pc' = [pc EXCEPT ![<< u, "wb" >>] = At(<< u, "wb" >>, "forward", m)]
           ELSE UNCHANGED pc
  BY DEF wb_receive, Carried, Mark, Fresh, Read
<1>2. pc[<< u, "wb" >>].at = "idle" /\ UNCHANGED << wired, unsent, made, holder >>
  BY DEF wb_receive
<1>3. io \in Ios /\ m \in Messages
  BY DEF IInv, Typed, Ios, Carried
<1>4. Sends(io, io', m, {}, {}, {})
  <2> DEFINE n == 0
  <2>1. n \in Int /\ io' = ToWb(u, io, m, n)
    BY <1>1
  <2> HIDE DEF n
  <2>2. m \in Carried(io, u) => Sends(io, ToWb(u, io, m, n), m, {}, {}, {})
    BY <1>3, <2>1, SendsWb
  <2> QED  BY <2>1, <2>2
<1>5. m \in Carried(io, u) \cup io.wire[u]
  OBVIOUS
<1>6. \/ /\ seen' \in {seen, [seen EXCEPT ![u] = @ \cup {m}]}
         /\ UNCHANGED pc
      \/ /\ m \notin seen[u]
         /\ seen' = [seen EXCEPT ![u] = @ \cup {m}]
         /\ pc' = [pc EXCEPT ![<< u, "wb" >>] = At(<< u, "wb" >>, "forward", m)]
  BY <1>1
<1>7. "wb" = "ohd" => m \in io.wire[u]
  OBVIOUS
<1> QED  BY <1>2, <1>4, <1>5, <1>6, <1>7, Received

LEMMA UartReceives ==
  ASSUME IInv, NEW u \in Units, uart_receive(u)
  PROVE  Step
<1>1. PICK m \in io.wire[u] :
        /\ io' = [io EXCEPT !.wire[u] = @ \ {m}]
        /\ \/ UNCHANGED << seen, pc >>
           \/ /\ m \notin seen[u] /\ seen' = [seen EXCEPT ![u] = @ \cup {m}]
              /\ pc' = [pc EXCEPT ![<< u, "ohd" >>] = At(<< u, "ohd" >>, "forward", m)]
  BY DEF uart_receive, Mark, Fresh, Read
<1>2. pc[<< u, "ohd" >>].at = "idle" /\ UNCHANGED << wired, unsent, made, holder >>
  BY DEF uart_receive
<1>3. io \in Ios
  BY DEF IInv, Typed
<1>4. Sends(io, io', m, {}, {}, {})
  BY <1>1, <1>3, SendsTaken
<1> QED  BY <1>1, <1>2, <1>4, Received

LEMMA OutsideReceives ==
  ASSUME IInv, NEW t \in Threads, outside_receive(t)
  PROVE  Step
<1>1. PICK m \in unsent :
        /\ m.from = SourceOf(t)
        /\ unsent' = unsent \ {m} /\ made' = made \cup {m}
        /\ \/ UNCHANGED pc
           \/ pc' = [pc EXCEPT ![t] = At(t, "forward", m)]
  BY DEF outside_receive, Read
<1>2. /\ pc[t].at = "idle" /\ t[2] \in {"fc", "net", "tcp", "tracker", "joy"}
      /\ UNCHANGED << wired, io, seen, holder >>
  BY DEF outside_receive
<1>3. /\ m \in Traffic /\ m \in Messages /\ m \notin made
      /\ \A o \in Threads : m \notin pc[o].msg
      /\ pc \in [Threads -> Pcs]
  BY DEF IInv, Typed, Messages
<1>4. /\ pc' \in [Threads -> Pcs]
      /\ \A o \in Threads : \/ pc'[o] = pc[o]
                            \/ o = t /\ pc'[o].at = "forward" /\ pc'[o].msg = {m}
  BY <1>1, <1>3 DEF At, Pcs, Places
<1>5. Typed'
  <2>1. \A o \in Threads : /\ pc'[o].at = "idle" => pc'[o].msg = {}
                           /\ pc'[o].at # "idle" => \E x \in made' : pc'[o].msg = {x}
                           /\ pc'[o].at \in Serving \cup {"process"} => o \in Processors
    BY <1>1, <1>4 DEF IInv, Typed, Serving
  <2> QED  BY <1>1, <1>2, <1>3, <1>4, <2>1 DEF IInv, Typed
<1>6. LinksFit(io, made)'
  <2>1. LinksFit(io', made')
    BY <1>1, <1>2 DEF IInv, LinksFit
  <2> QED  BY <1>2, <2>1, LinksPrimed
<1>7. SeenFit'
  <2>1. pc'[<< "gnd", "ohd" >>].msg # {} => wired
    BY <1>2, <1>4, ThreadFacts DEF IInv, SeenFit
  <2> QED  BY <1>1, <1>2, <2>1 DEF IInv, SeenFit, ForAir
<1>8. Held'
  <2>1. \A o \in Threads : \A x \in pc'[o].msg :
          IF o[2] \in {"wb", "ohd"} THEN x \in seen[o[1]] ELSE x.from = SourceOf(o)
    BY <1>1, <1>2, <1>4 DEF IInv, Held
  <2>2. \A v \in Units : \A x \in Messages :
          ~(x \in pc'[<< v, "wb" >>].msg /\ x \in pc'[<< v, "ohd" >>].msg)
    BY <1>2, <1>4, ThreadFacts DEF IInv, Held, Holds
  <2> QED  BY <1>2, <2>1, <2>2 DEF Held, Holds, SourceOf
<1>9. Given'
  <2> SUFFICES ASSUME NEW c \in Consumers, NEW x \in Messages, << c, x >> \in io.got
               PROVE  x \in made /\ Allowed(x, c, wired) /\ Passed(c, x)'
    BY <1>1, <1>2 DEF Given
  <2>1. x \in made /\ Allowed(x, c, wired) /\ Passed(c, x)
    BY DEF IInv, Given
  <2>2. GoesOf(x)
    BY <1>2, <1>3, <1>4, <2>1 DEF GoesOf, Holds
  <2> QED  BY <2>1, <2>2, PassedOfKept
<1>10. Served'
  <2>1. \A v, x : Reply(v, x) # m
    BY <1>3, ReplyFacts
  <2>2. \A o \in Threads : pc'[o].at \in Serving => pc'[o] = pc[o]
    BY <1>4 DEF Serving
  <2> QED  BY <1>1, <1>2, <2>1, <2>2 DEF IInv, Served
<1>11. Answered'
  <2>1. m.re = {}
    BY <1>3, TrafficAssumption
  <2>2. Cause(m) = {}
    BY <2>1 DEF Cause
  <2> QED  BY <1>1, <1>2, <2>2 DEF IInv, Answered, Cause
<1> QED  BY <1>1, <1>2, <1>5, <1>6, <1>7, <1>8, <1>9, <1>10, <1>11 DEF IInv, Step

(***************************************************************************)
(* The components.                                                         *)
(***************************************************************************)

\* A message is new when its source sends it: nothing holds it, nobody has got it.
LEMMA NewFacts ==
  ASSUME IInv, NEW m \in Messages, m \notin made
  PROVE  /\ \A c \in Consumers : << c, m >> \notin io.got
         /\ \A t \in Threads : ~Holds(t, m)
         /\ \A u \in Units : m \notin seen[u]
<1>1. \A t \in Threads : ~Holds(t, m)
  BY DEF IInv, Typed, Holds
<1> QED  BY <1>1 DEF IInv, Given, SeenFit

LEMMA Generates ==
  ASSUME IInv, NEW u \in Units, loop_infinite(u)
  PROVE  Step
<1>1. PICK m \in unsent :
        /\ m.from = u /\ unsent' = unsent \ {m} /\ made' = made \cup {m}
        /\ io' = IF u = "air" THEN AirTurn(m) ELSE GroundTurn(m)
  BY DEF loop_infinite, Generated
<1>2. UNCHANGED << wired, seen, holder, pc >>
  BY DEF loop_infinite
<1>3. /\ m \in Traffic /\ m \in Messages /\ m \notin made /\ io \in Ios /\ wired \in BOOLEAN
      /\ ~HasTarget(m) /\ m.re = {}
  BY <1>1, TrafficAssumption DEF IInv, Typed, Messages, Units
<1>4. /\ \A c \in Consumers : << c, m >> \notin io.got
      /\ \A t \in Threads : ~Holds(t, m)
  BY <1>3, NewFacts
<1> DEFINE W == IF u = "air" THEN {"gnd"} ELSE IF m.kind = "timesync" THEN {"air"} ELSE {}
           V == IF u = "air" THEN {"gnd"} ELSE {"air"}
           C == Outlets(u)
<1>5. Sends(io, io', m, W, V, C)
  <2>1. CASE u = "air"
    BY <1>1, <1>3, <2>1, SendsToGround DEF AirTurn, Outlets
  <2>2. CASE u # "air"
    <3> DEFINE s == ToTracker(ToClients(io, m), m)
    <3>1. Sends(io, s, m, {}, {"air"}, {"gcs", "tracker"})
      BY <1>3, SendsToOutlets
    <3>2. s \in Ios
      BY <3>1 DEF Sends
    <3>3. io' = IF m.kind = "timesync" THEN ToWb("air", s, m, 1) ELSE s
      BY <1>1, <2>2 DEF GroundTurn
    <3> HIDE DEF s
    <3> DEFINE X == IF m.kind = "timesync" THEN {"air"} ELSE {}
    <3>4. Sends(s, io', m, X, {}, {})
      BY <1>3, <3>2, <3>3, SendsWb, SendsNothing, ThreadFacts
    <3> HIDE DEF X
    <3>5. Sends(io, io', m, {} \cup X, {"air"} \cup {}, {"gcs", "tracker"} \cup {})
      BY <3>1, <3>4, SendsBoth
    <3>6. /\ {} \cup X = W /\ {"air"} \cup {} = V /\ {"gcs", "tracker"} \cup {} = C
      BY <2>2 DEF Outlets, X
    <3> HIDE DEF W, V, C
    <3> QED  BY <3>5, <3>6
  <2> QED  BY <2>1, <2>2
<1>6. /\ "gnd" \in W \cup V => FromAir(m)
      /\ "air" \in W => ForAir(m)
      /\ "air" \in V /\ wired => ForAir(m)
  BY <1>1, <1>3 DEF FromAir, ForAir, LocalTo, Units
<1>7. C \subseteq Consumers /\ \A c \in C : Allowed(m, c, wired)
  BY <1>1, <1>3 DEF Outlets, Consumers, Allowed, Units
<1>8. \A c \in C : Passed(c, m)
  BY <1>1, <1>4, ThreadFacts DEF Outlets, Passed, Units
<1>9. (C \X {m}) \cap io.got = {}
  BY <1>4, <1>7
<1> HIDE DEF W, V, C
<1>10. /\ io' \in Ios /\ io.got \subseteq io'.got /\ io'.got \subseteq io.got \cup (C \X {m})
  BY <1>5 DEF Sends
<1>11. Goes
  BY <1>2 DEF Goes
<1>12. Typed'
  BY <1>1, <1>2, <1>3, <1>10 DEF IInv, Typed
<1>13. LinksFit(io, made)'
  <2>1. made \subseteq made' /\ m \in made'
    BY <1>1
  <2>2. LinksFit(io', made')
    BY <1>5, <1>6, <1>9, <2>1, LinksKept DEF IInv
  <2> QED  BY <1>2, <2>2, LinksPrimed
<1>14. SeenFit' /\ Held'
  BY <1>1, <1>2, <1>11, SeenKept, HeldKept DEF IInv
<1>15. Given'
  <2>1. \A c \in C : Passed(c, m)'
    BY <1>7, <1>8, <1>11, PassedKept
  <2> QED  BY <1>1, <1>2, <1>7, <1>10, <1>11, <2>1, GivenKept
<1>16. Served'
  <2>1. \A v, x : Reply(v, x) # m
    BY <1>3, ReplyFacts
  <2> QED  BY <1>1, <1>2, <1>10, <2>1 DEF IInv, Served
<1>17. Answered'
  <2>1. Cause(m) = {}
    BY <1>3 DEF Cause
  <2> QED  BY <1>1, <1>10, <2>1 DEF IInv, Answered, Cause
<1> QED  BY <1>1, <1>2, <1>10, <1>12, <1>13, <1>14, <1>15, <1>16, <1>17 DEF IInv, Step

\* What a thread with a message for the components finds.
LEMMA Processed ==
  ASSUME IInv, NEW t \in Threads, NEW m \in pc[t].msg, pc[t].at = "process",
         pc'[t].at \notin {"forward", "process"}, \A o \in Threads \ {t} : pc'[o] = pc[o],
         UNCHANGED seen
  PROVE  /\ << t[1], m >> \notin io.got /\ Reply(t[1], m) \notin made
         /\ Allowed(m, t[1], wired) /\ Passed(t[1], m)'
<1>1. /\ m \in Messages /\ Holds(t, m) /\ t \in Processors
  BY DEF IInv, Typed, Holds
<1>2. CASE t[1] = "air"
  <2>1. t = << "air", t[2] >> /\ t[2] \in {"wb", "ohd", "tcp"}
    BY <1>1, <1>2 DEF Processors
  <2>2. m.from # "tcp" => m \in seen["air"] /\ ForAir(m)
    BY <1>2, <2>1 DEF IInv, Held, SeenFit, SourceOf
  <2>3. Allowed(m, "air", wired)
    BY <2>2 DEF Allowed, ForAir
  <2>4. << "air", m >> \notin io.got
    <3>1. Before(<< "air", t[2] >>, m, {"forward", "process"})
      BY <1>1, <2>1 DEF Before
    <3> QED  BY <1>1, <2>1, <3>1, ThreadFacts DEF IInv, Given, Passed
  <2>5. \A n \in {"wb", "ohd", "tcp"} : ~Before(<< "air", n >>, m, {"forward", "process"})'
    <3> SUFFICES ASSUME NEW n \in {"wb", "ohd", "tcp"},
                        Before(<< "air", n >>, m, {"forward", "process"})'
                 PROVE  FALSE
      OBVIOUS
    <3> DEFINE o == << "air", n >>
    <3>1. o \in Threads /\ pc'[o].at \in {"forward", "process"} /\ m \in pc'[o].msg
      BY ThreadFacts DEF Before, Holds
    <3>2. o # t
      BY <3>1
    <3>3. Holds(o, m)
      BY <3>1, <3>2 DEF Holds
    <3>4. n = t[2]
      BY <1>1, <2>1, <3>3, OneHandler
    <3> QED  BY <2>1, <3>2, <3>4
  <2>6. Passed("air", m)'
    BY <2>2, <2>5 DEF Passed
  <2>7. Reply("air", m) \notin made
    BY <2>4, ReplyFacts DEF IInv, Answered, Cause
  <2> QED  BY <1>2, <2>3, <2>4, <2>6, <2>7
<1>3. CASE t[1] = "gnd"
  <2>1. t = << "gnd", t[2] >> /\ t[2] \in {"ohd", "net", "tracker"}
    BY <1>1, <1>3 DEF Processors
  <2>2. m.from \in {"fc", "air"} => m \in seen["gnd"] /\ wired
    BY <1>3, <2>1 DEF IInv, Held, SeenFit, SourceOf
  <2>3. Allowed(m, "gnd", wired)
    BY <2>2 DEF Allowed
  <2>4. << "gnd", m >> \notin io.got
    <3>1. Before(<< "gnd", t[2] >>, m, {"forward", "process"})
      BY <1>1, <2>1 DEF Before
    <3> QED  BY <1>1, <2>1, <3>1, ThreadFacts DEF IInv, Given, Passed
  <2>5. \A n \in {"ohd", "net", "tracker"} : ~Before(<< "gnd", n >>, m, {"forward", "process"})'
    <3> SUFFICES ASSUME NEW n \in {"ohd", "net", "tracker"},
                        Before(<< "gnd", n >>, m, {"forward", "process"})'
                 PROVE  FALSE
      OBVIOUS
    <3> DEFINE o == << "gnd", n >>
    <3>1. o \in Threads /\ pc'[o].at \in {"forward", "process"} /\ m \in pc'[o].msg
      BY ThreadFacts DEF Before, Holds
    <3>2. o # t
      BY <3>1
    <3>3. Holds(o, m)
      BY <3>1, <3>2 DEF Holds
    <3>4. n = t[2]
      BY <1>1, <2>1, <3>3, OneHandler
    <3> QED  BY <2>1, <3>2, <3>4
  <2>6. Passed("gnd", m)'
    BY <2>2, <2>5 DEF Passed
  <2>7. Reply("gnd", m) \notin made
    BY <2>4, ReplyFacts DEF IInv, Answered, Cause
  <2> QED  BY <1>3, <2>3, <2>4, <2>6, <2>7
<1> QED  BY <1>2, <1>3, ThreadFacts DEF Units

\* The components' reply goes to the outlets of their unit.
LEMMA SendsReply ==
  ASSUME NEW s \in Ios, NEW u \in Units, NEW m \in Messages, wired \in BOOLEAN,
         Replies(m, u) # {}
  PROVE  LET side == IF u = "air" THEN {"gnd"} ELSE {}
             wire == IF u = "air" THEN {"gnd"} ELSE {"air"}
         IN  Sends(s, Respond(u, s, Replies(m, u)), Reply(u, m), side, wire, Outlets(u))
<1> DEFINE r == Reply(u, m)
<1>1. Replies(m, u) = {r} /\ r \in Messages
  BY ReplyFacts, MessageFacts
<1>2. Respond(u, s, Replies(m, u)) = IF u = "air" THEN ToGround(s, r) ELSE ToTracker(ToClients(s, r), r)
  BY <1>1 DEF Respond
<1> HIDE DEF r
<1>3. CASE u = "air"
  BY <1>1, <1>2, <1>3, SendsToGround DEF Outlets, r
<1>4. CASE u # "air"
  BY <1>1, <1>2, <1>4, SendsToOutlets DEF Outlets, r
<1> QED  BY <1>3, <1>4

\* A thread leaves the components: s is what was sent before their reply.
LEMMA Leaves ==
  ASSUME IInv, NEW t \in Threads, NEW m \in pc[t].msg,
         pc' = [pc EXCEPT ![t] = Idle], NEW s \in Ios, NEW C, C \subseteq {t[1]},
         Sends(io, s, m, {}, {}, C), C \X {m} \cap io.got = {}, << t[1], m >> \in s.got,
         Allowed(m, t[1], wired), Passed(t[1], m)', Reply(t[1], m) \notin made,
         io' = Respond(t[1], s, Replies(m, t[1])),
         made' = made \cup Replies(m, t[1]),
         UNCHANGED << wired, unsent, seen >>,
         holder' = [holder EXCEPT ![t[1]] = {}], holder[t[1]] \in {{}, {t}}
  PROVE  Step
<1> DEFINE u == t[1]
           r == Reply(u, m)
           R == Replies(m, u)
<1>1. /\ u \in Units /\ pc \in [Threads -> Pcs] /\ holder \in [Units -> SUBSET Threads]
      /\ io \in Ios /\ wired \in BOOLEAN /\ unsent \subseteq Traffic
      /\ made \subseteq Messages /\ m \in made /\ unsent \cap made = {}
      /\ m \in Messages
  BY ThreadFacts DEF IInv, Typed
<1>2. /\ R \subseteq {r} /\ R \subseteq Messages
      /\ r \notin Traffic /\ r.re = {m} /\ r.from = u /\ ~HasTarget(r)
  BY <1>1, ReplyFacts, MessageFacts
<1>3. r \in Messages => /\ \A c \in Consumers : << c, r >> \notin io.got
                        /\ \A o \in Threads : ~Holds(o, r)
  BY NewFacts
<1>4. m # r
  BY <1>1
<1> DEFINE side == IF u = "air" THEN {"gnd"} ELSE {}
           wire == IF u = "air" THEN {"gnd"} ELSE {"air"}
<1>5. R # {} => Sends(s, io', r, side, wire, Outlets(u))
  BY <1>1, SendsReply
<1>6. R = {} => io' = s
  BY DEF Respond
<1>7. Outlets(u) \subseteq Consumers /\ C \subseteq Consumers
  BY <1>1, ThreadFacts DEF Outlets, Consumers
<1> HIDE DEF u, r, R, side, wire
<1>8. R # {} => (Outlets(u) \X {r}) \cap s.got = {}
  BY <1>2, <1>3, <1>4, <1>7 DEF Sends
<1>9. /\ pc' \in [Threads -> Pcs] /\ pc'[t].msg = {} /\ pc'[t].at = "idle"
      /\ \A o \in Threads \ {t} : pc'[o] = pc[o]
  BY <1>1 DEF Idle, Pcs, Places
<1>10. Goes
  BY <1>9 DEF Goes
<1>11. /\ io' \in Ios /\ io.got \subseteq io'.got /\ s.got \subseteq io'.got
       /\ \A e \in io'.got \ io.got :
            e = << u, m >> \/ (R # {} /\ e \in Outlets(u) \X {r})
  <2>1. io.got \subseteq s.got /\ \A e \in s.got \ io.got : e = << u, m >>
    BY DEF Sends, u
  <2>2. CASE R = {}
    BY <1>6, <2>1, <2>2
  <2>3. CASE R # {}
    <3>1. /\ io' \in Ios /\ s.got \subseteq io'.got
          /\ io'.got \subseteq s.got \cup (Outlets(u) \X {r})
      BY <1>5, <2>3 DEF Sends
    <3> QED  BY <2>1, <2>3, <3>1
  <2> QED  BY <2>2, <2>3
<1>12. Typed'
  <2>1. \A o \in Threads : /\ pc'[o].at = "idle" => pc'[o].msg = {}
                           /\ pc'[o].at # "idle" => \E x \in made' : pc'[o].msg = {x}
                           /\ pc'[o].at \in Serving \cup {"process"} => o \in Processors
    BY <1>9 DEF IInv, Typed, Serving
  <2>2. made' \subseteq Messages /\ unsent \cap made' = {}
    BY <1>1, <1>2 DEF R, u
  <2>3. holder' \in [Units -> SUBSET Threads]
    BY <1>1
  <2> QED  BY <1>9, <1>11, <2>1, <2>2, <2>3 DEF IInv, Typed
<1>13. LinksFit(io, made)'
  <2>1. LinksFit(s, made)
    <3> DEFINE N == {}
    <3>1. /\ Sends(io, s, m, N, N, C) /\ (C \X {m}) \cap io.got = {}
          /\ "gnd" \in N \cup N => FromAir(m)
          /\ "air" \in N => ForAir(m)
          /\ "air" \in N /\ wired => ForAir(m)
      OBVIOUS
    <3> HIDE DEF N
    <3> QED  BY <1>1, <3>1, LinksKept DEF IInv
  <2>2. CASE R = {}
    <3>1. made' = made
      BY <2>2 DEF R, u
    <3>2. LinksFit(io', made')
      BY <1>6, <2>1, <2>2, <3>1
    <3> QED  BY <3>2, LinksPrimed
  <2>3. CASE R # {}
    <3>1. made \subseteq made' /\ r \in made'
      BY <1>2, <2>3 DEF R, u
    <3>2. /\ "gnd" \in side \cup wire => FromAir(r)
          /\ "air" \in side => ForAir(r)
          /\ "air" \in wire /\ wired => ForAir(r)
      BY <1>1, <1>2 DEF side, wire, FromAir, ForAir, LocalTo, Units
    <3>3. LinksFit(io', made')
      BY <1>5, <1>8, <2>1, <2>3, <3>1, <3>2, LinksKept
    <3> QED  BY <3>3, LinksPrimed
  <2> QED  BY <2>2, <2>3
<1>14. SeenFit' /\ Held'
  BY <1>10, SeenKept, HeldKept DEF IInv
<1>15. Given'
  <2>1. ASSUME NEW c \in Outlets(u), R # {}
        PROVE  r \in made' /\ Allowed(r, c, wired) /\ Passed(c, r)'
    <3>1. r \in made' /\ r \in Messages
      BY <1>2, <2>1 DEF R, u
    <3>2. Allowed(r, c, wired)
      BY <1>1, <1>2, <2>1 DEF Allowed, Outlets, Units
    <3>3. \A o \in Threads : ~Holds(o, r)'
      BY <1>3, <1>9, <3>1 DEF Holds
    <3>4. Passed(c, r)'
      BY <1>1, <1>2, <2>1, <3>3, ThreadFacts DEF Passed, Outlets, Units
    <3> QED  BY <3>1, <3>2, <3>4
  <2>2. m \in made' /\ Allowed(m, u, wired) /\ Passed(u, m)'
    BY <1>1 DEF u
  <2>3. ASSUME NEW c \in Consumers, NEW x \in Messages, << c, x >> \in io'.got \ io.got
        PROVE  x \in made' /\ Allowed(x, c, wired) /\ Passed(c, x)'
    BY <1>11, <2>1, <2>2, <2>3
  <2>4. made \subseteq made'
    OBVIOUS
  <2> QED  BY <1>10, <2>3, <2>4, GivenKept
<1>16. Served'
  <2> SUFFICES ASSUME NEW o \in Threads, pc'[o].at \in Serving
               PROVE  /\ holder'[o[1]] = {o}
                      /\ \A x \in pc'[o].msg : << o[1], x >> \in io'.got /\ Reply(o[1], x) \notin made'
    BY DEF Served
  <2>1. o # t /\ pc'[o] = pc[o]
    BY <1>9 DEF Serving
  <2>2. /\ holder[o[1]] = {o}
        /\ \A x \in pc[o].msg : << o[1], x >> \in io.got /\ Reply(o[1], x) \notin made
    BY <2>1 DEF IInv, Served
  <2>3. o[1] # u /\ o[1] \in Units
    BY <2>1, <2>2, ThreadFacts DEF u
  <2>4. holder'[o[1]] = {o}
    BY <1>1, <2>2, <2>3 DEF u
  <2>5. \A x : Reply(o[1], x) # r
    BY <1>2, <2>3, ReplyFacts
  <2>6. \A x \in pc[o].msg : Reply(o[1], x) \notin made'
    BY <1>2, <2>2, <2>5 DEF R, u
  <2> QED  BY <1>11, <2>1, <2>2, <2>4, <2>6
<1>17. Answered'
  <2>1. Cause(r) = {<< u, m >>}
    BY <1>2 DEF Cause
  <2>2. \A x \in made' : x \in made \/ x = r
    BY <1>2 DEF R, u
  <2>3. Cause(r) \subseteq io'.got
    BY <1>11, <2>1 DEF u
  <2>4. \A x \in made' : Cause(x) \subseteq io'.got
    BY <1>11, <2>2, <2>3 DEF IInv, Answered
  <2> QED  BY <2>4 DEF Answered, Cause
<1> QED  BY <1>11, <1>12, <1>13, <1>14, <1>15, <1>16, <1>17 DEF IInv, Step

LEMMA GivesUnit ==
  ASSUME IInv, NEW u \in Units, NEW m \in Messages, << u, m >> \notin io.got
  PROVE  LET s == Give(io, u, m) IN
         s \in Ios /\ Sends(io, s, m, {}, {}, {u}) /\ << u, m >> \in s.got
<1>1. u \in Consumers /\ io \in Ios
  BY ThreadFacts DEF IInv, Typed
<1>2. Sends(io, Give(io, u, m), m, {}, {}, {u}) /\ << u, m >> \in Give(io, u, m).got
  BY <1>1, SendsGive
<1> QED  BY <1>2 DEF Sends

LEMMA Processes ==
  ASSUME IInv, NEW t \in Threads, process(t)
  PROVE  Step
<1> DEFINE u == t[1]
<1>1. PICK m \in pc[t].msg :
        /\ io' = Respond(u, Give(io, u, m), Replies(m, u))
        /\ made' = made \cup Replies(m, u)
  BY DEF process
<1>2. /\ pc[t].at = "process" /\ holder[u] = {} /\ pc' = [pc EXCEPT ![t] = Idle]
      /\ UNCHANGED << wired, unsent, seen, holder >>
  BY DEF process
<1>3. m \in Messages /\ u \in Units /\ pc \in [Threads -> Pcs] /\ holder \in [Units -> SUBSET Threads]
  BY ThreadFacts DEF IInv, Typed
<1>4. pc'[t].at = "idle" /\ \A o \in Threads \ {t} : pc'[o] = pc[o]
  BY <1>2, <1>3 DEF Idle
<1>5. /\ << u, m >> \notin io.got /\ Reply(u, m) \notin made
      /\ Allowed(m, u, wired) /\ Passed(u, m)'
  BY <1>2, <1>4, Processed
<1> DEFINE s == Give(io, u, m)
           C == {u}
<1>6. s \in Ios /\ Sends(io, s, m, {}, {}, C) /\ << u, m >> \in s.got
  BY <1>3, <1>5, GivesUnit
<1>7. C \X {m} \cap io.got = {} /\ C \subseteq {u}
  BY <1>5
<1>8. holder' = [holder EXCEPT ![u] = {}] /\ holder[u] \in {{}, {t}}
  BY <1>2, <1>3
<1>9. io' = Respond(u, s, Replies(m, u))
  BY <1>1
<1> HIDE DEF s, C
<1> QED  BY <1>1, <1>2, <1>5, <1>6, <1>7, <1>8, <1>9, Leaves

LEMMA Registers ==
  ASSUME IInv, NEW t \in Threads, register(t)
  PROVE  Step
<1> DEFINE u == t[1]
<1>1. PICK m \in pc[t].msg : /\ io' = Respond(u, io, Replies(m, u))
                             /\ made' = made \cup Replies(m, u)
  BY DEF register
<1>2. /\ pc[t].at = "register" /\ pc' = [pc EXCEPT ![t] = Idle]
      /\ holder' = [holder EXCEPT ![u] = {}]
      /\ UNCHANGED << wired, unsent, seen >>
  BY DEF register
<1>3. m \in Messages /\ u \in Units /\ pc \in [Threads -> Pcs] /\ io \in Ios
  BY ThreadFacts DEF IInv, Typed
<1>4. holder[u] = {t} /\ << u, m >> \in io.got /\ Reply(u, m) \notin made
  BY <1>2 DEF IInv, Served, Serving
<1>5. Goes
  BY <1>2, <1>3 DEF Goes, Idle
<1>6. u \in Consumers
  BY <1>3, ThreadFacts
<1>7. Allowed(m, u, wired) /\ Passed(u, m)'
  BY <1>3, <1>4, <1>5, <1>6, PassedKept DEF IInv, Given
<1> DEFINE C == {}
<1>8. Sends(io, io, m, {}, {}, C)
  BY <1>3, SendsNothing
<1>9. C \X {m} \cap io.got = {} /\ C \subseteq {u}
  OBVIOUS
<1> HIDE DEF C
<1> QED  BY <1>1, <1>2, <1>3, <1>4, <1>7, <1>8, <1>9, Leaves

LEMMA Begins ==
  ASSUME IInv, NEW t \in Threads, process_begin(t)
  PROVE  Step
<1> DEFINE u == t[1]
<1>1. PICK m \in pc[t].msg : \E s \in Joins(u, m) :
        /\ holder' = [holder EXCEPT ![u] = {t}]
        /\ pc' = [pc EXCEPT ![t] = [@ EXCEPT !.at = "join", !.join = s]]
        /\ io' = Give(io, u, m)
  BY DEF process_begin
<1>2. PICK s \in Joins(u, m) : pc' = [pc EXCEPT ![t] = [@ EXCEPT !.at = "join", !.join = s]]
  BY <1>1
<1>3. /\ pc[t].at = "process" /\ holder[u] = {} /\ holder' = [holder EXCEPT ![u] = {t}]
      /\ io' = Give(io, u, m)
      /\ UNCHANGED << wired, unsent, made, seen >>
  BY <1>1 DEF process_begin
<1>4. /\ m \in Messages /\ m \in made /\ pc[t].msg = {m} /\ t \in Processors
      /\ u \in Units /\ pc \in [Threads -> Pcs]
      /\ io \in Ios /\ holder \in [Units -> SUBSET Threads]
  BY <1>3, ThreadFacts DEF IInv, Typed
<1>5. s \in {"fc", "ohd", "tracker", "joy"}
  BY DEF Joins, SerialParam, AirSerialParam, GroundSerialParam
<1>6. /\ pc' \in [Threads -> Pcs] /\ pc'[t].at = "join" /\ pc'[t].msg = {m}
      /\ \A o \in Threads \ {t} : pc'[o] = pc[o]
  BY <1>2, <1>4, <1>5 DEF Pcs, Places
<1>7. Goes
  BY <1>3, <1>4, <1>6 DEF Goes
<1>8. /\ << u, m >> \notin io.got /\ Reply(u, m) \notin made
      /\ Allowed(m, u, wired) /\ Passed(u, m)'
  BY <1>3, <1>6, Processed
<1> DEFINE C == {u}
<1>9. io' \in Ios /\ Sends(io, io', m, {}, {}, C) /\ << u, m >> \in io'.got
  BY <1>3, <1>4, <1>8, GivesUnit
<1>10. C \X {m} \cap io.got = {}
  BY <1>8
<1>11. io.got \subseteq io'.got /\ io'.got \subseteq io.got \cup {<< u, m >>}
  BY <1>9 DEF Sends
<1>12. Typed'
  <2>1. \A o \in Threads : /\ pc'[o].at = "idle" => pc'[o].msg = {}
                           /\ pc'[o].at # "idle" => \E x \in made : pc'[o].msg = {x}
                           /\ pc'[o].at \in Serving \cup {"process"} => o \in Processors
    BY <1>4, <1>6 DEF IInv, Typed, Serving
  <2>2. holder' \in [Units -> SUBSET Threads]
    BY <1>3, <1>4
  <2> QED  BY <1>3, <1>6, <1>9, <2>1, <2>2 DEF IInv, Typed
<1>13. LinksFit(io, made)'
  <2> DEFINE N == {}
  <2>1. /\ Sends(io, io', m, N, N, C) /\ (C \X {m}) \cap io.got = {}
        /\ "gnd" \in N \cup N => FromAir(m)
        /\ "air" \in N => ForAir(m)
        /\ "air" \in N /\ wired => ForAir(m)
    BY <1>9, <1>10
  <2> HIDE DEF N, C
  <2>2. LinksFit(io', made)
    BY <1>4, <2>1, LinksKept DEF IInv
  <2> QED  BY <1>3, <2>2, LinksPrimed
<1>14. SeenFit' /\ Held'
  BY <1>3, <1>7, SeenKept, HeldKept DEF IInv
<1>15. Given'
  BY <1>3, <1>4, <1>7, <1>8, <1>11, GivenKept
<1>16. Served'
  <2> SUFFICES ASSUME NEW o \in Threads, pc'[o].at \in Serving
               PROVE  /\ holder'[o[1]] = {o}
                      /\ \A x \in pc'[o].msg : << o[1], x >> \in io'.got /\ Reply(o[1], x) \notin made
    BY <1>3 DEF Served
  <2>1. CASE o = t
    BY <1>3, <1>4, <1>6, <1>8, <1>9, <2>1
  <2>2. CASE o # t
    <3>1. pc'[o] = pc[o]
      BY <1>6, <2>2
    <3>2. /\ holder[o[1]] = {o}
          /\ \A x \in pc[o].msg : << o[1], x >> \in io.got /\ Reply(o[1], x) \notin made
      BY <3>1 DEF IInv, Served
    <3>3. o[1] # u /\ o[1] \in Units
      BY <1>3, <3>2, ThreadFacts
    <3>4. holder'[o[1]] = {o}
      BY <1>3, <1>4, <3>2, <3>3
    <3> QED  BY <1>11, <3>1, <3>2, <3>4
  <2> QED  BY <2>1, <2>2
<1>17. Answered'
  BY <1>3, <1>11 DEF IInv, Answered, Cause
<1> QED  BY <1>3, <1>11, <1>12, <1>13, <1>14, <1>15, <1>16, <1>17 DEF IInv, Step

\* Endpoints appear and disappear, and the program may end.
LEMMA Same ==
  ASSUME IInv, UNCHANGED << wired, unsent, made, io, seen, holder, pc >>
  PROVE  Step
<1>1. Typed' /\ SeenFit' /\ Held' /\ Served' /\ Answered'
  BY DEF IInv, Typed, SeenFit, ForAir, Held, Holds, Served, Answered, Cause
<1>2. LinksFit(io, made)'
  BY LinksPrimed DEF IInv
<1>3. Goes
  BY DEF Goes
<1>4. Given'
  BY <1>3, GivenKept DEF IInv
<1> QED  BY <1>1, <1>2, <1>4 DEF IInv, Step

LEMMA JoinsThread ==
  ASSUME IInv, NEW t \in Threads, join(t)
  PROVE  Step
<1>1. pc[t].at = "join" /\ UNCHANGED << wired, unsent, made, io, seen, holder >>
  BY DEF join
<1>2. CASE UNCHANGED pc
  BY <1>1, <1>2, Same
<1>3. CASE pc' = [pc EXCEPT ![t].at = "register"]
  <2>1. pc \in [Threads -> Pcs] /\ io \in Ios /\ \E x \in made : pc[t].msg = {x}
    BY <1>1 DEF IInv, Typed
  <2>2. /\ pc' \in [Threads -> Pcs] /\ pc'[t].at = "register" /\ pc'[t].msg = pc[t].msg
        /\ \A o \in Threads \ {t} : pc'[o] = pc[o]
    BY <1>3, <2>1 DEF Pcs, Places
  <2>3. \A o \in Threads :
          /\ pc'[o].msg = pc[o].msg
          /\ \/ pc'[o].at = pc[o].at
             \/ /\ pc[o].at \in Serving
                /\ pc'[o].at \in Serving
    BY <1>1, <2>2 DEF Serving
  <2>4. Goes
    BY <1>1, <2>2 DEF Goes
  <2>5. PICK x \in made : pc[t].msg = {x}
    BY <2>1
  <2>6. Sends(io, io', x, {}, {}, {})
    BY <1>1, <2>1, SendsNothing
  <2> QED  BY <1>1, <2>2, <2>3, <2>4, <2>5, <2>6, Beside
<1> QED  BY <1>2, <1>3 DEF join

LEMMA Loses ==
  ASSUME IInv, NEW u \in Units, lose(u)
  PROVE  Step
<1>1. PICK e \in io.wb[u] : io' = ToWb(u, io, e[1], e[2] - 1)
  BY DEF lose
<1>2. UNCHANGED << wired, unsent, made, seen, holder, pc >>
  BY DEF lose
<1>3. io \in Ios /\ pc \in [Threads -> Pcs] /\ io.wb[u] \subseteq Messages \X Int
  BY DEF IInv, Typed, Ios
<1> DEFINE m == e[1]
           n == e[2] - 1
<1>4. m \in Carried(io, u) /\ m \in Messages /\ n \in Int
  BY <1>3 DEF Carried
<1>5. m \in made
  BY <1>4 DEF IInv, LinksFit
<1>6. io' = ToWb(u, io, m, n)
  BY <1>1
<1> HIDE DEF m, n
<1>7. Sends(io, io', m, {}, {}, {})
  BY <1>3, <1>4, <1>6, SendsWb
<1>8. Goes
  BY <1>2 DEF Goes
<1>9. /\ pc' \in [Threads -> Pcs]
      /\ \A o \in Threads :
           /\ pc'[o].msg = pc[o].msg
           /\ \/ pc'[o].at = pc[o].at
              \/ /\ pc[o].at \in Serving
                /\ pc'[o].at \in Serving
  BY <1>2, <1>3
<1> QED  BY <1>2, <1>5, <1>7, <1>8, <1>9, Beside

(***************************************************************************)
(* The theorem.                                                            *)
(***************************************************************************)

LEMMA InitHolds == Init => IInv
<1> SUFFICES ASSUME Init PROVE IInv
  OBVIOUS
<1>1. /\ wired \in BOOLEAN /\ unsent \subseteq Traffic /\ made = {}
      /\ io = [wb |-> [u \in Units |-> {}], wire |-> [u \in Units |-> {}], got |-> {}, twice |-> {}]
      /\ seen = [u \in Units |-> {}] /\ holder = [u \in Units |-> {}]
      /\ pc = [t \in Threads |-> Idle]
  BY TrafficAssumption DEF Init, Traffic
<1>2. \A t \in Threads : pc[t].at = "idle" /\ pc[t].msg = {} /\ pc[t] \in Pcs
  BY <1>1 DEF Idle, Pcs, Places
<1>3. Typed
  BY <1>1, <1>2 DEF Typed, Ios, Serving
<1>4. LinksFit(io, made)
  BY <1>1, ThreadFacts DEF LinksFit, Carried
<1>5. SeenFit
  BY <1>1, <1>2, ThreadFacts DEF SeenFit
<1>6. Held
  BY <1>2, ThreadFacts DEF Held, Holds
<1>7. Given /\ Served /\ Answered
  BY <1>1, <1>2 DEF Given, Served, Serving, Answered
<1> QED  BY <1>3, <1>4, <1>5, <1>6, <1>7 DEF IInv

LEMMA NextHolds == IInv /\ [Next]_vars => Step
<1> SUFFICES ASSUME IInv, [Next]_vars PROVE Step
  OBVIOUS
<1>1. CASE \E t \in Threads : Handler(t)
  <2>1. PICK t \in Threads : Handler(t)
    BY <1>1
  <2> QED  BY <2>1, FromAirUnit, FromGroundStationClients, FromGroundUnit, FromFc, FromJoystick,
              Processes, Begins, JoinsThread, Registers DEF Handler
<1>2. CASE \E t \in Threads : Receive(t)
  <2>1. PICK t \in Threads : Receive(t)
    BY <1>2
  <2> QED  BY <2>1, WbReceives, UartReceives, OutsideReceives, ThreadFacts DEF Receive
<1>3. CASE \E u \in Units : loop_infinite(u) \/ lose(u)
  BY <1>3, Generates, Loses
<1>4. CASE \E u \in Units : \E s \in Serials(u) : unplug(u, s) \/ connect(u, s)
  BY <1>4, Same DEF unplug, connect
<1>5. CASE UNCHANGED vars
  BY <1>5, Same DEF vars
<1> QED  BY <1>1, <1>2, <1>3, <1>4, <1>5 DEF Next

LEMMA StepOfBus == IInv /\ Step => Bus!Next
<1> SUFFICES ASSUME IInv, Step PROVE Bus!Next
  OBVIOUS
<1>1. UNCHANGED wired /\ made \subseteq made' /\ io.got \subseteq io'.got
  BY DEF Step
<1>2. Typed' /\ io' \in Ios /\ made' \subseteq Messages
  BY DEF Step, IInv, Typed
<1>3. io'.got \subseteq Consumers \X Messages /\ io'.twice = {}
  BY <1>2 DEF Step, IInv, LinksFit, Ios
<1>4. \A c \in Consumers, m \in Messages : << c, m >> \in io'.got => m \in made' /\ Allowed(m, c, wired)
  <2>1. Given'
    BY DEF Step, IInv
  <2> QED  BY <1>1, <2>1 DEF Given
<1>5. \A d \in io'.got \ io.got : d[2] \in made' /\ Allowed(d[2], d[1], wired)
  BY <1>3, <1>4
<1>6. \A m \in made' \ made : Cause(m) \subseteq io'.got
  BY DEF Step, IInv, Answered, Cause
<1> QED  BY <1>1, <1>2, <1>3, <1>5, <1>6 DEF Bus!Next, Bus!Publish, Bus!Give, Bus!Answer

\* For any traffic, endpoints, losses and devices that vanish, the two units with all
\* their links, threads and handlers implement one message bus.
THEOREM ImplementsBus == Spec => RoutesLikeABus
<1>1. Init => Bus!Init
  BY TrafficAssumption DEF Init, Bus!Init
<1>2. Spec => []IInv
  <2>1. IInv /\ [Next]_vars => IInv'
    BY NextHolds DEF Step
  <2> QED  BY InitHolds, <2>1, PTL DEF Spec
<1>3. IInv /\ [Next]_vars => [Bus!Next]_(Bus!busvars)
  BY NextHolds, StepOfBus
<1> QED  BY <1>1, <1>2, <1>3, PTL DEF Spec, RoutesLikeABus, Bus!Spec
=============================================================================
