-------------------------- MODULE ParamServer_proofs --------------------------
(***************************************************************************)
(* An accepted value is kept, what clients are told is true, and the whole *)
(* is a ParamStore, for every parameter set, every number of requests and  *)
(* of changes of the link.                                                 *)
(***************************************************************************)
EXTENDS ParamServer, FiniteSetTheorems, TLAPS

\* Only the change callbacks that use the queue put a set item there, and an
\* item that is being executed has stored its value.
ItemSound ==
  work.op = "set" => /\ Params[work.id].callback = "queued"
                     /\ work.running => setting[work.id] = work.value

\* While the poll stands between its two lines, a parameter whose value was
\* accepted differs from its setting only because its item is still on the
\* queue, so that the change callback will refuse.
PollRefused == pc = "update" /\ accepted[at] # NoValue => Waiting(at)

IInv == CoreType /\ ItemSound /\ AcceptedKept /\ PollRefused

\* An update gives the parameter its value and makes an item or the setting
\* carry it; every other parameter is left as it was.
LEMMA UpdatedEffect ==
  ASSUME CoreType, ItemSound, NEW p \in Ids, NEW v \in Values, Updated(p, v)
  PROVE /\ value' \in [Ids -> Values] /\ setting' \in [Ids -> Values]
        /\ work' \in {NoItem} \cup SetItems \cup OtherItems
        /\ ItemSound'
        /\ ~Waiting(p)
        /\ value'[p] = v /\ Target(p)' = v
        /\ \A q \in Ids \ {p} : value'[q] = value[q] /\ Target(q)' = Target(q)
<1>1. CASE Params[p].callback = "queued"
  <2>1. work = NoItem /\ work' = SetItem(p, v) /\ setting' = setting
        /\ value' = [value EXCEPT ![p] = v]
    BY <1>1 DEF Updated, Accepts
  <2>2. SetItem(p, v) \in SetItems
    BY DEF SetItem, SetItems
  <2>3. QED
    BY <1>1, <2>1, <2>2 DEF CoreType, Waiting, Target, SetItem, NoItem, ItemSound
<1>2. CASE Params[p].callback # "queued"
  <2>1. work' = work /\ setting' = [setting EXCEPT ![p] = v]
        /\ value' = [value EXCEPT ![p] = v]
    BY <1>2 DEF Updated
  <2>2. ~Waiting(p)
    BY <1>2 DEF ItemSound, Waiting
  <2>3. QED
    BY <2>1, <2>2 DEF CoreType, Waiting, Target, ItemSound
<1>3. QED
  BY <1>1, <1>2

\* The initial state satisfies the invariant: parameters are added with the
\* values of their settings and nothing waits.
LEMMA InitInv == Init => IInv
<1> SUFFICES ASSUME Init PROVE IInv
  OBVIOUS
<1>1. CoreType
  BY ValuesAssumption DEF Init, CoreType
<1>2. ItemSound /\ AcceptedKept /\ PollRefused
  BY DEF Init, ItemSound, AcceptedKept, PollRefused, Target, Waiting, NoItem
<1>3. QED
  BY <1>1, <1>2 DEF IInv

\* Steps of the server that touch neither a parameter nor its poll.
LEMMA FrameInv ==
  ASSUME IInv, UNCHANGED <<value, setting, work, accepted, at, polled>>,
         to_poll' \subseteq Polled,
         msg' \in Requests \cup {Heartbeat},
         pc' \in {"idle", "poll", "handle", "send", "terminated"} \/ pc' = pc
  PROVE IInv'
<1>1. CoreType'
  BY DEF IInv, CoreType
<1>2. ItemSound' /\ AcceptedKept'
  BY DEF IInv, ItemSound, AcceptedKept, Target, Waiting
<1>3. PollRefused'
  BY DEF IInv, PollRefused, Waiting
<1>4. QED
  BY <1>1, <1>2, <1>3 DEF IInv

\* An update that does not happen leaves parameters, settings and the queue.
LEMMA NotUpdatedEffect ==
  ASSUME NEW p, NEW v, NotUpdated(p, v)
  PROVE UNCHANGED <<value, setting, work>>
BY DEF NotUpdated, Missed

\* A successful set changes one parameter and accepts that value for it.
LEMMA SetInv == IInv /\ process_param_set_success => IInv'
<1> SUFFICES ASSUME IInv, process_param_set_success PROVE IInv'
  OBVIOUS
<1>1. PICK p \in Ids, v \in Values : p = msg.id /\ v = msg.value
  BY DEF process_param_set_success, Handling, IInv, CoreType, Requests, Heartbeat
<1>2. /\ Updated(p, v)
      /\ accepted' = [accepted EXCEPT ![p] = v]
      /\ pc' = "send" /\ msg' = Heartbeat
      /\ UNCHANGED <<to_poll, at, polled>>
  BY <1>1 DEF process_param_set_success, Handled
<1>3. /\ value' \in [Ids -> Values] /\ setting' \in [Ids -> Values]
      /\ work' \in {NoItem} \cup SetItems \cup OtherItems
      /\ ItemSound'
      /\ value'[p] = v /\ Target(p)' = v
      /\ \A q \in Ids \ {p} : value'[q] = value[q] /\ Target(q)' = Target(q)
  BY <1>1, <1>2, UpdatedEffect DEF IInv
<1>4. CoreType'
  BY <1>1, <1>2, <1>3 DEF IInv, CoreType
<1>5. AcceptedKept'
  BY <1>1, <1>2, <1>3 DEF IInv, AcceptedKept, CoreType
<1>6. PollRefused'
  BY <1>2 DEF PollRefused
<1>7. QED
  BY <1>3, <1>4, <1>5, <1>6 DEF IInv

\* Steps of a poll: what is read differs from an accepted value only while the
\* item waits, and then the change callback refuses.
LEMMA PollGetInv == ASSUME IInv, NEW p \in Polled, poll_get(p) PROVE IInv'
<1>1. p \in Ids
  BY DEF Polled
<1>2. /\ UNCHANGED <<value, setting, work, accepted, msg>>
      /\ to_poll' \subseteq Polled
      /\ \/ value[p] # setting[p] /\ at' = p /\ polled' = setting[p] /\ pc' = "update"
         \/ UNCHANGED <<at, polled, pc>>
  BY DEF poll_get, IInv, CoreType
<1>3. CoreType'
  BY <1>1, <1>2 DEF IInv, CoreType
<1>4. ItemSound' /\ AcceptedKept'
  BY <1>2 DEF IInv, ItemSound, AcceptedKept, Target, Waiting
<1>5. PollRefused'
  BY <1>1, <1>2 DEF IInv, PollRefused, AcceptedKept, Target, Waiting
<1>6. QED
  BY <1>3, <1>4, <1>5 DEF IInv

LEMMA PollUpdateInv == IInv /\ poll_update => IInv'
<1> SUFFICES ASSUME IInv, poll_update PROVE IInv'
  OBVIOUS
<1>1. PICK p \in Ids, v \in Values : p = at /\ v = polled
  BY DEF poll_update, IInv, CoreType, Polled
<1>2. /\ pc = "update"
      /\ pc' = "poll" /\ at' = Unknown /\ polled' = NoValue
      /\ UNCHANGED <<msg, to_poll, accepted>>
  BY DEF poll_update
<1>3. PollRefused'
  BY <1>2 DEF PollRefused
<1>4. CASE Updated(p, v)
  <2>1. /\ value' \in [Ids -> Values] /\ setting' \in [Ids -> Values]
        /\ work' \in {NoItem} \cup SetItems \cup OtherItems
        /\ ItemSound'
        /\ ~Waiting(p)
        /\ \A q \in Ids \ {p} : value'[q] = value[q] /\ Target(q)' = Target(q)
    BY <1>1, <1>4, UpdatedEffect DEF IInv
  <2>2. accepted[p] = NoValue
    BY <1>1, <1>2, <2>1 DEF IInv, PollRefused, Waiting
  <2>3. CoreType'
    BY <1>1, <1>2, <2>1 DEF IInv, CoreType
  <2>4. AcceptedKept'
    BY <1>1, <1>2, <2>1, <2>2 DEF IInv, AcceptedKept
  <2>5. QED
    BY <1>3, <2>1, <2>3, <2>4 DEF IInv
<1>5. CASE NotUpdated(p, v)
  <2>1. UNCHANGED <<value, setting, work>>
    BY <1>5, NotUpdatedEffect
  <2>2. CoreType'
    BY <1>1, <1>2, <2>1 DEF IInv, CoreType
  <2>3. ItemSound' /\ AcceptedKept'
    BY <1>1, <1>2, <2>1 DEF IInv, ItemSound, AcceptedKept, Target, Waiting
  <2>4. QED
    BY <1>3, <2>2, <2>3 DEF IInv
<1>6. QED
  BY <1>1, <1>4, <1>5 DEF poll_update

\* Steps of the link.  An item stores the value it was queued with; it leaves
\* the queue with its value stored, and not in the middle of a poll.
LEMMA WorkerBeginInv == IInv /\ worker_begin => IInv'
<1> SUFFICES ASSUME IInv, worker_begin PROVE IInv'
  OBVIOUS
<1>1. /\ work \in SetItems \cup OtherItems
      /\ work' = [work EXCEPT !.running = TRUE]
      /\ UNCHANGED <<value, accepted, pc, msg, to_poll, at, polled>>
  BY DEF worker_begin, serverVars, IInv, CoreType
<1>2. CASE work \in SetItems
  <2>1. /\ work' \in SetItems /\ work'.id = work.id /\ work'.value = work.value
        /\ work.op = "set" /\ work'.op = "set" /\ work.id \in Ids /\ work.value \in Values
        /\ setting' = [setting EXCEPT ![work.id] = work.value]
    BY <1>1, <1>2 DEF worker_begin, SetItems
  <2>2. CoreType'
    BY <1>1, <2>1 DEF IInv, CoreType
  <2>3. ItemSound' /\ PollRefused'
    BY <1>1, <2>1 DEF IInv, CoreType, ItemSound, PollRefused, Waiting
  <2>4. \A p \in Ids : Target(p)' = Target(p)
    BY <2>1 DEF IInv, CoreType, Target, Waiting
  <2>5. AcceptedKept'
    BY <1>1, <2>4 DEF IInv, AcceptedKept
  <2>6. QED
    BY <2>2, <2>3, <2>5 DEF IInv
<1>3. CASE work \in OtherItems
  <2>1. /\ work' \in OtherItems /\ work.op = "other" /\ work'.op = "other"
        /\ setting' = setting
    BY <1>1, <1>3 DEF worker_begin, OtherItems
  <2>2. CoreType'
    BY <1>1, <2>1 DEF IInv, CoreType
  <2>3. ItemSound' /\ PollRefused' /\ AcceptedKept'
    BY <1>1, <2>1 DEF IInv, ItemSound, PollRefused, Waiting, AcceptedKept, Target
  <2>4. QED
    BY <2>2, <2>3 DEF IInv
<1>4. QED
  BY <1>1, <1>2, <1>3

LEMMA WorkerEndInv == IInv /\ worker_end => IInv'
<1> SUFFICES ASSUME IInv, worker_end PROVE IInv'
  OBVIOUS
<1>1. /\ pc # "update" /\ work' = NoItem
      /\ UNCHANGED <<value, setting, accepted, pc, msg, to_poll, at, polled>>
  BY DEF worker_end, serverVars
<1>2. work.op = "set" => setting[work.id] = work.value
  BY DEF worker_end, IInv, ItemSound
<1>3. CoreType' /\ ItemSound' /\ PollRefused'
  BY <1>1 DEF IInv, CoreType, ItemSound, PollRefused, NoItem
<1>4. AcceptedKept'
  BY <1>1, <1>2 DEF IInv, AcceptedKept, Target, Waiting, NoItem
<1>5. QED
  BY <1>3, <1>4 DEF IInv

LEMMA ScheduleOtherInv == IInv /\ schedule_other => IInv'
<1> SUFFICES ASSUME IInv, schedule_other PROVE IInv'
  OBVIOUS
<1>1. /\ work = NoItem /\ work' = [op |-> "other", running |-> FALSE]
      /\ UNCHANGED <<value, setting, accepted, pc, msg, to_poll, at, polled>>
  BY DEF schedule_other, serverVars
<1>2. work' \in OtherItems
  BY <1>1 DEF OtherItems
<1>3. CoreType'
  BY <1>1, <1>2 DEF IInv, CoreType
<1>4. ItemSound' /\ AcceptedKept' /\ PollRefused'
  BY <1>1 DEF IInv, ItemSound, AcceptedKept, PollRefused, Target, Waiting, NoItem
<1>5. QED
  BY <1>3, <1>4 DEF IInv

\* A setting the link replaces under a waiting item will be that of the item.
LEMMA LinkAdoptsInv ==
  ASSUME IInv, NEW p \in Polled, NEW v \in Values, link_adopts(p, v) PROVE IInv'
<1>1. p \in Ids
  BY DEF Polled
<1>2. /\ ~(work.op = "set" /\ work.running)
      /\ setting' = [setting EXCEPT ![p] = v]
      /\ accepted' = IF Waiting(p) THEN accepted ELSE [accepted EXCEPT ![p] = NoValue]
      /\ UNCHANGED <<value, work, pc, msg, to_poll, at, polled>>
  BY DEF link_adopts, serverVars
<1>3. CoreType'
  BY <1>1, <1>2 DEF IInv, CoreType
<1>4. ItemSound'
  BY <1>2 DEF IInv, ItemSound
<1>5. AcceptedKept'
  BY <1>1, <1>2 DEF IInv, AcceptedKept, CoreType, Target, Waiting
<1>6. PollRefused'
  BY <1>1, <1>2 DEF IInv, CoreType, PollRefused, Waiting
<1>7. QED
  BY <1>3, <1>4, <1>5, <1>6 DEF IInv

\* Every step keeps the invariant.
LEMMA StepInv == IInv /\ [Next]_vars => IInv'
<1> SUFFICES ASSUME IInv, [Next]_vars PROVE IInv'
  OBVIOUS
<1>1. CASE process_param_set_success
  BY <1>1, SetInv
<1>2. CASE \/ process_param_set_missing \/ process_param_set_wrong_type
           \/ process_param_set_no_update \/ process_param_request_read
           \/ process_param_request_list \/ ignore_message
  <2>1. /\ UNCHANGED <<to_poll, at, polled, accepted>>
        /\ pc' = "send" /\ msg' = Heartbeat
    BY <1>2 DEF process_param_set_missing, process_param_set_wrong_type,
         process_param_set_no_update, process_param_request_read,
         process_param_request_list, ignore_message, Handled
  <2>2. UNCHANGED <<value, setting, work>>
    BY <1>2, NotUpdatedEffect DEF process_param_set_missing, process_param_set_wrong_type,
         process_param_set_no_update, process_param_request_read,
         process_param_request_list, ignore_message
  <2>3. to_poll' \subseteq Polled /\ msg' \in Requests \cup {Heartbeat}
    BY <2>1 DEF IInv, CoreType
  <2>4. QED
    BY <2>1, <2>2, <2>3, FrameInv
<1>3. CASE \/ set_ready \/ a_second_passes \/ poll_done \/ send_answers
           \/ process_param_set_hidden \/ UNCHANGED vars
  <2>1. /\ UNCHANGED <<value, setting, work, accepted, msg, to_poll, at, polled>>
        /\ pc' \in {"handle", "idle", "terminated"} \/ pc' = pc
    BY <1>3 DEF set_ready, a_second_passes, poll_done, send_answers, process_param_set_hidden,
       vars, serverVars
  <2>2. to_poll' \subseteq Polled /\ msg' \in Requests \cup {Heartbeat}
    BY <2>1 DEF IInv, CoreType
  <2>3. QED
    BY <2>1, <2>2, FrameInv
<1>4. ASSUME NEW m \in Requests \cup {Heartbeat}, receive(m) \/ receive_another(m)
      PROVE IInv'
  <2>1. /\ UNCHANGED <<value, setting, work, accepted, at, polled>>
        /\ msg' = m /\ pc' \in {"poll", "handle"}
        /\ to_poll' = Polled \/ to_poll' = to_poll
    BY <1>4 DEF receive, receive_another, Take
  <2>2. to_poll' \subseteq Polled
    BY <2>1 DEF IInv, CoreType
  <2>3. QED
    BY <2>1, <2>2, FrameInv
<1>5. CASE \E p \in Polled : poll_get(p)
  BY <1>5, PollGetInv
<1>6. CASE poll_update
  BY <1>6, PollUpdateInv
<1>7. CASE worker_begin
  BY <1>7, WorkerBeginInv
<1>8. CASE worker_end
  BY <1>8, WorkerEndInv
<1>9. CASE schedule_other
  BY <1>9, ScheduleOtherInv
<1>10. CASE \E p \in Polled, v \in Values : link_adopts(p, v)
  BY <1>10, LinkAdoptsInv
<1>11. QED
  BY <1>1, <1>2, <1>3, <1>4, <1>5, <1>6, <1>7, <1>8, <1>9, <1>10
     DEF Next, ProcessStep, HandleMessage, NewRequest

\* The parameter server keeps what it accepted: an accepted value is the value
\* it reports and the one its program uses or is about to use, until a client
\* or the link replaces it (process_mavlink_messages, its poll and the
\* link's worker in any interleaving).
THEOREM AcceptedIsKept == Spec => []AcceptedKept
<1>1. IInv => AcceptedKept
  BY DEF IInv
<1>2. QED
  BY InitInv, StepInv, <1>1, PTL DEF Spec

-----------------------------------------------------------------------------
(***************************************************************************)
(* What clients are told.  An answer is about a parameter its protocol     *)
(* shows and carries the index the set counted for it; the last one about  *)
(* a parameter that only clients change carries its value.                 *)
(***************************************************************************)
Answers ==
  [param : Ids, value : Values, ext : BOOLEAN, index : Int,
   ack : {"none", "ACCEPTED", "FAILED", "VALUE_UNSUPPORTED"}, asked : Int]

Right(a) ==
  a.ack = "none" => a.param \in Shown(a.ext) /\ a.index = IndexOf(a.param, a.ext)

\* The i-th answer is the last about its parameter.
LastAbout(i, list) == \A j \in 1 .. Len(list) : j > i => list[j].param # list[i].param

Latest(list, about, now) ==
  \A p \in Ids \ Polled :
    /\ \A i \in 1 .. Len(list) :
         list[i].param = p /\ LastAbout(i, list) => list[i].value = now[p]
    /\ (\A i \in 1 .. Len(list) : list[i].param # p) => about[p] \in {NoValue, now[p]}

AnswersInv ==
  /\ answers \in Seq(Answers)
  /\ \A i \in 1 .. Len(answers) : Right(answers[i])
  /\ view \in [Ids -> Values \cup {NoValue}]
  /\ Latest(answers, view, value)

\* Every set of numbers has a smallest, and a bounded one a largest.
LEMMA SmallestNumber ==
  ASSUME NEW S \in SUBSET Nat, S # {}
  PROVE  \E m \in S : \A k \in S : m <= k
<1> DEFINE R == {ss \in Nat \X Nat : ss[1] < ss[2]}
<1>1. IsWellFoundedOn(R, Nat)
  BY NatLessThanWellFounded DEF OpToRel
<1>2. \E x \in S : \A y \in S : ~(<< y, x >> \in R)
  <2> HIDE DEF R
  <2> QED BY <1>1, WFMin
<1>3. \A x, y \in S : ~(<< y, x >> \in R) => x <= y
  OBVIOUS
<1> HIDE DEF R
<1> QED BY <1>2, <1>3

LEMMA MaxFacts ==
  ASSUME NEW n \in Nat, NEW S \in SUBSET (1 .. n), S # {}
  PROVE  Max(S) \in S /\ \A k \in S : k <= Max(S)
<1> DEFINE T == {n - k : k \in S}
<1>1. T \in SUBSET Nat /\ T # {}
  <2>1. \A k \in S : n - k \in Nat
    OBVIOUS
  <2> QED BY <2>1
<1>2. PICK t \in T : \A u \in T : t <= u
  <2> HIDE DEF T
  <2> QED BY <1>1, SmallestNumber
<1>3. PICK m \in S : t = n - m
  OBVIOUS
<1>4. \A k \in S : n - m <= n - k
  BY <1>2, <1>3
<1>5. \A k \in S : m >= k
  BY <1>4
<1>6. \E x \in S : \A y \in S : x >= y
  BY <1>5
<1>7. Max(S) \in S /\ \A y \in S : Max(S) >= y
  BY <1>6 DEF Max
<1> QED BY <1>7

\* The index of a parameter counts the ones shown before it.
LEMMA ShownFacts ==
  ASSUME NEW ext \in BOOLEAN
  PROVE  /\ N \in Nat /\ Shown(ext) \subseteq Ids
         /\ IsFiniteSet(Shown(ext)) /\ Cardinality(Shown(ext)) \in Nat
<1>1. N \in Nat
  BY ParamsAssumption DEF N
<1>2. IsFiniteSet(Ids)
  BY <1>1, FS_Interval DEF Ids
<1>3. Shown(ext) \in SUBSET Ids
  BY DEF Shown
<1> QED BY <1>1, <1>2, <1>3, FS_Subset, FS_CardinalityType

Before(p, S) == {q \in S : q < p}

LEMMA RankGrows ==
  ASSUME NEW S, IsFiniteSet(S), S \subseteq Int, NEW p \in S, NEW q \in S, p < q
  PROVE  Cardinality(Before(p, S)) \in Nat /\ Cardinality(Before(p, S)) < Cardinality(Before(q, S))
<1>1. /\ Before(p, S) \in SUBSET Before(q, S) /\ Before(p, S) # Before(q, S)
      /\ Before(q, S) \in SUBSET S
  <2>1. \A x \in S : x \in Int /\ ~(x < x) /\ (x < p => x < q)
    OBVIOUS
  <2>2. p \in Before(q, S) /\ p \notin Before(p, S)
    BY <2>1 DEF Before
  <2> QED BY <2>1, <2>2 DEF Before
<1>2. IsFiniteSet(Before(q, S)) /\ Cardinality(Before(q, S)) \in Nat
  BY <1>1, FS_Subset, FS_CardinalityType
<1>3. IsFiniteSet(Before(p, S)) /\ Cardinality(Before(p, S)) \in Nat
  BY <1>1, <1>2, FS_Subset, FS_CardinalityType
<1>4. /\ Cardinality(Before(p, S)) <= Cardinality(Before(q, S))
      /\ Cardinality(Before(q, S)) # Cardinality(Before(p, S))
  BY <1>1, <1>2, FS_Subset
<1> QED BY <1>2, <1>3, <1>4

LEMMA PlainIndex == \A p : IndexOf(p, FALSE) = Cardinality(Before(p, Shown(FALSE)))
  BY DEF IndexOf, Before

LEMMA IndexInjective ==
  ASSUME NEW ext \in BOOLEAN, NEW p \in Shown(ext), NEW q \in Shown(ext),
         IndexOf(p, ext) = IndexOf(q, ext)
  PROVE  p = q
<1>1. p \in Int /\ q \in Int /\ IsFiniteSet(Shown(ext)) /\ Shown(ext) \subseteq Int
  BY ShownFacts DEF Ids
<1>2. CASE ext = TRUE
  BY <1>1, <1>2 DEF IndexOf
<1>3. CASE ext = FALSE
  <2> SUFFICES ASSUME p # q PROVE FALSE
    OBVIOUS
  <2> DEFINE a == Cardinality(Before(p, Shown(FALSE)))
             b == Cardinality(Before(q, Shown(FALSE)))
  <2>1. a = b
    BY <1>3, PlainIndex
  <2>2. CASE p < q
    <3>1. a \in Nat /\ a < b
      BY <1>1, <1>3, <2>2, RankGrows
    <3> HIDE DEF a, b
    <3> QED BY <2>1, <3>1
  <2>3. CASE q < p
    <3>1. b \in Nat /\ b < a
      BY <1>1, <1>3, <2>3, RankGrows
    <3> HIDE DEF a, b
    <3> QED BY <2>1, <3>1
  <2> QED BY <1>1, <2>2, <2>3
<1> QED BY <1>2, <1>3

\* A finite set of numbers can be listed in its order, and a number's place in
\* that list is how many come before it.
Sorted(list, S) ==
  /\ list \in [1 .. Cardinality(S) -> S]
  /\ \A i, j \in 1 .. Cardinality(S) : i < j => list[i] < list[j]

LEMMA RankBounded ==
  ASSUME NEW S, IsFiniteSet(S), S \subseteq Int, NEW p \in S
  PROVE  Cardinality(Before(p, S)) \in 0 .. Cardinality(S) - 1
<1>1. Before(p, S) \in SUBSET S /\ Before(p, S) # S
  BY DEF Before
<1>2. IsFiniteSet(Before(p, S)) /\ Cardinality(Before(p, S)) \in Nat /\ Cardinality(S) \in Nat
  BY <1>1, FS_Subset, FS_CardinalityType
<1>3. Cardinality(Before(p, S)) <= Cardinality(S) /\ Cardinality(S) # Cardinality(Before(p, S))
  BY <1>1, FS_Subset
<1> QED BY <1>2, <1>3

LEMMA SortedExists ==
  ASSUME NEW S, IsFiniteSet(S), S \subseteq Int
  PROVE  \E list : Sorted(list, S)
<1> DEFINE n == Cardinality(S)
           r == [p \in S |-> Cardinality(Before(p, S))]
           list == [i \in 1 .. n |-> CHOOSE p \in S : r[p] = i - 1]
<1>1. n \in Nat
  BY FS_CardinalityType
<1>2. r \in [S -> 0 .. n - 1]
  BY RankBounded
<1>3. \A p, q \in S : p < q => r[p] < r[q]
  BY RankGrows
<1> HIDE DEF r
<1>4. \A p, q \in S : r[p] = r[q] => p = q
  <2> SUFFICES ASSUME NEW p \in S, NEW q \in S, r[p] = r[q], p # q PROVE FALSE
    OBVIOUS
  <2>1. p \in Int /\ q \in Int /\ r[p] \in Int /\ r[q] \in Int
    BY <1>1, <1>2
  <2>2. p < q \/ q < p
    BY <2>1
  <2> DEFINE a == r[p]
             b == r[q]
  <2>3. a = b /\ a \in Int /\ (a < b \/ b < a)
    BY <1>3, <2>1, <2>2
  <2> HIDE DEF a, b
  <2> QED BY <2>3
<1>5. r \in Injection(S, 0 .. n - 1)
  BY <1>2, <1>4 DEF Injection, IsInjective
<1>6. IsFiniteSet(0 .. n - 1) /\ Cardinality(0 .. n - 1) = n
  <2> HIDE DEF n
  <2>1. /\ IsFiniteSet(0 .. n - 1)
        /\ Cardinality(0 .. n - 1) = IF 0 > n - 1 THEN 0 ELSE n - 1 - 0 + 1
    BY <1>1, FS_Interval
  <2> QED BY <1>1, <2>1
<1>7. r \in Surjection(S, 0 .. n - 1)
  BY <1>5, <1>6, FS_Injection
<1>8. \A i \in 1 .. n : \E p \in S : r[p] = i - 1
  <2>1. \A t \in 0 .. n - 1 : \E p \in S : r[p] = t
    BY <1>7 DEF Surjection
  <2>2. \A i \in 1 .. n : i - 1 \in 0 .. n - 1
    BY <1>1
  <2> QED BY <2>1, <2>2
<1>9. \A i \in 1 .. n : list[i] \in S /\ r[list[i]] = i - 1
  BY <1>8
<1>10. list \in [1 .. n -> S]
  BY <1>8
<1> HIDE DEF list, n
<1>11. ASSUME NEW i \in 1 .. n, NEW j \in 1 .. n, i < j PROVE list[i] < list[j]
  <2> DEFINE a == list[i]
             b == list[j]
  <2>1. a \in S /\ b \in S /\ r[a] = i - 1 /\ r[b] = j - 1
    BY <1>9
  <2>2. a \in Int /\ b \in Int
    BY <2>1
  <2> HIDE DEF a, b
  <2>3. ~(b < a) /\ a # b
    <3>1. b < a => r[b] < r[a]
      BY <1>3, <2>1
    <3>2. ~(j - 1 < i - 1) /\ i - 1 # j - 1
      BY <1>1, <1>11
    <3> QED BY <2>1, <3>1, <3>2
  <2>4. a < b
    BY <2>2, <2>3
  <2> QED BY <2>4 DEF a, b
<1> QED BY <1>10, <1>11 DEF Sorted, n

LEMMA SortedRank ==
  ASSUME NEW S, IsFiniteSet(S), S \subseteq Int, NEW list, Sorted(list, S),
         NEW i \in 1 .. Cardinality(S)
  PROVE  Cardinality(Before(list[i], S)) = i - 1
<1> DEFINE n == Cardinality(S)
<1>1. /\ n \in Nat /\ list \in [1 .. n -> S] /\ i \in 1 .. n
      /\ \A j, k \in 1 .. n : j < k => list[j] < list[k]
  BY FS_CardinalityType DEF Sorted
<1>2. IsFiniteSet(1 .. n) /\ Cardinality(1 .. n) = n
  <2> HIDE DEF n
  <2>1. /\ IsFiniteSet(1 .. n)
        /\ Cardinality(1 .. n) = IF 1 > n THEN 0 ELSE n - 1 + 1
    BY <1>1, FS_Interval
  <2> QED BY <1>1, <2>1
<1>3. \A j \in 1 .. n : list[j] \in S /\ list[j] \in Int
  BY <1>1
<1>4. \A j, k \in 1 .. n : list[j] < list[k] <=> j < k
  <2> SUFFICES ASSUME NEW j \in 1 .. n, NEW k \in 1 .. n PROVE list[j] < list[k] <=> j < k
    OBVIOUS
  <2> DEFINE a == list[j]
             b == list[k]
  <2>1. a \in Int /\ b \in Int /\ (j < k => a < b) /\ (k < j => b < a) /\ (j = k => a = b)
    BY <1>1, <1>3
  <2> HIDE DEF a, b, n
  <2>2. a < b <=> j < k
    BY <1>1, <2>1
  <2> QED BY <2>2 DEF a, b
<1>5. \A j, k \in 1 .. n : list[j] = list[k] => j = k
  <2> SUFFICES ASSUME NEW j \in 1 .. n, NEW k \in 1 .. n, list[j] = list[k], j # k PROVE FALSE
    OBVIOUS
  <2> DEFINE a == list[j]
             b == list[k]
  <2>1. a \in Int /\ a = b /\ (a < b \/ b < a)
    <3>1. j < k \/ k < j
      BY <1>1
    <3> QED BY <1>3, <1>4, <3>1
  <2> HIDE DEF a, b
  <2> QED BY <2>1
<1>6. list \in Injection(1 .. n, S)
  BY <1>1, <1>5 DEF Injection, IsInjective
<1>7. list \in Surjection(1 .. n, S)
  <2> HIDE DEF n
  <2>1. Cardinality(S) = n
    BY DEF n
  <2> QED BY <1>2, <1>6, <2>1, FS_Injection
<1>8. \A q \in S : \E j \in 1 .. n : list[j] = q
  BY <1>7 DEF Surjection
<1> DEFINE f == [j \in 1 .. i - 1 |-> list[j]]
           B == Before(list[i], S)
<1> HIDE DEF n
<1>9. 1 .. i - 1 \subseteq 1 .. n /\ i - 1 \in Nat
  BY <1>1
<1>10. f \in [1 .. i - 1 -> B]
  BY <1>1, <1>3, <1>9 DEF Before
<1>11. \A j, k \in 1 .. i - 1 : f[j] = f[k] => j = k
  BY <1>5, <1>9
<1>12. ASSUME NEW q \in B PROVE \E j \in 1 .. i - 1 : f[j] = q
  <2>1. q \in S /\ q < list[i]
    BY <1>12 DEF Before
  <2>2. PICK j \in 1 .. n : list[j] = q
    BY <1>8, <2>1
  <2>3. j < i
    BY <1>1, <1>4, <2>1, <2>2
  <2>4. j \in 1 .. i - 1
    BY <1>1, <2>3
  <2> QED BY <2>2, <2>4
<1> HIDE DEF f, B
<1>13. f \in Bijection(1 .. i - 1, B)
  BY <1>10, <1>11, <1>12 DEF Bijection, Injection, Surjection, IsInjective
<1>14. ExistsBijection(1 .. i - 1, B)
  BY <1>13 DEF ExistsBijection
<1> QED BY <1>9, <1>14, FS_CountingElements DEF B

\* The place of a parameter in the list is the index the set counts for it.
LEMMA IndexIsRank ==
  ASSUME NEW ext \in BOOLEAN, NEW p \in Shown(ext)
  PROVE  IndexOf(p, ext) = Cardinality(Before(p, Shown(ext)))
<1>1. CASE ext = FALSE
  BY <1>1, PlainIndex
<1>2. CASE ext = TRUE
  <2>1. Shown(ext) = Ids /\ p \in Ids /\ N \in Nat
    BY <1>2, ShownFacts DEF Shown
  <2>2. p \in 1 .. N
    BY <2>1 DEF Ids
  <2>3. Before(p, Ids) = 1 .. p - 1
    BY <2>1, <2>2 DEF Before, Ids
  <2>4. Cardinality(1 .. p - 1) = IF 1 > p - 1 THEN 0 ELSE p - 1 - 1 + 1
    BY <2>2, FS_Interval
  <2>5. Cardinality(1 .. p - 1) = p - 1
    BY <2>2, <2>4
  <2>6. IndexOf(p, ext) = p - 1
    BY <1>2 DEF IndexOf
  <2> QED BY <2>1, <2>3, <2>5, <2>6
<1> QED BY <1>1, <1>2

LEMMA ListedFacts ==
  ASSUME NEW ext \in BOOLEAN
  PROVE  /\ Listed(ext) \in Seq(Shown(ext))
         /\ \A i \in 1 .. Len(Listed(ext)) : /\ Listed(ext)[i] \in Shown(ext)
                                             /\ IndexOf(Listed(ext)[i], ext) = i - 1
         /\ \A i, j \in 1 .. Len(Listed(ext)) : Listed(ext)[i] = Listed(ext)[j] => i = j
<1> DEFINE S == Shown(ext)
           n == Cardinality(S)
           list == Listed(ext)
<1>1. /\ IsFiniteSet(S) /\ S \subseteq Int /\ n \in Nat
  BY ShownFacts DEF Ids
<1>2. \E l : Sorted(l, S)
  BY <1>1, SortedExists
<1>3. \E l \in [1 .. n -> S] : \A i, j \in DOMAIN l : i < j => l[i] < l[j]
  BY <1>2 DEF Sorted
<1>4. list \in [1 .. n -> S] /\ \A i, j \in DOMAIN list : i < j => list[i] < list[j]
  BY <1>3 DEF Listed
<1>5. Sorted(list, S)
  BY <1>4 DEF Sorted
<1>6. list \in Seq(S) /\ Len(list) = n
  BY <1>1, <1>4
<1>7. \A i \in 1 .. n : list[i] \in S
  BY <1>4
<1> HIDE DEF list
<1>8. ASSUME NEW i \in 1 .. n PROVE IndexOf(list[i], ext) = i - 1
  <2>1. Cardinality(Before(list[i], S)) = i - 1
    BY <1>1, <1>5, SortedRank
  <2> QED BY <1>7, <2>1, IndexIsRank
<1>9. ASSUME NEW i \in 1 .. n, NEW j \in 1 .. n, list[i] = list[j] PROVE i = j
  <2>1. i - 1 = j - 1
    BY <1>8, <1>9
  <2> HIDE DEF n
  <2> QED BY <1>1, <2>1
<1> QED BY <1>6, <1>7, <1>8, <1>9 DEF list

-----------------------------------------------------------------------------
\* What is answered about a parameter.
LEMMA ValueAnswered ==
  ASSUME NEW ext \in BOOLEAN, NEW p \in Shown(ext), NEW v \in Values, NEW asked \in Int
  PROVE  LET a == ValueAnswer(p, ext, v, asked) IN
         a \in Answers /\ Right(a) /\ a.param = p /\ a.value = v /\ a.index = IndexOf(p, ext)
<1>1. p \in Ids /\ p \in Int
  BY ShownFacts DEF Ids
<1>2. IndexOf(p, ext) \in Int
  <2>1. Cardinality(Before(p, Shown(ext))) \in Int
    BY <1>1, ShownFacts, RankBounded DEF Ids
  <2> QED BY <2>1, IndexIsRank
<1> QED BY <1>1, <1>2 DEF ValueAnswer, Answers, Right

LEMMA SetAnswered ==
  ASSUME CoreType, NEW v \in Values, NEW ack \in {"ACCEPTED", "FAILED", "VALUE_UNSUPPORTED"},
         msg.op = "set", msg.id # Unknown, msg.id \in Shown(msg.ext) \/ msg.value # WrongType
  PROVE  LET a == SetAnswer(msg.id, v, ack) IN
         msg.id \in Ids /\ a \in Answers /\ Right(a) /\ a.param = msg.id /\ a.value = v
<1>1. /\ msg.id \in Ids /\ msg.ext \in BOOLEAN
      /\ msg.value \in Values \cup {WrongType}
      /\ Params[msg.id].string => msg.ext
  BY DEF CoreType, Requests, Heartbeat, Shown
<1>2. CASE msg.ext
  <2>1. SetAnswer(msg.id, v, ack)
          = [param |-> msg.id, value |-> v, ext |-> TRUE, index |-> NoIndex, ack |-> ack,
             asked |-> NoIndex]
    BY <1>2 DEF SetAnswer, AckAnswer
  <2>2. NoIndex \in Int /\ ack # "none"
    BY DEF NoIndex
  <2> DEFINE a == SetAnswer(msg.id, v, ack)
  <2>3. a = [param |-> msg.id, value |-> v, ext |-> TRUE, index |-> NoIndex, ack |-> ack,
             asked |-> NoIndex]
    BY <2>1
  <2> HIDE DEF a
  <2>4. a \in Answers /\ a.ack # "none" /\ a.param = msg.id /\ a.value = v
    BY <1>1, <2>2, <2>3 DEF Answers
  <2>5. Right(a)
    BY <2>4 DEF Right
  <2> QED BY <1>1, <2>4, <2>5 DEF a
<1>3. CASE ~msg.ext
  <2> DEFINE e == msg.ext
  <2>0. e = FALSE /\ e \in BOOLEAN
    BY <1>1, <1>3
  <2>1. msg.id \in Shown(e)
    BY <1>1, <1>3 DEF Shown
  <2>2. SetAnswer(msg.id, v, ack) = ValueAnswer(msg.id, e, v, NoIndex)
    BY <1>3, <2>0 DEF SetAnswer
  <2>3. NoIndex \in Int
    BY DEF NoIndex
  <2> HIDE DEF e
  <2> DEFINE a == ValueAnswer(msg.id, e, v, NoIndex)
  <2>4. a \in Answers /\ Right(a) /\ a.param = msg.id /\ a.value = v
    BY <2>0, <2>1, <2>3, ValueAnswered
  <2> QED BY <1>1, <2>2, <2>4
<1> QED BY <1>1, <1>2, <1>3

\* An answer that carries the new value of its parameter.
LEMMA AppendStep ==
  ASSUME AnswersInv, NEW a \in Answers, Right(a),
         answers' = Append(answers, a), view' = view,
         a.value = value'[a.param],
         \A q \in Ids \ Polled : q # a.param => value'[q] = value[q]
  PROVE  AnswersInv' /\ Store!Tells
<1> DEFINE l == answers
           m == Append(answers, a)
<1>1. /\ l \in Seq(Answers) /\ Len(l) \in Nat /\ m \in Seq(Answers) /\ Len(m) = Len(l) + 1
      /\ m[Len(l) + 1] = a
      /\ \A i \in 1 .. Len(l) : m[i] = l[i]
  BY DEF AnswersInv
<1>2. /\ \A i \in 1 .. Len(l) : Right(l[i])
      /\ Latest(l, view, value)
  BY DEF AnswersInv
<1> HIDE DEF l, m
<1>3. \A i \in 1 .. Len(m) : i = Len(l) + 1 \/ i \in 1 .. Len(l)
  BY <1>1
<1>4. \A i \in 1 .. Len(m) : Right(m[i])
  BY <1>1, <1>2, <1>3
<1>5. Latest(m, view, value')
  <2> SUFFICES ASSUME NEW p \in Ids \ Polled
               PROVE  /\ \A i \in 1 .. Len(m) :
                           m[i].param = p /\ LastAbout(i, m) => m[i].value = value'[p]
                      /\ (\A i \in 1 .. Len(m) : m[i].param # p) => view[p] \in {NoValue, value'[p]}
    BY DEF Latest
  <2>1. Len(l) + 1 \in 1 .. Len(m) /\ \A i \in 1 .. Len(l) : i < Len(l) + 1 /\ i \in 1 .. Len(m)
    BY <1>1
  <2>2. ASSUME NEW i \in 1 .. Len(m), m[i].param = p, LastAbout(i, m)
        PROVE  m[i].value = value'[p]
    <3>1. CASE i = Len(l) + 1
      BY <1>1, <2>2, <3>1
    <3>2. CASE i \in 1 .. Len(l)
      <4>1. a.param # p
        BY <1>1, <2>1, <2>2, <3>2 DEF LastAbout
      <4>2. LastAbout(i, l) /\ l[i].param = p
        BY <1>1, <2>1, <2>2, <3>2 DEF LastAbout
      <4>3. l[i].value = value[p] /\ value'[p] = value[p]
        BY <1>2, <3>2, <4>1, <4>2 DEF Latest
      <4> QED BY <1>1, <3>2, <4>3
    <3> QED BY <1>3, <3>1, <3>2
  <2>3. ASSUME \A i \in 1 .. Len(m) : m[i].param # p
        PROVE  view[p] \in {NoValue, value'[p]}
    <3>1. a.param # p /\ \A i \in 1 .. Len(l) : l[i].param # p
      BY <1>1, <2>1, <2>3
    <3> QED BY <1>2, <3>1 DEF Latest
  <2> QED BY <2>2, <2>3
<1>6. Store!Tells
  <2>1. answers' = m /\ answers = l /\ a.param \in Ids
    BY DEF m, l, Answers
  <2> QED BY <1>1, <1>3, <2>1 DEF Store!Tells
<1> QED BY <1>1, <1>4, <1>5, <1>6 DEF AnswersInv, l, m

\* A list, of parameters with the values they have, each once.
LEMMA ListStep ==
  ASSUME AnswersInv, NEW new \in Seq(Answers), answers' = answers \o new,
         view' = view, value' = value,
         \A i \in 1 .. Len(new) : Right(new[i]) /\ new[i].value = value[new[i].param]
  PROVE  AnswersInv' /\ Store!Tells
<1> DEFINE l == answers
           m == answers \o new
           n == Len(answers)
           k == Len(new)
<1>1. /\ l \in Seq(Answers) /\ n \in Nat /\ k \in Nat /\ m \in Seq(Answers) /\ Len(m) = n + k
      /\ \A i \in 1 .. n : m[i] = l[i]
      /\ \A i \in 1 .. k : m[n + i] = new[i]
  BY DEF AnswersInv
<1>2. /\ \A i \in 1 .. n : Right(l[i])
      /\ Latest(l, view, value) /\ n = Len(l) /\ k = Len(new)
  BY DEF AnswersInv
<1> HIDE DEF l, m, n, k
<1>3. ASSUME NEW i \in 1 .. Len(m) PROVE i \in 1 .. n \/ \E j \in 1 .. k : i = n + j
  <2>1. CASE i > n
    <3>1. i - n \in 1 .. k /\ i = n + (i - n)
      BY <1>1, <2>1
    <3> QED BY <3>1
  <2> QED BY <1>1, <2>1
<1>4. \A i \in 1 .. Len(m) : Right(m[i])
  BY <1>1, <1>2, <1>3
<1>5. Latest(m, view, value)
  <2> SUFFICES ASSUME NEW p \in Ids \ Polled
               PROVE  /\ \A i \in 1 .. Len(m) :
                           m[i].param = p /\ LastAbout(i, m) => m[i].value = value[p]
                      /\ (\A i \in 1 .. Len(m) : m[i].param # p) => view[p] \in {NoValue, value[p]}
    BY DEF Latest
  <2>1. \A i \in 1 .. n : i \in 1 .. Len(m)
    BY <1>1
  <2>2. ASSUME NEW i \in 1 .. Len(m), m[i].param = p, LastAbout(i, m)
        PROVE  m[i].value = value[p]
    <3>1. ASSUME NEW j \in 1 .. k, i = n + j PROVE m[i].value = value[p]
      BY <1>1, <1>2, <2>2, <3>1
    <3>2. CASE i \in 1 .. n
      <4>1. LastAbout(i, l) /\ l[i].param = p
        BY <1>1, <1>2, <2>1, <2>2, <3>2 DEF LastAbout
      <4>2. m[i] = l[i]
        BY <1>1, <3>2
      <4>3. \A j \in 1 .. n : l[j].param = p /\ LastAbout(j, l) => l[j].value = value[p]
        BY <1>2 DEF Latest
      <4>4. l[i].value = value[p]
        BY <3>2, <4>1, <4>3
      <4> QED BY <4>2, <4>4
    <3> QED BY <1>3, <3>1, <3>2
  <2>3. ASSUME \A i \in 1 .. Len(m) : m[i].param # p
        PROVE  view[p] \in {NoValue, value[p]}
    <3>1. \A i \in 1 .. n : l[i].param # p
      BY <1>1, <2>1, <2>3
    <3> QED BY <1>2, <3>1 DEF Latest
  <2> QED BY <2>2, <2>3
<1>6. Store!Tells
  <2>1. answers' = m /\ answers = l
    BY DEF m, l
  <2>2. \A i \in 1 .. k : new[i].param \in Ids /\ new[i].value = value'[new[i].param]
    <3>1. \A i \in 1 .. Len(new) : new[i] \in Answers
      OBVIOUS
    <3> QED BY <1>2, <3>1 DEF Answers
  <2>3. ASSUME NEW i \in n + 1 .. Len(m)
        PROVE  m[i].param \in Ids /\ m[i].value = value'[m[i].param]
    <3>1. PICK j \in 1 .. k : i = n + j
      BY <1>1, <1>3
    <3>2. m[i] = new[j]
      BY <1>1, <3>1
    <3> QED BY <2>2, <3>2
  <2>4. n = Len(l) /\ Len(m) >= n
    BY <1>1, <1>2
  <2> QED BY <1>1, <2>1, <2>3, <2>4 DEF Store!Tells
<1> QED BY <1>1, <1>4, <1>5, <1>6 DEF AnswersInv, l, m

\* No more leave than the turn and the queue have.
LEMMA MinOfTurn ==
  ASSUME NEW k \in Nat
  PROVE  LET n == Min({PerTurn, k}) IN n \in {PerTurn, k} /\ n <= k /\ n <= PerTurn
<1>1. PerTurn \in Nat
  BY BoundsAssumption
<1>2. \E x \in {PerTurn, k} : \A y \in {PerTurn, k} : x <= y
  BY <1>1
<1>3. /\ Min({PerTurn, k}) \in {PerTurn, k}
      /\ \A y \in {PerTurn, k} : Min({PerTurn, k}) <= y
  BY <1>2 DEF Min
<1> QED BY <1>3

\* The first answers leave; the view takes the last of them about each parameter.
LEMMA SendStep ==
  ASSUME AnswersInv, send_answers
  PROVE  AnswersInv' /\ (Store!Deliver \/ UNCHANGED << answers, view >>)
<1> DEFINE l == answers
           n == Min({PerTurn, Len(answers)})
           m == SubSeq(l, n + 1, Len(l))
           About(p) == {i \in 1 .. n : l[i].param = p}
<1>1. /\ view' = [p \in Ids |-> IF About(p) = {} THEN view[p] ELSE l[Max(About(p))].value]
      /\ answers' = m /\ value' = value
  BY DEF send_answers
<1>2. /\ l \in Seq(Answers) /\ Len(l) \in Nat /\ \A i \in 1 .. Len(l) : Right(l[i]) /\ l[i] \in Answers
      /\ Latest(l, view, value) /\ view \in [Ids -> Values \cup {NoValue}]
  BY DEF AnswersInv
<1>3. n \in Nat /\ n <= Len(l)
  BY <1>2, BoundsAssumption, MinOfTurn
<1> HIDE DEF l, n
<1>4. /\ m \in Seq(Answers) /\ Len(m) = Len(l) - n
      /\ \A i \in 1 .. Len(m) : m[i] = l[i + n]
  BY <1>2, <1>3
<1> HIDE DEF m
<1>5. /\ \A i \in 1 .. Len(m) : i + n \in 1 .. Len(l)
      /\ \A i \in 1 .. Len(l) : i \in 1 .. n \/ (i - n \in 1 .. Len(m) /\ (i - n) + n = i)
      /\ \A i \in 1 .. n : i \in 1 .. Len(l)
  BY <1>2, <1>3, <1>4
<1>6. \A i \in 1 .. Len(m) : Right(m[i])
  BY <1>2, <1>4, <1>5
<1>7. ASSUME NEW p
      PROVE  About(p) # {} => /\ Max(About(p)) \in 1 .. n /\ l[Max(About(p))].param = p
                              /\ \A k \in About(p) : k <= Max(About(p))
  <2>1. About(p) \in SUBSET (1 .. n)
    OBVIOUS
  <2>2. About(p) # {} => Max(About(p)) \in About(p) /\ \A k \in About(p) : k <= Max(About(p))
    <3> HIDE DEF About
    <3> QED BY <1>3, <2>1, MaxFacts
  <2> QED BY <2>2
<1>8. view' \in [Ids -> Values \cup {NoValue}]
  <2>1. ASSUME NEW p \in Ids
        PROVE  (IF About(p) = {} THEN view[p] ELSE l[Max(About(p))].value) \in Values \cup {NoValue}
    <3>1. CASE About(p) = {}
      BY <1>2, <3>1
    <3>2. CASE About(p) # {}
      <4>1. Max(About(p)) \in 1 .. Len(l)
        BY <1>5, <1>7, <3>2
      <4>2. l[Max(About(p))] \in Answers
        BY <1>2, <4>1
      <4> QED BY <3>2, <4>2 DEF Answers
    <3> QED BY <3>1, <3>2
  <2> HIDE DEF About
  <2> QED BY <1>1, <2>1
<1>9. Latest(m, view', value)
  <2> SUFFICES ASSUME NEW p \in Ids \ Polled
               PROVE  /\ \A i \in 1 .. Len(m) :
                           m[i].param = p /\ LastAbout(i, m) => m[i].value = value[p]
                      /\ (\A i \in 1 .. Len(m) : m[i].param # p) => view'[p] \in {NoValue, value[p]}
    BY DEF Latest
  <2>1. ASSUME NEW i \in 1 .. Len(m), m[i].param = p, LastAbout(i, m)
        PROVE  m[i].value = value[p]
    <3>1. ASSUME NEW j \in 1 .. Len(l), j > i + n PROVE l[j].param # p
      <4>1. j - n \in 1 .. Len(m) /\ (j - n) + n = j /\ j - n > i
        BY <1>3, <1>5, <3>1
      <4>2. m[j - n] = l[j] /\ m[j - n].param # m[i].param
        BY <1>4, <2>1, <4>1 DEF LastAbout
      <4> QED BY <2>1, <4>2
    <3>2. LastAbout(i + n, l) /\ l[i + n].param = p /\ i + n \in 1 .. Len(l)
      BY <1>4, <1>5, <2>1, <3>1 DEF LastAbout
    <3>3. l[i + n].value = value[p]
      BY <1>2, <3>2 DEF Latest
    <3> QED BY <1>4, <3>3
  <2>2. ASSUME \A i \in 1 .. Len(m) : m[i].param # p
        PROVE  view'[p] \in {NoValue, value[p]}
    <3>1. \A i \in 1 .. Len(l) : l[i].param = p => i \in 1 .. n
      BY <1>4, <1>5, <2>2
    <3>2. CASE About(p) = {}
      <4>1. \A i \in 1 .. Len(l) : l[i].param # p
        BY <3>1, <3>2
      <4>2. view'[p] = view[p]
        BY <1>1, <3>2
      <4> QED BY <1>2, <4>1, <4>2 DEF Latest
    <3>3. CASE About(p) # {}
      <4> DEFINE k == Max(About(p))
      <4>1. /\ k \in 1 .. n /\ k \in 1 .. Len(l) /\ l[k].param = p
            /\ \A j \in About(p) : j <= k
        BY <1>5, <1>7, <3>3
      <4>2. view'[p] = l[k].value
        BY <1>1, <3>3
      <4> HIDE DEF k
      <4>3. ASSUME NEW j \in 1 .. Len(l), j > k PROVE l[j].param # p
        <5>1. l[j].param = p => j \in About(p)
          BY <3>1
        <5> QED BY <1>3, <4>1, <4>3, <5>1
      <4>4. l[k].value = value[p]
        BY <1>2, <4>1, <4>3 DEF Latest, LastAbout
      <4> QED BY <4>2, <4>4
    <3> QED BY <3>2, <3>3
  <2> QED BY <2>1, <2>2
<1>10. CASE n = 0
  <2>1. answers' = answers
    BY <1>1, <1>2, <1>10 DEF l, m
  <2>2. \A p \in Ids : About(p) = {}
    BY <1>10
  <2>3. view' = view
    <3> HIDE DEF About
    <3> QED BY <1>1, <1>2, <2>2
  <2> QED BY <1>1, <1>4, <1>6, <1>8, <1>9, <2>1, <2>3 DEF AnswersInv
<1>11. CASE n # 0
  <2>1. n \in 1 .. PerTurn /\ n <= Len(answers)
    BY <1>2, <1>3, <1>11, MinOfTurn DEF l, n
  <2>2. answers' = SubSeq(answers, n + 1, Len(answers))
    BY <1>1 DEF m, l
  <2>3. UNCHANGED << value, [p \in Ids |-> Target(p)], {p \in Ids : accepted[p] # NoValue} >>
    BY DEF send_answers, Target, Waiting
  <2>4. view' = [p \in Ids |-> view'[p]]
    <3> HIDE DEF About
    <3> QED BY <1>8
  <2>5. ASSUME NEW p \in Ids
        PROVE  \/ view'[p] = view[p] /\ \A i \in 1 .. n : answers[i].param # p
               \/ \E i \in 1 .. n : Store!Last(p, i, n) /\ view'[p] = answers[i].value
    <3>1. CASE About(p) = {}
      <4>1. view'[p] = view[p]
        BY <1>1, <3>1
      <4> QED BY <3>1, <4>1 DEF l
    <3>2. CASE About(p) # {}
      <4> DEFINE k == Max(About(p))
      <4>1. /\ k \in 1 .. n /\ l[k].param = p
            /\ \A j \in About(p) : j <= k
        BY <1>7, <3>2
      <4>2. view'[p] = l[k].value
        BY <1>1, <3>2
      <4> HIDE DEF k
      <4>3. \A j \in k + 1 .. n : l[j].param # p
        BY <1>3, <4>1
      <4> QED BY <4>1, <4>2, <4>3 DEF Store!Last, l
    <3> QED BY <3>1, <3>2
  <2> HIDE DEF About
  <2>6. Store!Deliver
    BY <2>1, <2>2, <2>3, <2>4, <2>5 DEF Store!Deliver
  <2> QED BY <1>1, <1>4, <1>6, <1>8, <1>9, <2>6 DEF AnswersInv
<1> QED BY <1>10, <1>11

\* Steps that answer nothing and leave what only clients change.
LEMMA QuietStep ==
  ASSUME AnswersInv, UNCHANGED << answers, view >>,
         \A q \in Ids \ Polled : value'[q] = value[q]
  PROVE  AnswersInv' /\ Store!Tells
<1>1. Len(answers) \in Nat
  BY DEF AnswersInv
<1> QED BY <1>1 DEF AnswersInv, Latest, Store!Tells

-----------------------------------------------------------------------------
LEMMA ReadStep ==
  ASSUME IInv, AnswersInv, process_param_request_read
  PROVE  AnswersInv' /\ Store!Tells
<1>1. UNCHANGED << value, view >>
  BY DEF process_param_request_read, Handled
<1>2. CASE UNCHANGED answers
  BY <1>1, <1>2, QuietStep
<1>3. CASE ~UNCHANGED answers
  <2> DEFINE found == IF msg.op = "read_id" THEN LookupId(msg.id, msg.ext)
                      ELSE LookupIndex(msg.index, msg.ext)
             asked == IF msg.op = "read_id" THEN NoIndex ELSE msg.index
  <2>1. /\ msg.op \in {"read_id", "read_index"}
        /\ \E p \in found : answers' = Append(answers, ValueAnswer(p, msg.ext, value[p], asked))
    BY <1>3 DEF process_param_request_read
  <2>2. msg.ext \in BOOLEAN /\ asked \in Int
    <3>1. N \in Nat /\ msg \in Requests
      <4>1. N \in Nat
        BY ParamsAssumption DEF N
      <4>2. msg # Heartbeat
        BY <2>1 DEF Heartbeat
      <4> QED BY <4>1, <4>2 DEF IInv, CoreType
    <3>2. /\ msg.ext \in BOOLEAN
          /\ msg.op = "read_index" => msg.index \in 0 .. N
      BY <3>1 DEF Requests
    <3> QED BY <2>1, <3>1, <3>2 DEF NoIndex
  <2>3. PICK p \in found : answers' = Append(answers, ValueAnswer(p, msg.ext, value[p], asked))
    BY <2>1
  <2>4. p \in Shown(msg.ext)
    BY DEF LookupId, LookupIndex
  <2> HIDE DEF asked, found
  <2>5. value[p] \in Values
    BY <2>2, <2>4, ShownFacts DEF IInv, CoreType
  <2> DEFINE a == ValueAnswer(p, msg.ext, value[p], asked)
  <2>6. a \in Answers /\ Right(a) /\ a.param = p /\ a.value = value[p]
    BY <2>2, <2>4, <2>5, ValueAnswered
  <2>7. answers' = Append(answers, a)
    BY <2>3
  <2> HIDE DEF a
  <2> QED BY <1>1, <2>6, <2>7, AppendStep
<1> QED BY <1>2, <1>3

LEMMA ListedStep ==
  ASSUME IInv, AnswersInv, process_param_request_list
  PROVE  AnswersInv' /\ Store!Tells
<1>1. UNCHANGED << value, view >> /\ msg.op = "list"
  BY DEF process_param_request_list, Handled, Handling
<1>2. CASE UNCHANGED answers
  BY <1>1, <1>2, QuietStep
<1>3. CASE ~UNCHANGED answers
  <2> DEFINE list == Listed(msg.ext)
             new == [i \in 1 .. Len(list) |->
                       [ValueAnswer(list[i], msg.ext, value[list[i]], NoIndex) EXCEPT !.index = i - 1]]
  <2>1. answers' = answers \o new
    BY <1>3 DEF process_param_request_list
  <2>2. msg.ext \in BOOLEAN
    BY <1>1 DEF IInv, CoreType, Requests, Heartbeat
  <2>3. /\ list \in Seq(Shown(msg.ext)) /\ Len(list) \in Nat
        /\ \A i \in 1 .. Len(list) : list[i] \in Shown(msg.ext) /\ IndexOf(list[i], msg.ext) = i - 1
    BY <2>2, ListedFacts
  <2> HIDE DEF list
  <2>4. ASSUME NEW i \in 1 .. Len(list)
        PROVE  new[i] \in Answers /\ Right(new[i]) /\ new[i].value = value[new[i].param]
    <3> DEFINE p == list[i]
               a == ValueAnswer(p, msg.ext, value[p], NoIndex)
    <3>1. p \in Shown(msg.ext) /\ IndexOf(p, msg.ext) = i - 1
      BY <2>3
    <3>2. value[p] \in Values /\ NoIndex \in Int
      BY <2>2, <3>1, ShownFacts DEF IInv, CoreType, NoIndex
    <3>3. a \in Answers /\ Right(a) /\ a.param = p /\ a.value = value[p] /\ a.index = i - 1
      <4> HIDE DEF p
      <4> QED BY <2>2, <3>1, <3>2, ValueAnswered
    <3>4. new[i] = [a EXCEPT !.index = i - 1]
      OBVIOUS
    <3> HIDE DEF a, p, new
    <3>5. [a EXCEPT !.index = i - 1] = a
      BY <3>3 DEF Answers
    <3> QED BY <3>3, <3>4, <3>5
  <2>5. new \in Seq(Answers) /\ Len(new) = Len(list)
    <3>1. new \in [1 .. Len(list) -> Answers]
      BY <2>4
    <3>2. DOMAIN new = 1 .. Len(list)
      OBVIOUS
    <3> HIDE DEF new
    <3> QED BY <2>3, <3>1, <3>2
  <2> HIDE DEF new
  <2> QED BY <1>1, <2>1, <2>4, <2>5, ListStep
<1> QED BY <1>2, <1>3

LEMMA SetStep ==
  ASSUME IInv, AnswersInv,
         \/ process_param_set_missing \/ process_param_set_wrong_type
         \/ process_param_set_success \/ process_param_set_no_update
  PROVE  AnswersInv' /\ Store!Tells
<1>0. CoreType /\ value \in [Ids -> Values]
  BY DEF IInv, CoreType
<1>1. CASE process_param_set_missing
  BY <1>1, QuietStep DEF process_param_set_missing, Handled
<1>2. CASE process_param_set_wrong_type
  <2> DEFINE a == SetAnswer(msg.id, value[msg.id], "FAILED")
  <2>1. /\ msg.op = "set" /\ msg.id \in Shown(msg.ext) /\ msg.id # Unknown
        /\ UNCHANGED << value, view >>
        /\ answers' = Append(answers, a)
    BY <1>2 DEF process_param_set_wrong_type, Handling, Handled, Shown, Ids, Unknown
  <2>2. msg.id \in Ids
    BY <1>0, <2>1 DEF CoreType, Requests, Heartbeat
  <2>3. value[msg.id] \in Values
    BY <1>0, <2>2
  <2>4. a \in Answers /\ Right(a) /\ a.param = msg.id /\ a.value = value[msg.id]
    BY <1>0, <2>1, <2>3, SetAnswered
  <2> HIDE DEF a
  <2> QED BY <2>1, <2>4, AppendStep
<1>3. CASE process_param_set_no_update
  <2> DEFINE ack == IF msg.value = value[msg.id] THEN "ACCEPTED" ELSE "VALUE_UNSUPPORTED"
             a == SetAnswer(msg.id, value[msg.id], ack)
  <2>1. /\ msg.op = "set" /\ msg.id # Unknown /\ msg.value # WrongType /\ view' = view
        /\ answers' = Append(answers, a)
    BY <1>3 DEF process_param_set_no_update, Handling, Handled
  <2>2. value' = value
    BY <1>3, NotUpdatedEffect DEF process_param_set_no_update
  <2>3. msg.id \in Ids
    BY <1>0, <2>1 DEF CoreType, Requests, Heartbeat
  <2>4. value[msg.id] \in Values /\ ack \in {"ACCEPTED", "FAILED", "VALUE_UNSUPPORTED"}
    BY <1>0, <2>3
  <2> HIDE DEF ack
  <2>5. a \in Answers /\ Right(a) /\ a.param = msg.id /\ a.value = value[msg.id]
    BY <1>0, <2>1, <2>4, SetAnswered
  <2> HIDE DEF a
  <2> QED BY <2>1, <2>2, <2>5, AppendStep
<1>4. CASE process_param_set_success
  <2> DEFINE a == SetAnswer(msg.id, msg.value, "ACCEPTED")
  <2>1. /\ msg.op = "set" /\ msg.id # Unknown /\ msg.value # WrongType /\ view' = view
        /\ answers' = Append(answers, a) /\ value' = [value EXCEPT ![msg.id] = msg.value]
    BY <1>4 DEF process_param_set_success, Handling, Handled, Updated
  <2>2. msg.id \in Ids /\ msg.value \in Values
    BY <1>0, <2>1 DEF CoreType, Requests, Heartbeat
  <2>3. a \in Answers /\ Right(a) /\ a.param = msg.id /\ a.value = msg.value
    BY <1>0, <2>1, <2>2, SetAnswered
  <2> HIDE DEF a
  <2>4. /\ value'[msg.id] = msg.value
        /\ \A q \in Ids \ Polled : q # msg.id => value'[q] = value[q]
    BY <1>0, <2>1, <2>2
  <2> QED BY <2>1, <2>3, <2>4, AppendStep
<1> QED BY <1>1, <1>2, <1>3, <1>4

\* The poll changes only what it polls.
LEMMA PollStep ==
  ASSUME IInv, AnswersInv, poll_update
  PROVE  AnswersInv'
<1>1. at \in Polled /\ value \in [Ids -> Values] /\ UNCHANGED << answers, view >>
  BY DEF poll_update, answerVars, IInv, CoreType
<1>2. value' = value \/ value' = [value EXCEPT ![at] = polled]
  BY NotUpdatedEffect DEF poll_update, Updated
<1>3. \A q \in Ids \ Polled : value'[q] = value[q]
  BY <1>1, <1>2
<1> QED BY <1>1, <1>3, QuietStep

LEMMA AnswersPreserved == IInv /\ AnswersInv /\ [Next]_vars => AnswersInv'
<1> SUFFICES ASSUME IInv, AnswersInv, [Next]_vars PROVE AnswersInv'
  OBVIOUS
<1>1. CASE HandleMessage
  <2>1. CASE ignore_message \/ process_param_set_hidden
    BY <2>1, QuietStep DEF ignore_message, Handled, process_param_set_hidden, answerVars
  <2> QED BY <1>1, <2>1, SetStep, ReadStep, ListedStep DEF HandleMessage
<1>2. CASE poll_update
  BY <1>2, PollStep
<1>3. CASE send_answers
  BY <1>3, SendStep
<1>4. ASSUME UNCHANGED << value, answers, view >> PROVE AnswersInv'
  BY <1>4, QuietStep
<1>5. CASE (\E p \in Polled : poll_get(p)) \/ poll_done \/ set_ready \/ a_second_passes
  BY <1>4, <1>5 DEF poll_get, poll_done, set_ready, a_second_passes, answerVars
<1>6. CASE receive(Heartbeat) \/ NewRequest
  BY <1>4, <1>6 DEF receive, receive_another, NewRequest, Take, answerVars
<1>7. CASE \/ worker_begin \/ worker_end \/ schedule_other
           \/ \E p \in Polled, v \in Values : link_adopts(p, v)
  BY <1>4, <1>7 DEF worker_begin, worker_end, schedule_other, link_adopts, answerVars
<1>8. CASE UNCHANGED vars
  BY <1>4, <1>8 DEF vars, answerVars
<1> QED BY <1>1, <1>2, <1>3, <1>5, <1>6, <1>7, <1>8 DEF Next, ProcessStep

LEMMA AnswersStart == Init => AnswersInv
  BY DEF Init, AnswersInv, Latest

LEMMA AnswersHold == AnswersInv => AnswersAgree
<1> SUFFICES ASSUME AnswersInv PROVE AnswersAgree
  OBVIOUS
<1>1. /\ answers \in Seq(Answers) /\ Len(answers) \in Nat
      /\ \A i \in 1 .. Len(answers) : Right(answers[i]) /\ answers[i] \in Answers
      /\ Latest(answers, view, value)
  BY DEF AnswersInv
<1>2. LatestAnswerCurrent
  <2> SUFFICES ASSUME NEW p \in Ids \ Polled
               PROVE  IF AnswersAbout(p) # {} THEN answers[Max(AnswersAbout(p))].value = value[p]
                      ELSE view[p] \in {NoValue, value[p]}
    BY DEF LatestAnswerCurrent
  <2>1. CASE AnswersAbout(p) # {}
    <3> DEFINE m == Max(AnswersAbout(p))
    <3>1. AnswersAbout(p) \in SUBSET (1 .. Len(answers))
      BY DEF AnswersAbout
    <3>2. m \in AnswersAbout(p) /\ \A k \in AnswersAbout(p) : k <= m
      BY <1>1, <2>1, <3>1, MaxFacts
    <3> HIDE DEF m
    <3>3. m \in 1 .. Len(answers) /\ answers[m].param = p
      BY <3>2 DEF AnswersAbout
    <3>4. \A j \in 1 .. Len(answers) : answers[j].param = p => ~(j > m)
      BY <3>2, <3>3 DEF AnswersAbout
    <3>5. answers[m].value = value[p]
      BY <1>1, <3>3, <3>4 DEF Latest, LastAbout
    <3> QED BY <2>1, <3>5 DEF m
  <2>2. CASE AnswersAbout(p) = {}
    <3>1. \A i \in 1 .. Len(answers) : answers[i].param # p
      BY <2>2 DEF AnswersAbout
    <3> QED BY <1>1, <2>2, <3>1 DEF Latest
  <2> QED BY <2>1, <2>2
<1>3. IndexIdentifies
  <2> SUFFICES ASSUME NEW i \in 1 .. Len(answers), NEW j \in 1 .. Len(answers),
                      answers[i].ack = "none", answers[j].ack = "none",
                      answers[i].ext = answers[j].ext
               PROVE  answers[i].param = answers[j].param <=> answers[i].index = answers[j].index
    BY DEF IndexIdentifies
  <2> DEFINE a == answers[i]
             b == answers[j]
  <2>1. /\ a.ext \in BOOLEAN /\ a.ext = b.ext
        /\ a.param \in Shown(a.ext) /\ a.index = IndexOf(a.param, a.ext)
        /\ b.param \in Shown(a.ext) /\ b.index = IndexOf(b.param, a.ext)
    BY <1>1 DEF Right, Answers
  <2> HIDE DEF a, b
  <2>2. a.param = b.param <=> a.index = b.index
    BY <2>1, IndexInjective
  <2> QED BY <2>2 DEF a, b
<1> QED BY <1>2, <1>3 DEF AnswersAgree

\* What clients are told identifies a parameter and its value: the last answer
\* about a parameter that only clients change carries what the unit uses, and
\* within one protocol an index stands for one parameter, in lists, reads and
\* sets (MavlinkParameterReceiver, MavlinkParameterSet).
THEOREM AnswersAreTrue == Spec => []AnswersAgree
<1>1. Init => IInv /\ AnswersInv
  BY InitInv, AnswersStart
<1>2. IInv /\ AnswersInv /\ [Next]_vars => IInv' /\ AnswersInv'
  BY StepInv, AnswersPreserved
<1> QED BY <1>1, <1>2, AnswersHold, PTL DEF Spec

-----------------------------------------------------------------------------
(***************************************************************************)
(* The refinement: poll, messages, worker and link together are a store.   *)
(***************************************************************************)
use == [p \in Ids |-> Target(p)]
mine == {p \in Ids : accepted[p] # NoValue}

LEMMA UseFrame ==
  ASSUME UNCHANGED << setting, work >> PROVE use' = use
BY DEF use, Target, Waiting

LEMMA UseChanges ==
  ASSUME NEW p \in Ids, NEW v, Target(p)' = v,
         \A q \in Ids \ {p} : Target(q)' = Target(q)
  PROVE  use' = [use EXCEPT ![p] = v]
<1>1. use' = [q \in Ids |-> IF q = p THEN v ELSE Target(q)]
  <2>1. \A q \in Ids : Target(q)' = IF q = p THEN v ELSE Target(q)
    OBVIOUS
  <2>2. use' = [q \in Ids |-> Target(q)']
    BY DEF use
  <2> QED BY <2>1, <2>2
<1> QED BY <1>1 DEF use

\* A successful set is one Set of the store.
LEMMA SetsTheStore ==
  ASSUME IInv, AnswersInv, process_param_set_success PROVE Store!Set
<1>1. PICK p \in Ids, v \in Values : p = msg.id /\ v = msg.value
  BY DEF process_param_set_success, Handling, IInv, CoreType, Requests, Heartbeat
<1>2. /\ Updated(p, v) /\ msg.op = "set" /\ msg.id # Unknown /\ msg.value # WrongType
      /\ accepted' = [accepted EXCEPT ![p] = v] /\ view' = view
      /\ answers' = Append(answers, SetAnswer(msg.id, v, "ACCEPTED"))
  BY <1>1 DEF process_param_set_success, Handling, Handled
<1>3. v # value[p] /\ value' = [value EXCEPT ![p] = v]
  BY <1>2 DEF Updated
<1>4. use' = [use EXCEPT ![p] = v]
  <2>1. Target(p)' = v /\ \A q \in Ids \ {p} : Target(q)' = Target(q)
    BY <1>2, UpdatedEffect DEF IInv
  <2> QED BY <2>1, UseChanges
<1>5. mine' = mine \cup {p}
  <2>1. v # NoValue /\ accepted \in [Ids -> Values \cup {NoValue}]
    BY ValuesAssumption DEF IInv, CoreType
  <2> QED BY <1>2, <2>1 DEF mine
<1>6. Len(answers') = Len(answers) + 1 /\ answers'[Len(answers')].param = p
  <2> DEFINE a == SetAnswer(msg.id, v, "ACCEPTED")
  <2>1. a \in Answers /\ a.param = msg.id
    BY <1>2, SetAnswered DEF IInv
  <2>2. answers' = Append(answers, a)
    BY <1>2
  <2> HIDE DEF a
  <2> QED BY <1>1, <2>1, <2>2 DEF AnswersInv
<1>7. Store!Tells
  BY SetStep
<1> QED BY <1>2, <1>3, <1>4, <1>5, <1>6, <1>7 DEF Store!Set, use, mine

\* Every other message tells what is there.
LEMMA TellsTheStore ==
  ASSUME IInv, AnswersInv,
         \/ process_param_set_missing \/ process_param_set_wrong_type
         \/ process_param_set_no_update \/ process_param_request_read
         \/ process_param_request_list \/ ignore_message
  PROVE  Store!Tell
<1>1. UNCHANGED << value, setting, work, accepted, view >>
  BY NotUpdatedEffect DEF process_param_set_missing, process_param_set_wrong_type,
     process_param_set_no_update, process_param_request_read, process_param_request_list,
     ignore_message, Handled
<1>2. Store!Tells
  BY <1>1, SetStep, ReadStep, ListedStep, QuietStep DEF ignore_message
<1>3. use' = use /\ mine' = mine
  BY <1>1, UseFrame DEF mine
<1> QED BY <1>1, <1>2, <1>3 DEF Store!Tell, use, mine

\* A poll that updates follows the program where no client's value stands.
LEMMA FollowsTheStore ==
  ASSUME IInv, poll_update
  PROVE  Store!Follow \/ UNCHANGED << value, use, mine, answers, view >>
<1>1. PICK p \in Ids, v \in Values : p = at /\ v = polled
  BY DEF poll_update, IInv, CoreType, Polled
<1>2. /\ p \in Polled /\ pc = "update"
      /\ UNCHANGED << accepted, answers, view >>
  BY <1>1 DEF poll_update, answerVars, IInv, CoreType
<1>3. mine' = mine
  BY <1>2 DEF mine
<1>4. CASE Updated(p, v)
  <2>1. value' = [value EXCEPT ![p] = v]
    BY <1>4 DEF Updated
  <2>2. /\ ~Waiting(p) /\ Target(p)' = v
        /\ \A q \in Ids \ {p} : Target(q)' = Target(q)
    BY <1>4, UpdatedEffect DEF IInv
  <2>3. p \notin mine
    BY <1>1, <1>2, <2>2 DEF IInv, PollRefused, Waiting, mine
  <2>4. use' = [use EXCEPT ![p] = v]
    BY <2>2, UseChanges
  <2> QED BY <1>2, <1>3, <2>1, <2>3, <2>4 DEF Store!Follow, use, mine
<1>5. CASE NotUpdated(p, v)
  BY <1>2, <1>3, <1>5, NotUpdatedEffect, UseFrame
<1> QED BY <1>1, <1>4, <1>5 DEF poll_update

\* The worker makes true what its item promised.
LEMMA WorkerKeepsUse ==
  ASSUME IInv, worker_begin \/ worker_end \/ schedule_other
  PROVE  use' = use
<1>1. \A p \in Ids : Target(p)' = Target(p)
  <2>1. CASE worker_begin
    <3>1. work \in SetItems \cup OtherItems /\ work' = [work EXCEPT !.running = TRUE]
      BY <2>1 DEF worker_begin, IInv, CoreType
    <3>2. CASE work \in SetItems
      <4>1. /\ work'.id = work.id /\ work'.value = work.value
            /\ work.op = "set" /\ work'.op = "set" /\ work.id \in Ids
            /\ setting' = [setting EXCEPT ![work.id] = work.value]
        BY <2>1, <3>1, <3>2 DEF worker_begin, SetItems
      <4> QED BY <4>1 DEF IInv, CoreType, Target, Waiting
    <3>3. CASE work \in OtherItems
      <4>1. work.op = "other" /\ work'.op = "other" /\ setting' = setting
        BY <2>1, <3>1, <3>3 DEF worker_begin, OtherItems
      <4> QED BY <4>1 DEF Target, Waiting
    <3> QED BY <3>1, <3>2, <3>3
  <2>2. CASE worker_end
    <3>1. /\ work' = NoItem /\ setting' = setting
          /\ work.op = "set" => setting[work.id] = work.value
      BY <2>2 DEF worker_end, IInv, ItemSound
    <3> QED BY <3>1 DEF Target, Waiting, NoItem
  <2>3. CASE schedule_other
    <3>1. work = NoItem /\ work'.op = "other" /\ setting' = setting
      BY <2>3 DEF schedule_other
    <3> QED BY <3>1 DEF Target, Waiting, NoItem
  <2> QED BY <2>1, <2>2, <2>3
<1> QED BY <1>1 DEF use

\* What the link finds is adopted, or overruled by the item that waits.
LEMMA AdoptsInStore ==
  ASSUME IInv, NEW p \in Polled, NEW v \in Values, link_adopts(p, v)
  PROVE  Store!Adopt \/ UNCHANGED << value, use, mine, answers, view >>
<1>1. /\ p \in Ids /\ setting' = [setting EXCEPT ![p] = v]
      /\ accepted' = IF Waiting(p) THEN accepted ELSE [accepted EXCEPT ![p] = NoValue]
      /\ UNCHANGED << value, work, answers, view >>
  BY DEF link_adopts, answerVars, Polled
<1>2. setting \in [Ids -> Values] /\ accepted \in [Ids -> Values \cup {NoValue}]
  BY DEF IInv, CoreType
<1>3. CASE Waiting(p)
  <2>1. \A q \in Ids : Target(q)' = Target(q)
    BY <1>1, <1>2, <1>3 DEF Target, Waiting
  <2> QED BY <1>1, <1>3, <2>1 DEF use, mine
<1>4. CASE ~Waiting(p)
  <2>1. Target(p)' = v /\ \A q \in Ids \ {p} : Target(q)' = Target(q)
    BY <1>1, <1>2, <1>4 DEF Target, Waiting
  <2>2. use' = [use EXCEPT ![p] = v]
    BY <1>1, <2>1, UseChanges
  <2>3. mine' = mine \ {p}
    BY <1>1, <1>2, <1>4 DEF mine
  <2> QED BY <1>1, <2>2, <2>3 DEF Store!Adopt, use, mine
<1> QED BY <1>3, <1>4

LEMMA StepOfStore ==
  IInv /\ AnswersInv /\ [Next]_vars => [Store!Next]_(Store!storevars)
<1> SUFFICES ASSUME IInv, AnswersInv, [Next]_vars
             PROVE  Store!Next \/ UNCHANGED << value, use, mine, answers, view >>
  BY DEF Store!storevars, use, mine
<1>1. CASE HandleMessage /\ ~process_param_set_hidden
  BY <1>1, SetsTheStore, TellsTheStore DEF HandleMessage, Store!Next
<1>2. CASE poll_update
  BY <1>2, FollowsTheStore DEF Store!Next
<1>3. CASE send_answers
  <2>1. UNCHANGED << value, setting, work, accepted >>
    BY <1>3 DEF send_answers
  <2>2. use' = use /\ mine' = mine
    BY <2>1, UseFrame DEF mine
  <2> QED BY <1>3, <2>1, <2>2, SendStep DEF Store!Next
<1>4. CASE worker_begin \/ worker_end \/ schedule_other
  <2>1. UNCHANGED << value, accepted, answers, view >>
    BY <1>4 DEF worker_begin, worker_end, schedule_other, answerVars
  <2> QED BY <1>4, <2>1, WorkerKeepsUse DEF mine
<1>5. CASE \E p \in Polled, v \in Values : link_adopts(p, v)
  BY <1>5, AdoptsInStore DEF Store!Next
<1>6. ASSUME UNCHANGED << value, setting, work, accepted, answers, view >>
      PROVE  UNCHANGED << value, use, mine, answers, view >>
  BY <1>6, UseFrame DEF mine
<1>7. CASE \/ \E p \in Polled : poll_get(p)
           \/ poll_done \/ set_ready \/ a_second_passes \/ process_param_set_hidden
           \/ receive(Heartbeat) \/ NewRequest \/ UNCHANGED vars
  BY <1>6, <1>7 DEF process_param_set_hidden, poll_get, poll_done,
     set_ready, a_second_passes, receive, receive_another,
     NewRequest, Take, vars, answerVars
<1> QED BY <1>1, <1>2, <1>3, <1>4, <1>5, <1>7 DEF Next, ProcessStep

\* For every parameter set, all values and any number of requests and changes, the
\* telemetry thread's poll and messages, the link's worker and the link itself
\* implement a store: a set takes effect and is told at one moment although its item
\* is stored later, and the poll never takes back what a client has set.
THEOREM ImplementsStore == Spec => ActsLikeAStore
<1>1. Init => Store!Init
  <2> SUFFICES ASSUME Init PROVE Store!Init
    OBVIOUS
  <2>1. /\ value = Defaults /\ setting = Defaults /\ accepted = Defaults /\ work = NoItem
        /\ answers = << >> /\ view = [p \in Ids |-> NoValue]
    BY DEF Init
  <2>2. Defaults \in [Ids -> Values] /\ NoValue \notin Values
    BY ValuesAssumption
  <2>3. [p \in Ids |-> Target(p)] = value
    BY <2>1, <2>2 DEF Target, Waiting, NoItem
  <2>4. {p \in Ids : accepted[p] # NoValue} = Ids
    BY <2>1, <2>2
  <2> QED BY <2>1, <2>2, <2>3, <2>4 DEF Store!Init
<1>2. Init => IInv /\ AnswersInv
  BY InitInv, AnswersStart
<1>3. IInv /\ AnswersInv /\ [Next]_vars => IInv' /\ AnswersInv'
  BY StepInv, AnswersPreserved
<1> QED BY <1>1, <1>2, <1>3, StepOfStore, AcceptedIsKept, PTL DEF Spec, ActsLikeAStore, Store!Spec

=============================================================================
