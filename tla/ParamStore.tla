----------------------------- MODULE ParamStore -----------------------------
(***************************************************************************)
(* What the parameter server of a unit promises its clients: a store. A    *)
(* value that a client has set is used and told from then on; the program  *)
(* itself may change some parameters, and what it uses of these is told    *)
(* later, but nothing takes back what a client has set since. Letters are  *)
(* delivered in the order in which they were written.                      *)
(***************************************************************************)
EXTENDS Integers, Sequences

CONSTANTS Ids, Values, NoValue,
          Changing,  \* parameters that the program may change itself
          PerTurn    \* letters delivered at a time

VARIABLES store,  \* the value told of each parameter
          use,    \* the value in use, or on its way to be
          mine,   \* parameters whose value is a client's (or was there before)
          mail,   \* letters about a parameter and its value, not delivered yet
          told    \* the value in the last letter delivered about each parameter

storevars == << store, use, mine, mail, told >>

Init == /\ store \in [Ids -> Values] /\ use = store /\ mine = Ids
        /\ mail = << >> /\ told = [p \in Ids |-> NoValue]

\* The letters written in this step tell what is in the store after it.
Tells ==
  /\ Len(mail') >= Len(mail)
  /\ \A i \in 1 .. Len(mail) : mail'[i] = mail[i]
  /\ \A i \in Len(mail) + 1 .. Len(mail') :
       mail'[i].param \in Ids /\ mail'[i].value = store'[mail'[i].param]

\* A client sets a parameter, and one letter says so.
Set ==
  /\ \E p \in Ids, v \in Values :
       /\ v # store[p]
       /\ store' = [store EXCEPT ![p] = v] /\ use' = [use EXCEPT ![p] = v]
       /\ mine' = mine \cup {p}
       /\ Len(mail') = Len(mail) + 1 /\ mail'[Len(mail')].param = p
  /\ Tells /\ UNCHANGED told

\* A client asks, or asks for what is refused.
Tell == Tells /\ UNCHANGED << store, use, mine, told >>

\* The program uses another value than the store has.
Adopt ==
  /\ \E p \in Changing, v \in Values : use' = [use EXCEPT ![p] = v] /\ mine' = mine \ {p}
  /\ UNCHANGED << store, mail, told >>

\* The store follows the program, but never where a client has set a value since.
Follow ==
  /\ \E p \in Changing \ mine, v \in Values :
       store' = [store EXCEPT ![p] = v] /\ use' = [use EXCEPT ![p] = v]
  /\ UNCHANGED << mine, mail, told >>

Last(p, i, n) == mail[i].param = p /\ \A j \in i + 1 .. n : mail[j].param # p

Deliver ==
  /\ \E n \in 1 .. PerTurn :
       /\ n <= Len(mail)
       /\ mail' = SubSeq(mail, n + 1, Len(mail))
       /\ told' = [p \in Ids |-> told'[p]]
       /\ \A p \in Ids :
            \/ told'[p] = told[p] /\ \A i \in 1 .. n : mail[i].param # p
            \/ \E i \in 1 .. n : Last(p, i, n) /\ told'[p] = mail[i].value
  /\ UNCHANGED << store, use, mine >>

Next == Set \/ Tell \/ Adopt \/ Follow \/ Deliver

Spec == Init /\ [][Next]_storevars
=============================================================================
