------------------------------ MODULE ListProofs ------------------------------
(***************************************************************************)
(* The two functions that ask for a number, make room for it and ask       *)
(* again: poll_all, for all numbers of objects and descriptors, and        *)
(* elem_list, for every set of elements.                                   *)
(***************************************************************************)
EXTENDS PollAll, ElemList, FiniteSetTheorems, SequenceTheorems, TLAPS

-----------------------------------------------------------------------------
(* poll_all                                                                *)

PollTypeOK ==
  /\ has \in [Object -> Nat] /\ room \in Nat
  /\ pollfds \in Seq(Nat \X Nat) /\ indices \in Seq(Nat \X Nat)
  /\ revents \subseteq DOMAIN pollfds

\* Whose turn it is: there is an object to fill, and none is left to poll.
Turns == /\ Len(indices) <= Objects
         /\ pc = "fill" => Len(indices) < Objects
         /\ pc \in {"revents", "done"} => Len(indices) = Objects

\* The parts of the objects share no entry and leave none out: an entry is in
\* an object's part when it is a descriptor of that object.
Parts ==
  /\ \A k \in DOMAIN pollfds : pollfds[k][1] \in DOMAIN indices
  /\ \A o \in DOMAIN indices :
       /\ indices[o][2] <= Len(pollfds)
       /\ \A k \in DOMAIN pollfds :
            indices[o][1] < k /\ k <= indices[o][2] <=> pollfds[k][1] = o

Answered == pc = "done" => res = {o \in Object : Marked(o)}

PollInv == PollTypeOK /\ Turns /\ Parts /\ Answered

LEMMA InitPollInv == PollInit => PollInv
<1> SUFFICES ASSUME PollInit PROVE PollInv
  OBVIOUS
<1>1. pollfds = <<>> /\ indices = <<>> /\ Len(indices) = 0
      /\ DOMAIN pollfds = {} /\ DOMAIN indices = {}
  BY DEF PollInit
<1>2. PollTypeOK
  BY <1>1, PollAssumption DEF PollInit, PollTypeOK
<1> QED BY <1>1, <1>2, PollAssumption DEF PollInit, PollInv, Turns, Parts, Answered

\* What an object has filled goes behind what is there, and its part is that.
LEMMA FillParts ==
  ASSUME PollInv, Len(indices) < Objects, has[turn] >= room,
         pollfds' = pollfds \o Filled, indices' = Append(indices, Part)
  PROVE  /\ pollfds' \in Seq(Nat \X Nat) /\ indices' \in Seq(Nat \X Nat)
         /\ Len(indices') = Len(indices) + 1
         /\ DOMAIN pollfds \subseteq DOMAIN pollfds'
         /\ Parts'
<1> DEFINE l == Len(pollfds)
           n == Len(indices)
           p == <<l, l + room>>
<1>1. /\ l \in Nat /\ n \in Nat /\ room \in Nat
      /\ DOMAIN pollfds = 1 .. l /\ DOMAIN indices = 1 .. n
  BY LenProperties DEF PollInv, PollTypeOK
<1>2. /\ Filled \in Seq(Nat \X Nat) /\ Len(Filled) = room
      /\ \A k \in 1 .. room : Filled[k] = <<n + 1, k>>
  <2>1. Filled = [k \in 1 .. room |-> <<n + 1, k>>]
    <3>1. turn \in Object
      BY <1>1, PollAssumption DEF turn, Object
    <3>2. has[turn] \in Nat
      BY <3>1 DEF PollInv, PollTypeOK
    <3>3. \A k \in 1 .. room : k <= has[turn]
      BY <1>1, <3>2
    <3> QED BY <3>3 DEF Filled, turn
  <2>2. \A k \in 1 .. room : <<n + 1, k>> \in Nat \X Nat
    BY <1>1
  <2> HIDE DEF n
  <2> QED BY <1>1, <2>1, <2>2
<1>3. /\ pollfds' \in Seq(Nat \X Nat) /\ Len(pollfds') = l + room
      /\ \A k \in 1 .. l + room : pollfds'[k] = IF k <= l THEN pollfds[k] ELSE Filled[k - l]
  BY <1>2, ConcatProperties DEF PollInv, PollTypeOK
<1>4. DOMAIN pollfds' = 1 .. l + room
  BY <1>1, <1>3, LenProperties
<1>5. p \in Nat \X Nat /\ indices' = Append(indices, p)
  BY <1>1 DEF Part
<1>6. /\ indices' \in Seq(Nat \X Nat) /\ Len(indices') = n + 1
      /\ \A o \in 1 .. n : indices'[o] = indices[o]
      /\ indices'[n + 1] = p
  BY <1>5, AppendProperties DEF PollInv, PollTypeOK
<1>7. DOMAIN indices' = 1 .. n + 1
  BY <1>1, <1>6, LenProperties
<1>8. \A o \in 1 .. n : indices[o] \in Nat \X Nat
  BY ElementOfSeq DEF PollInv, PollTypeOK
<1> HIDE DEF l, n, p
<1>9. ASSUME NEW k \in DOMAIN pollfds'
      PROVE  \/ k \in 1 .. l /\ pollfds'[k] = pollfds[k] /\ pollfds[k][1] \in 1 .. n
             \/ k \in l + 1 .. l + room /\ pollfds'[k][1] = n + 1
  <2>1. CASE k <= l
    BY <1>1, <1>3, <1>4, <2>1 DEF PollInv, Parts
  <2>2. CASE ~(k <= l)
    <3>1. k - l \in 1 .. room
      BY <1>1, <1>4, <2>2
    <3>2. pollfds'[k] = <<n + 1, k - l>>
      BY <1>2, <1>3, <1>4, <2>2, <3>1
    <3> QED BY <1>1, <1>4, <2>2, <3>2
  <2> QED BY <2>1, <2>2
<1>10. \A k \in DOMAIN pollfds' : pollfds'[k][1] \in DOMAIN indices'
  BY <1>1, <1>7, <1>9
<1>11. ASSUME NEW o \in 1 .. n
       PROVE  /\ indices'[o][2] <= Len(pollfds')
              /\ \A k \in DOMAIN pollfds' :
                   indices'[o][1] < k /\ k <= indices'[o][2] <=> pollfds'[k][1] = o
  <2>1. indices'[o] = indices[o] /\ indices[o][1] \in Nat /\ indices[o][2] \in Nat
    BY <1>6, <1>8
  <2>2. /\ indices[o][2] <= l
        /\ \A k \in 1 .. l : indices[o][1] < k /\ k <= indices[o][2] <=> pollfds[k][1] = o
    BY <1>1 DEF PollInv, Parts, l
  <2>3. indices'[o][2] <= Len(pollfds')
    BY <1>1, <1>3, <2>1, <2>2
  <2>4. ASSUME NEW k \in DOMAIN pollfds'
        PROVE  indices'[o][1] < k /\ k <= indices'[o][2] <=> pollfds'[k][1] = o
    <3>1. CASE k \in 1 .. l /\ pollfds'[k] = pollfds[k]
      BY <2>1, <2>2, <3>1
    <3>2. CASE k \in l + 1 .. l + room /\ pollfds'[k][1] = n + 1
      <4>1. k > l /\ o # n + 1
        BY <1>1, <3>2
      <4>2. ~(k <= indices[o][2])
        BY <1>1, <2>1, <2>2, <3>2, <4>1
      <4> QED BY <2>1, <3>2, <4>1, <4>2
    <3> QED BY <1>9, <3>1, <3>2
  <2> QED BY <2>3, <2>4
<1>12. p[1] = l /\ p[2] = l + room
  BY DEF p
<1>13. /\ indices'[n + 1][2] <= Len(pollfds')
       /\ \A k \in DOMAIN pollfds' :
            indices'[n + 1][1] < k /\ k <= indices'[n + 1][2] <=> pollfds'[k][1] = n + 1
  <2>1. indices'[n + 1][1] = l /\ indices'[n + 1][2] = l + room
    BY <1>6, <1>12
  <2>2. ASSUME NEW k \in DOMAIN pollfds'
        PROVE  l < k /\ k <= l + room <=> pollfds'[k][1] = n + 1
    <3>1. CASE k \in 1 .. l /\ pollfds'[k][1] \in 1 .. n
      BY <1>1, <3>1
    <3>2. CASE k \in l + 1 .. l + room /\ pollfds'[k][1] = n + 1
      BY <1>1, <3>2
    <3>3. ASSUME k \in 1 .. l, pollfds'[k] = pollfds[k], pollfds[k][1] \in 1 .. n
          PROVE  pollfds'[k][1] \in 1 .. n
      BY <3>3
    <3> QED BY <1>9, <3>1, <3>2, <3>3
  <2> QED BY <1>3, <2>1, <2>2
<1>14. Parts'
  <2>1. \A o \in DOMAIN indices' : o \in 1 .. n \/ o = n + 1
    BY <1>1, <1>7
  <2> QED BY <1>10, <1>11, <1>13, <2>1 DEF Parts
<1> QED BY <1>1, <1>3, <1>4, <1>6, <1>14 DEF n

LEMMA NextPollInv == PollInv /\ [PollNext]_pollVars => PollInv'
<1> SUFFICES ASSUME PollInv, [PollNext]_pollVars PROVE PollInv'
  OBVIOUS
<1>0. Len(indices) \in Nat
  BY LenProperties DEF PollInv, PollTypeOK
<1>1. CASE Fail
  BY <1>1 DEF Fail, objects, PollInv, PollTypeOK, Turns, Parts, Answered
<1>2. CASE Count
  <2>1. has[turn] \in Nat /\ Len(indices) < Objects
    BY <1>0, <1>2, PollAssumption DEF Count, turn, Object, PollInv, PollTypeOK
  <2> QED BY <1>2, <2>1 DEF Count, objects, PollInv, PollTypeOK, Turns, Parts, Answered
<1>3. CASE Fill /\ ~Fail
  <2>1. /\ pc = "fill" /\ has[turn] >= room /\ pc' = "count"
        /\ pollfds' = pollfds \o Filled /\ indices' = Append(indices, Part)
        /\ UNCHANGED <<objects, room, revents, res>>
    BY <1>3 DEF Fill
  <2>2. Len(indices) < Objects
    BY <2>1 DEF PollInv, Turns
  <2>3. /\ pollfds' \in Seq(Nat \X Nat) /\ indices' \in Seq(Nat \X Nat)
        /\ Len(indices') = Len(indices) + 1
        /\ DOMAIN pollfds \subseteq DOMAIN pollfds'
        /\ Parts'
    BY <2>1, <2>2, FillParts
  <2>4. PollTypeOK'
    BY <2>1, <2>3 DEF objects, PollInv, PollTypeOK
  <2>5. Turns'
    BY <1>0, <2>1, <2>2, <2>3, PollAssumption DEF Turns
  <2> QED BY <2>1, <2>3, <2>4, <2>5 DEF PollInv, Answered
<1>4. CASE Poll /\ ~Fail
  <2>1. Len(indices) = Objects
    BY <1>0, <1>4, PollAssumption DEF Poll, turn, PollInv, Turns
  <2> QED BY <1>4, <2>1 DEF Poll, objects, PollInv, PollTypeOK, Turns, Parts, Answered
<1>5. CASE Revents /\ ~Fail
  BY <1>5 DEF Revents, objects, PollInv, PollTypeOK, Turns, Parts, Answered, Marked
<1>6. ASSUME NEW o \in Object, Change(o) PROVE PollInv'
  BY <1>6, PollAssumption
     DEF Change, Running, PollInv, PollTypeOK, Turns, Parts, Answered, Marked
<1>7. ASSUME NEW fd \in Fd, Happen(fd) PROVE PollInv'
  BY <1>7 DEF Happen, Running, PollInv, PollTypeOK, Turns, Parts, Answered, Marked
<1>8. CASE UNCHANGED pollVars
  BY <1>8 DEF pollVars, objects, PollInv, PollTypeOK, Turns, Parts, Answered, Marked
<1> QED BY <1>1, <1>2, <1>3, <1>4, <1>5, <1>6, <1>7, <1>8 DEF PollNext

\* The parts of poll_all's objects lie one after the other in the descriptors,
\* and each holds the descriptors of its own object.
THEOREM PollInvariance == PollSpec => []PollInv
BY InitPollInv, NextPollInv, PTL DEF PollSpec

\* An object is returned for what happened on its own descriptors only.
THEOREM AlwaysOwnEvents == PollSpec => []OwnEvents
<1>1. PollInv => OwnEvents
  <2> SUFFICES ASSUME PollInv, pc = "done", NEW o \in Object
               PROVE  o \in res <=> \E k \in revents : pollfds[k][1] = o
    BY DEF OwnEvents
  <2>1. o \in DOMAIN indices
    BY LenProperties DEF PollInv, PollTypeOK, Turns, Object
  <2>2. \A k \in revents : k \in DOMAIN pollfds
    BY DEF PollInv, PollTypeOK
  <2>3. o \in res <=> \E k \in revents : indices[o][1] < k /\ k <= indices[o][2]
    BY DEF PollInv, Answered, Marked
  <2> QED BY <2>1, <2>2, <2>3 DEF PollInv, Parts
<1> QED BY PollInvariance, <1>1, PTL

\* No entry is polled that its object has not filled.
THEOREM NeverBlankPolled == PollSpec => []NoBlankPolled
<1>1. PollInv => NoBlankPolled
  <2> SUFFICES ASSUME PollInv, NEW k \in DOMAIN pollfds PROVE pollfds[k] # Blank
    BY DEF NoBlankPolled
  <2>1. pollfds[k][1] # 0
    BY LenProperties DEF PollInv, PollTypeOK, Parts
  <2> QED BY <2>1 DEF Blank
<1> QED BY PollInvariance, <1>1, PTL

-----------------------------------------------------------------------------
(* elem_list                                                               *)

\* The answer to the second call: as many of the elements there were then as
\* there was room for, none of them twice.
AnswerOf(S) ==
  /\ used = IF space < Cardinality(S) THEN space ELSE Cardinality(S)
  /\ ids \in [1 .. used -> S]
  /\ \A i, j \in 1 .. used : i < j => ids[i] < ids[j]

ListInv ==
  /\ elems \subseteq Elems /\ listed \subseteq Elems
  /\ space \in Nat /\ count \in Nat /\ used \in Nat
  /\ step = "done" => AnswerOf(listed)
  /\ got = NoId \/ (step = "done" /\ got \in listed)

LEMMA FiniteElems ==
  ASSUME NEW S \in SUBSET Elems
  PROVE  IsFiniteSet(S) /\ Cardinality(S) \in Nat /\ S \subseteq Nat \ {0}
BY ElemsAssumption, FS_Subset, FS_CardinalityType

LEMMA InitListInv == ListInit => ListInv
<1> SUFFICES ASSUME ListInit PROVE ListInv
  OBVIOUS
<1>1. used = 0
  BY DEF ListInit, used
<1> QED BY <1>1 DEF ListInit, ListInv

\* What the kernel fills in.
LEMMA AskAnswers ==
  ASSUME ListInv, Ask, space' = space
  PROVE  /\ count' = Cardinality(elems) /\ count' \in Nat /\ used' \in Nat
         /\ used' = IF space < Cardinality(elems) THEN space ELSE Cardinality(elems)
         /\ ids' \in [1 .. used' -> elems]
         /\ \A i, j \in 1 .. used' : i < j => ids'[i] < ids'[j]
<1> DEFINE n == IF space < Cardinality(elems) THEN space ELSE Cardinality(elems)
<1>1. Cardinality(elems) \in Nat
  BY FiniteElems DEF ListInv
<1>2. n \in Nat
  BY <1>1 DEF ListInv
<1>3. ids' \in First(n)
  BY DEF Ask
<1> HIDE DEF n
<1>4. ids' \in [1 .. n -> elems] /\ \A i, j \in 1 .. n : i < j => ids'[i] < ids'[j]
  BY <1>3 DEF First
<1>5. Len(ids') = n
  BY <1>2, <1>4
<1>6. used' = n
  BY <1>5 DEF used
<1> QED BY <1>1, <1>2, <1>4, <1>6 DEF Ask, n

LEMMA NextListInv == ListInv /\ [ListNext]_listVars => ListInv'
<1> SUFFICES ASSUME ListInv, [ListNext]_listVars PROVE ListInv'
  OBVIOUS
<1> USE DEF ListInv
<1>1. CASE ListFails /\ step # "done"
  BY <1>1 DEF ListFails, AnswerOf, used
<1>2. CASE CountElems /\ ~ListFails
  BY <1>2, AskAnswers DEF CountElems, Ask
<1>3. CASE AllocSpace /\ ~ListFails
  BY <1>3 DEF AllocSpace, used
<1>4. CASE ListElems /\ ~ListFails
  BY <1>4, AskAnswers DEF ListElems, Ask, AnswerOf
<1>5. ASSUME NEW index \in 0 .. Cardinality(Elems), Get(index) PROVE ListInv'
  <2>1. used' = used
    BY <1>5 DEF Get, used
  <2>2. AnswerOf(listed)
    BY <1>5 DEF Get
  <2>3. Cardinality(Elems) \in Nat
    BY FiniteElems
  <2>4. index < used => ids[index + 1] \in listed
    BY <2>2, <2>3 DEF AnswerOf
  <2>5. got' = NoId \/ got' \in listed
    BY <1>5, <2>4 DEF Get, ensure_valid_index
  <2> QED BY <1>5, <2>1, <2>2, <2>5 DEF Get, AnswerOf
<1>6. ASSUME NEW e \in Elems, Add(e) \/ TakeAway(e) PROVE ListInv'
  BY <1>6 DEF Add, TakeAway, AnswerOf, used
<1>7. CASE UNCHANGED listVars
  BY <1>7 DEF listVars, AnswerOf, used
<1> QED BY <1>1, <1>2, <1>3, <1>4, <1>5, <1>6, <1>7
        DEF ListNext, CountElems, AllocSpace, ListElems

\* The ids of an ElemList are different elements of the moment they were listed,
\* as many of them as there was space for.
THEOREM ListInvariance == ListSpec => []ListInv
BY InitListInv, NextListInv, PTL DEF ListSpec

\* An index that is accepted gives an element of the list, each another one.
THEOREM IndexAlwaysGivesElem == ListSpec => []IndexGivesElem
<1>1. ListInv => IndexGivesElem
  <2> SUFFICES ASSUME ListInv PROVE IndexGivesElem
    OBVIOUS
  <2>1. ASSUME step = "done"
        PROVE  used <= space /\ \A i, j \in 1 .. used : ids[i] = ids[j] => i = j
    <3>1. /\ used = IF space < Cardinality(listed) THEN space ELSE Cardinality(listed)
          /\ ids \in [1 .. used -> listed]
          /\ \A i, j \in 1 .. used : i < j => ids[i] < ids[j]
      BY <2>1 DEF ListInv, AnswerOf
    <3>2. Cardinality(listed) \in Nat /\ listed \subseteq Nat
      BY FiniteElems DEF ListInv
    <3>3. used <= space
      BY <3>1, <3>2 DEF ListInv
    <3>4. \A i \in 1 .. used : ids[i] \in Nat
      BY <3>1, <3>2
    <3>5. ASSUME NEW i \in 1 .. used, NEW j \in 1 .. used, ids[i] = ids[j]
          PROVE  i = j
      <4>1. ~(i < j) /\ ~(j < i)
        BY <3>1, <3>4, <3>5
      <4> QED BY <4>1
    <3> QED BY <3>3, <3>5
  <2> QED BY <2>1 DEF ListInv, IndexGivesElem
<1> QED BY ListInvariance, <1>1, PTL

\* A list with room for all elements is all of them: as many different ones as
\* there are.
THEOREM NothingEverLost == ListSpec => []NothingLost
<1>1. ListInv /\ IndexGivesElem => NothingLost
  <2> SUFFICES ASSUME ListInv, IndexGivesElem, step = "done", Cardinality(listed) <= space
               PROVE  listed = {ids[i] : i \in 1 .. used}
    BY DEF NothingLost
  <2>1. IsFiniteSet(listed) /\ Cardinality(listed) \in Nat
    BY FiniteElems DEF ListInv
  <2>2. used = Cardinality(listed) /\ ids \in [1 .. used -> listed]
    BY <2>1 DEF ListInv, AnswerOf
  <2>3. ids \in Injection(1 .. used, listed)
    BY <2>2 DEF IndexGivesElem, Injection, IsInjective
  <2>4. Cardinality(1 .. used) = Cardinality(listed)
    BY <2>1, <2>2, FS_Interval
  <2>5. ids \in Surjection(1 .. used, listed)
    BY <2>1, <2>3, <2>4, FS_Injection
  <2> QED BY <2>2, <2>5 DEF Surjection
<1> QED BY ListInvariance, IndexAlwaysGivesElem, <1>1, PTL
=============================================================================
