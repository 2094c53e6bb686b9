------------------------------ MODULE IterProofs ------------------------------
(***************************************************************************)
(* The iterators: rawmidi::Iter for every card, and the others for every   *)
(* list of things that come and go.                                        *)
(***************************************************************************)
EXTENDS RawmidiIter, Enumerations, FiniteSetTheorems, SequenceTheorems,
        WellFoundedInduction, TLAPS

-----------------------------------------------------------------------------
(* rawmidi::Iter                                                           *)

\* What lies behind the iterator's position.
Passed(i) ==
  \/ i[1] < device
  \/ /\ i[1] = device /\ ~moving
     /\ i[3] < IF i[2] = "Capture" THEN current ELSE current - in_count

\* Whatever was yielded lies behind the position, while there is one.
YieldedPassed == device # -1 => \A k \in DOMAIN infos : Passed(infos[k])

\* Before the first device nothing is counted, and infos are those of an
\* iteration that is over, or none.
AtStart ==
  device = -1 => /\ ~moving /\ current >= in_count + out_count
                 /\ gone \/ result = None \/ infos = <<>>

\* A device that was just entered has something to yield.
JustEntered ==
  ~gone /\ result = None /\ device # -1 => moving \/ (current = 0 /\ in_count > 0)

RawInv == RawTypeOK /\ YieldedPassed /\ AtStart /\ JustEntered /\ InOrder

\* The counts are those of the device, if it has both directions ...
CountsAgree ==
  ~moving /\ ~gone /\ device # -1 /\ TwoWay(device) =>
    in_count = subs[device]["Capture"] /\ out_count = subs[device]["Playback"]

\* ... and what lies behind the position was yielded, of such devices.
TwoWayInfos == {i \in Infos : TwoWay(i[1])}
PassedYielded == \A i \in TwoWayInfos : Passed(i) => Yielded(i)

FullInv == CountsAgree /\ PassedYielded

Info == Device \X Direction \X (0 .. MaxSubs - 1)

\* The fields of an info.
LEMMA InfoType ==
  ASSUME NEW i \in Info
  PROVE  /\ i[1] \in Device /\ i[2] \in Direction /\ i[3] \in Nat
         /\ i[1] \in Nat /\ i[3] < MaxSubs
         /\ i = <<i[1], i[2], i[3]>>
BY IterAssumption DEF Info, Device

LEMMA InfosType ==
  ASSUME RawTypeOK
  PROVE  /\ Len(infos) \in Nat /\ DOMAIN infos = 1 .. Len(infos)
         /\ \A k \in DOMAIN infos : infos[k] \in Info
BY LenProperties, ElementOfSeq DEF RawTypeOK, Info

LEMMA InitRawInv == RawInit => RawInv
<1> SUFFICES ASSUME RawInit PROVE RawInv
  OBVIOUS
<1>1. infos = <<>> /\ Len(infos) = 0 /\ DOMAIN infos = {}
  BY DEF RawInit
<1>2. RawTypeOK
  <2>1. gone \in BOOLEAN /\ moving \in BOOLEAN
    BY Zenon DEF RawInit
  <2>2. 0 \in 0 .. MaxSubs /\ 0 \in 0 .. 0 + 0
    BY IterAssumption
  <2>3. infos \in Seq(Device \X Direction \X (0 .. MaxSubs - 1))
    BY <1>1
  <2> QED BY <2>1, <2>2, <2>3 DEF RawInit, RawTypeOK
<1> QED BY <1>1, <1>2 DEF RawInit, RawInv, YieldedPassed, AtStart, JustEntered, InOrder

\* One more info is yielded, behind the new position and after all before it.
LEMMA YieldOne ==
  ASSUME RawInv, NEW x \in Info, infos' = Append(infos, x),
         \A k \in DOMAIN infos : Before(infos[k], x)
  PROVE  /\ infos' \in Seq(Info)
         /\ DOMAIN infos' = 1 .. Len(infos) + 1
         /\ \A k \in DOMAIN infos : infos'[k] = infos[k]
         /\ infos'[Len(infos) + 1] = x
         /\ InOrder'
<1> DEFINE n == Len(infos)
<1>1. n \in Nat /\ DOMAIN infos = 1 .. n
  BY InfosType DEF RawInv
<1>2. /\ infos' \in Seq(Info) /\ Len(infos') = n + 1
      /\ \A k \in 1 .. n : infos'[k] = infos[k]
      /\ infos'[n + 1] = x
  BY AppendProperties DEF RawInv, RawTypeOK, Info
<1>3. DOMAIN infos' = 1 .. n + 1
  BY <1>2, LenProperties
<1>4. \A k \in 2 .. n : Before(infos[k - 1], infos[k])
  BY DEF RawInv, InOrder
<1> HIDE DEF n
<1>5. ASSUME NEW k \in 2 .. n + 1 PROVE Before(infos'[k - 1], infos'[k])
  <2>1. CASE k = n + 1
    <3>1. n \in 1 .. n /\ k - 1 = n
      BY <1>1, <2>1
    <3> QED BY <1>1, <1>2, <2>1, <3>1
  <2>2. CASE k # n + 1
    <3>1. k \in 2 .. n /\ k \in 1 .. n /\ k - 1 \in 1 .. n
      BY <1>1, <2>2
    <3> QED BY <1>2, <1>4, <3>1
  <2> QED BY <2>1, <2>2
<1>6. InOrder'
  BY <1>2, <1>5 DEF InOrder, Before
<1> QED BY <1>1, <1>2, <1>3, <1>6 DEF n

\* Where a call that tries a subdevice looks.
Tries(dir, sub) ==
  \/ dir = "Capture" /\ sub = current /\ current < in_count
  \/ dir = "Playback" /\ current >= in_count /\ sub = current - in_count /\ sub < out_count

LEMMA ItemTries ==
  ASSUME RawTypeOK, CaptureItem \/ PlaybackItem
  PROVE  /\ \E dir \in Direction, sub \in Nat : Tries(dir, sub) /\ Return(sub, dir)
         /\ ~moving /\ current' = current + 1 /\ current < in_count + out_count
         /\ UNCHANGED <<card, device, counts, moving>>
<1>1. CASE CaptureItem
  <2>1. /\ ~moving /\ current' = current + 1 /\ current < in_count
        /\ Return(current, "Capture")
        /\ UNCHANGED <<card, device, counts, moving>>
    BY <1>1 DEF CaptureItem
  <2>2. current \in Nat /\ in_count \in Nat /\ out_count \in Nat
    BY IterAssumption DEF RawTypeOK
  <2>3. current < in_count + out_count
    BY <2>1, <2>2
  <2> QED BY <2>1, <2>2, <2>3 DEF Tries, Direction
<1>2. CASE PlaybackItem
  <2>1. /\ ~moving /\ current' = current + 1
        /\ current >= in_count /\ current - in_count < out_count
        /\ Return(current - in_count, "Playback")
        /\ UNCHANGED <<card, device, counts, moving>>
    BY <1>2 DEF PlaybackItem
  <2>2. current \in Nat /\ in_count \in Nat /\ out_count \in Nat
    BY IterAssumption DEF RawTypeOK
  <2>3. current - in_count \in Nat /\ current < in_count + out_count
    BY <2>1, <2>2
  <2> QED BY <2>1, <2>3 DEF Tries, Direction
<1> QED BY <1>1, <1>2

\* What was passed is before what is tried.
LEMMA PassedBefore ==
  ASSUME RawTypeOK, NEW dir \in Direction, NEW sub \in Nat, Tries(dir, sub),
         NEW i \in Info, Passed(i)
  PROVE  Before(i, <<device, dir, sub>>)
<1> DEFINE x == <<device, dir, sub>>
<1>1. x[1] = device /\ x[2] = dir /\ x[3] = sub
  OBVIOUS
<1>2. current \in Nat /\ in_count \in Nat /\ out_count \in Nat
  BY IterAssumption DEF RawTypeOK
<1>3. i[2] \in {"Capture", "Playback"} /\ i[3] \in Nat
  BY InfoType DEF Direction
<1> HIDE DEF x
<1>4. CASE i[1] < device
  BY <1>1, <1>4 DEF Before
<1>5. CASE i[1] = device /\ i[2] = "Capture" /\ dir = "Playback"
  BY <1>1, <1>5 DEF Before
<1>6. CASE i[1] = device /\ i[2] = "Capture" /\ dir = "Capture" /\ i[3] < current
  BY <1>1, <1>6 DEF Before, Tries
<1>7. CASE i[1] = device /\ i[2] = "Playback" /\ i[3] < current - in_count
  <2>1. dir = "Playback" /\ sub = current - in_count
    BY <1>2, <1>3, <1>7 DEF Tries
  <2> QED BY <1>1, <1>7, <2>1 DEF Before
<1> QED BY <1>3, <1>4, <1>5, <1>6, <1>7 DEF Passed, Direction, x

\* What was passed stays so when the position moves on within a device, and
\* what was tried is passed.
LEMMA PassedStays ==
  ASSUME RawTypeOK, ~moving, current' = current + 1, UNCHANGED <<device, counts, moving>>,
         NEW i \in Info
  PROVE  /\ Passed(i) => Passed(i)'
         /\ \A dir \in Direction, sub \in Nat :
              Tries(dir, sub) /\ i = <<device, dir, sub>> => Passed(i)'
<1>1. current \in Nat /\ in_count \in Nat
  BY IterAssumption DEF RawTypeOK
<1>2. i[3] \in Nat
  BY InfoType
<1>3. device' = device /\ in_count' = in_count /\ moving' = moving
  BY DEF counts
<1>4. Passed(i) => Passed(i)'
  BY <1>1, <1>2, <1>3 DEF Passed
<1>5. ASSUME NEW dir \in Direction, NEW sub \in Nat, Tries(dir, sub),
             i[1] = device, i[2] = dir, i[3] = sub
      PROVE  Passed(i)'
  BY <1>1, <1>3, <1>5 DEF Passed, Tries
<1> QED BY <1>4, <1>5

\* A call that tries a subdevice.
LEMMA ItemStep ==
  ASSUME RawInv, CaptureItem \/ PlaybackItem
  PROVE  RawInv'
<1>1. RawTypeOK
  BY DEF RawInv
<1>2. /\ ~moving /\ current' = current + 1 /\ current < in_count + out_count
      /\ UNCHANGED <<card, device, counts, moving>>
  BY <1>1, ItemTries
<1>3. PICK dir \in Direction, sub \in Nat : Tries(dir, sub) /\ Return(sub, dir)
  BY <1>1, ItemTries
<1>4. current \in Nat /\ in_count \in Nat /\ out_count \in Nat
  BY <1>1, IterAssumption DEF RawTypeOK
<1>5. device # -1 /\ device' # -1
  BY <1>2, <1>4 DEF RawInv, AtStart
<1>6. current' \in 0 .. in_count' + out_count'
  BY <1>2, <1>4 DEF counts
<1>7. \A k \in DOMAIN infos : infos[k] \in Info /\ Passed(infos[k])
  BY <1>1, <1>5, InfosType DEF RawInv, YieldedPassed
<1>8. CASE HasInfo(device, sub, dir)
  <2>1. PICK x \in Info : x = <<device, dir, sub>>
    <3>1. device \in Device /\ sub < subs[device][dir] /\ subs[device][dir] \in 0 .. MaxSubs
      BY <1>1, <1>8 DEF HasInfo, RawTypeOK
    <3>2. sub \in 0 .. MaxSubs - 1
      BY <3>1, IterAssumption
    <3> QED BY <3>1, <3>2 DEF Info
  <2>2. result' = x /\ infos' = Append(infos, x)
    BY <1>3, <1>8, <2>1 DEF Return
  <2>3. \A k \in DOMAIN infos : Before(infos[k], x)
    BY <1>1, <1>3, <1>7, <2>1, PassedBefore
  <2>4. x # None
    BY <2>1 DEF None
  <2>5. Passed(x)'
    BY <1>1, <1>2, <1>3, <2>1, PassedStays
  <2>6. \A i \in Info : Passed(i) => Passed(i)'
    BY <1>1, <1>2, PassedStays
  <2>7. /\ infos' \in Seq(Info) /\ DOMAIN infos' = 1 .. Len(infos) + 1
        /\ \A k \in DOMAIN infos : infos'[k] = infos[k]
        /\ infos'[Len(infos) + 1] = x
        /\ InOrder'
    BY <2>2, <2>3, YieldOne
  <2>8. YieldedPassed'
    <3>1. Len(infos) \in Nat /\ DOMAIN infos = 1 .. Len(infos)
      BY <1>1, InfosType
    <3>2. \A k \in DOMAIN infos' : k \in DOMAIN infos \/ k = Len(infos) + 1
      BY <2>7, <3>1
    <3>3. ASSUME NEW k \in DOMAIN infos', NEW i, i = infos'[k] PROVE Passed(i)'
      <4>1. CASE k \in DOMAIN infos
        BY <1>7, <2>6, <2>7, <3>3, <4>1
      <4>2. CASE k = Len(infos) + 1
        BY <2>5, <2>7, <3>3, <4>2
      <4> QED BY <3>2, <4>1, <4>2
    <3> QED BY <3>3 DEF YieldedPassed, Passed
  <2>9. RawTypeOK'
    BY <1>1, <1>2, <1>6, <2>7 DEF RawTypeOK, Info, card, counts
  <2> QED BY <1>5, <2>2, <2>4, <2>7, <2>8, <2>9 DEF RawInv, AtStart, JustEntered
<1>9. CASE ~HasInfo(device, sub, dir)
  <2>1. result' = Error /\ infos' = infos
    BY <1>3, <1>9 DEF Return
  <2>2. result' # None
    BY <2>1 DEF Error, None
  <2>3. RawTypeOK'
    BY <1>1, <1>2, <1>6, <2>1 DEF RawTypeOK, card, counts
  <2>4. YieldedPassed'
    <3> SUFFICES ASSUME NEW k \in DOMAIN infos, NEW i \in Info, i = infos[k], Passed(i)
                 PROVE  Passed(i)'
      BY <1>7, <2>1 DEF YieldedPassed, Passed
    <3> QED BY <1>1, <1>2, PassedStays
  <2>5. InOrder'
    BY <2>1 DEF RawInv, InOrder, Before
  <2> QED BY <1>5, <2>2, <2>3, <2>4, <2>5 DEF RawInv, AtStart, JustEntered
<1> QED BY <1>8, <1>9

\* The least of the devices to come, or the end.
LEMMA DeviceStep ==
  ASSUME RawInv, NextDevice
  PROVE  RawInv'
<1>1. /\ RawTypeOK /\ ~moving /\ current - in_count >= out_count
      /\ UNCHANGED <<card, counts, current>>
  BY DEF RawInv, NextDevice
<1>2. current \in Nat /\ in_count \in Nat /\ out_count \in Nat
  BY <1>1, IterAssumption DEF RawTypeOK
<1>3. current >= in_count + out_count
  BY <1>1, <1>2
<1>4. \A k \in DOMAIN infos : infos[k] \in Info
  BY <1>1, InfosType
<1>5. CASE gone /\ UNCHANGED <<device, moving, infos>>
  BY <1>1, <1>5 DEF RawInv, RawTypeOK, YieldedPassed, AtStart, JustEntered, InOrder,
     Passed, Before, card, counts
<1>6. ASSUME ~gone, infos' = IF result = None THEN <<>> ELSE infos
      PROVE  /\ infos' \in Seq(Info) /\ DOMAIN infos' \subseteq DOMAIN infos
             /\ \A k \in DOMAIN infos' : infos'[k] = infos[k]
             /\ InOrder'
  <2>1. CASE result = None
    <3>1. infos' = <<>> /\ Len(infos') = 0 /\ DOMAIN infos' = {}
      BY <1>6, <2>1
    <3> QED BY <3>1 DEF InOrder
  <2>2. CASE result # None
    BY <1>1, <1>6, <2>2 DEF RawInv, RawTypeOK, InOrder, Before, Info
  <2> QED BY <2>1, <2>2
<1>7. CASE /\ ~gone /\ device' \in later /\ moving' = TRUE
           /\ infos' = IF result = None THEN <<>> ELSE infos
           /\ UNCHANGED result
  <2>1. device' \in Device /\ device' > device /\ device' # -1
    BY <1>7 DEF later, Device
  <2>2. RawTypeOK'
    <3>1. moving' \in BOOLEAN
      BY <1>7, Zenon
    <3> QED BY <1>1, <1>6, <1>7, <2>1, <3>1 DEF RawTypeOK, Info, card, counts
  <2>3. YieldedPassed'
    <3>1. CASE device = -1
      <4>1. infos' = <<>>
        BY <1>7, <3>1 DEF RawInv, AtStart
      <4> QED BY <4>1 DEF YieldedPassed
    <3>2. CASE device # -1
      <4>1. ASSUME NEW k \in DOMAIN infos' PROVE infos'[k][1] < device'
        <5>1. infos'[k] = infos[k] /\ infos[k] \in Info /\ Passed(infos[k])
          BY <1>4, <1>6, <1>7, <3>2 DEF RawInv, YieldedPassed
        <5>2. device \in Int /\ device' \in Int
          BY <1>1, <2>1 DEF RawTypeOK, Device
        <5>3. infos[k][1] \in Nat /\ infos[k][1] <= device
          <6>1. infos[k][1] \in Nat
            BY <5>1, InfoType
          <6> QED BY <5>1, <5>2, <6>1 DEF Passed
        <5> QED BY <2>1, <5>1, <5>2, <5>3
      <4> QED BY <4>1 DEF YieldedPassed, Passed
    <3> QED BY <3>1, <3>2
  <2> QED BY <1>6, <1>7, <2>1, <2>2, <2>3 DEF RawInv, AtStart, JustEntered
<1>8. CASE /\ ~gone /\ device' = -1 /\ result' = None
           /\ infos' = IF result = None THEN <<>> ELSE infos
           /\ UNCHANGED moving
  <2>1. RawTypeOK'
    BY <1>1, <1>6, <1>8 DEF RawTypeOK, Info, card, counts
  <2>2. AtStart'
    BY <1>1, <1>3, <1>8 DEF AtStart, counts
  <2> QED BY <1>6, <1>8, <2>1, <2>2 DEF RawInv, YieldedPassed, JustEntered
<1> QED BY <1>5, <1>7, <1>8 DEF NextDevice

\* The position goes to the first subdevice of the device that was entered.
LEMMA CountsStep ==
  ASSUME RawInv, CountSubdevices
  PROVE  RawInv'
<1>1. /\ RawTypeOK /\ moving /\ moving' = FALSE /\ current' = 0
      /\ UNCHANGED <<card, device, infos>>
  BY DEF RawInv, CountSubdevices
<1>2. device # -1 /\ device' # -1
  BY <1>1 DEF RawInv, AtStart
<1>3. YieldedPassed'
  <2>1. ASSUME NEW k \in DOMAIN infos PROVE infos[k][1] < device
    BY <1>1, <1>2 DEF RawInv, YieldedPassed, Passed
  <2> QED BY <1>1, <2>1 DEF YieldedPassed, Passed
<1>4. InOrder'
  BY <1>1 DEF RawInv, InOrder, Before
<1>5. moving' \in BOOLEAN
  BY <1>1, Zenon
<1>6. CASE /\ \A dir \in Direction : HasInfo(device, 0, dir)
           /\ in_count' = subs[device]["Capture"] /\ out_count' = subs[device]["Playback"]
  <2>1. /\ in_count' \in 0 .. MaxSubs /\ out_count' \in 0 .. MaxSubs /\ in_count' > 0
    BY <1>1, <1>6 DEF HasInfo, Direction, RawTypeOK
  <2>2. 0 \in 0 .. in_count' + out_count'
    <3>1. PICK i \in Nat, o \in Nat : in_count' = i /\ out_count' = o
      BY <2>1, IterAssumption
    <3>2. 0 \in 0 .. i + o
      OBVIOUS
    <3> QED BY <3>1, <3>2
  <2>3. RawTypeOK'
    BY <1>1, <1>5, <2>1, <2>2 DEF RawTypeOK, card
  <2> QED BY <1>1, <1>2, <1>3, <1>4, <2>1, <2>3 DEF RawInv, AtStart, JustEntered
<1>7. CASE result' = Error /\ UNCHANGED counts
  <2>1. 0 \in 0 .. in_count' + out_count'
    BY <1>1, <1>7, IterAssumption DEF RawTypeOK, counts
  <2>2. RawTypeOK'
    BY <1>1, <1>5, <1>7, <2>1 DEF RawTypeOK, card, counts
  <2>3. result' # None
    BY <1>7 DEF Error, None
  <2> QED BY <1>2, <1>3, <1>4, <2>2, <2>3 DEF RawInv, AtStart, JustEntered
<1> QED BY <1>6, <1>7 DEF CountSubdevices

\* Devices and the card go away: the position stays.
LEMMA CardStep ==
  ASSUME RawInv, (\E d \in Device : DeviceGoes(d)) \/ CardGoes
  PROVE  RawInv'
<1>1. /\ UNCHANGED <<device, counts, current, moving, result, infos>>
      /\ gone => gone'
  BY DEF DeviceGoes, CardGoes
<1>2. gone' \in BOOLEAN
  <2>1. gone' = gone \/ gone' = TRUE
    BY DEF DeviceGoes, CardGoes
  <2> QED BY <2>1, Zenon DEF RawInv, RawTypeOK
<1>3. subs' \in [Device -> [Direction -> 0 .. MaxSubs]]
  <2>1. subs \in [Device -> [Direction -> 0 .. MaxSubs]]
    BY DEF RawInv, RawTypeOK
  <2>2. [dir \in Direction |-> 0] \in [Direction -> 0 .. MaxSubs]
    BY IterAssumption
  <2> QED BY <2>1, <2>2 DEF DeviceGoes, CardGoes
<1>4. RawTypeOK'
  BY <1>1, <1>2, <1>3 DEF RawInv, RawTypeOK, counts
<1> QED BY <1>1, <1>4 DEF RawInv, YieldedPassed, AtStart, JustEntered, InOrder,
        Passed, Before, counts

LEMMA NextRawInv == RawInv /\ [RawNext]_rawVars => RawInv'
<1> SUFFICES ASSUME RawInv, [RawNext]_rawVars PROVE RawInv'
  OBVIOUS
<1>1. CASE UNCHANGED rawVars
  BY <1>1 DEF rawVars, card, counts, RawInv, RawTypeOK, YieldedPassed, AtStart,
     JustEntered, InOrder, Passed, Before
<1> QED BY <1>1, ItemStep, DeviceStep, CountsStep, CardStep DEF RawNext

\* The fields of rawmidi::Iter have their types and count within bounds.
THEOREM IterTypes == RawSpec => []RawTypeOK
<1>1. RawInv => RawTypeOK
  BY DEF RawInv
<1> QED BY InitRawInv, NextRawInv, <1>1, PTL DEF RawSpec

\* rawmidi::Iter yields nothing twice and keeps the order, whatever goes away.
THEOREM IterInOrder == RawSpec => []InOrder
<1>1. RawInv => InOrder
  BY DEF RawInv
<1> QED BY InitRawInv, NextRawInv, <1>1, PTL DEF RawSpec

\* A subdevice the card has is one of a device that exists.
LEMMA InfosFacts ==
  ASSUME RawTypeOK, NEW i \in Infos
  PROVE  /\ i \in Info /\ ~gone /\ Exists(i[1])
         /\ i[1] \in Device /\ i[2] \in Direction
         /\ i[3] \in Nat /\ i[3] < subs[i[1]][i[2]]
<1>1. i \in Info /\ HasInfo(i[1], i[3], i[2])
  BY DEF Infos, Info
<1>2. /\ i[1] \in Device /\ i[2] \in Direction /\ i[3] \in Nat
      /\ ~gone /\ i[3] < subs[i[1]][i[2]]
  BY <1>1, InfoType DEF HasInfo
<1>3. PICK c \in Nat, p \in Nat : c = subs[i[1]]["Capture"] /\ p = subs[i[1]]["Playback"]
  BY <1>2, IterAssumption DEF RawTypeOK, Direction
<1>4. c > 0 \/ p > 0
  BY <1>2, <1>3 DEF Direction
<1>5. Exists(i[1])
  BY <1>3, <1>4 DEF Exists
<1> QED BY <1>1, <1>2, <1>5

\* Everything of the devices up to this one is passed when its counts are.
LEMMA AllPassed ==
  ASSUME RawTypeOK, CountsAgree, ~moving, device # -1, current - in_count >= out_count,
         NEW i \in TwoWayInfos, i[1] <= device
  PROVE  Passed(i)
<1>1. /\ i[2] \in Direction /\ i[3] \in Nat /\ i[3] < subs[i[1]][i[2]]
      /\ ~gone /\ TwoWay(i[1]) /\ i[1] \in Device
  BY InfosFacts DEF TwoWayInfos
<1>2. current \in Nat /\ in_count \in Nat /\ out_count \in Nat /\ device \in Int
  BY IterAssumption DEF RawTypeOK, Device
<1>3. CASE i[1] < device
  BY <1>3 DEF Passed
<1>4. CASE i[1] = device
  <2>1. in_count = subs[device]["Capture"] /\ out_count = subs[device]["Playback"]
    BY <1>1, <1>4 DEF CountsAgree
  <2>2. CASE i[2] = "Capture"
    <3>1. i[3] < current
      BY <1>1, <1>2, <1>4, <2>1, <2>2
    <3> QED BY <1>4, <2>2, <3>1 DEF Passed
  <2>3. CASE i[2] = "Playback"
    <3>1. i[3] < current - in_count
      BY <1>1, <1>2, <1>4, <2>1, <2>3
    <3> QED BY <1>4, <2>3, <3>1 DEF Passed
  <2> QED BY <1>1, <2>2, <2>3 DEF Direction
<1> QED BY <1>1, <1>2, <1>3, <1>4 DEF Device

LEMMA InitFullInv == RawInit => FullInv
<1> SUFFICES ASSUME RawInit PROVE FullInv
  OBVIOUS
<1>2. CountsAgree
  BY DEF RawInit, CountsAgree
<1>3. RawTypeOK
  BY InitRawInv DEF RawInv
<1>4. ASSUME NEW i \in Infos PROVE ~Passed(i)
  <2>1. i[1] \in Nat
    BY <1>3, InfosFacts, IterAssumption DEF Device
  <2> QED BY <2>1 DEF Passed, RawInit
<1> QED BY <1>2, <1>4 DEF FullInv, PassedYielded, TwoWayInfos

\* A subdevice that is newly passed is the one that was tried.
LEMMA ItemFull ==
  ASSUME RawInv, FullInv, CaptureItem \/ PlaybackItem
  PROVE  FullInv'
<1>1. RawTypeOK
  BY DEF RawInv
<1>2. /\ ~moving /\ current' = current + 1 /\ current < in_count + out_count
      /\ UNCHANGED <<card, device, counts, moving>>
  BY <1>1, ItemTries
<1>3. PICK dir \in Direction, sub \in Nat : Tries(dir, sub) /\ Return(sub, dir)
  BY <1>1, ItemTries
<1>4. current \in Nat /\ in_count \in Nat /\ out_count \in Nat
  BY <1>1, IterAssumption DEF RawTypeOK
<1>5. device # -1
  BY <1>2, <1>4 DEF RawInv, AtStart
<1>6. ASSUME NEW i, Yielded(i) PROVE Yielded(i)'
  <2>1. CASE infos' = infos
    BY <1>6, <2>1 DEF Yielded
  <2>2. CASE infos' # infos
    <3>1. PICK x \in Info : infos' = Append(infos, x)
      <4>1. HasInfo(device, sub, dir) /\ infos' = Append(infos, result')
            /\ result' = <<device, dir, sub>>
        BY <1>3, <2>2 DEF Return
      <4>2. device \in Device /\ sub < subs[device][dir] /\ subs[device][dir] \in 0 .. MaxSubs
        BY <1>1, <4>1 DEF HasInfo, RawTypeOK
      <4>3. sub \in 0 .. MaxSubs - 1
        BY <4>2, IterAssumption
      <4> QED BY <4>1, <4>2, <4>3 DEF Info
    <3>2. Len(infos) \in Nat /\ DOMAIN infos = 1 .. Len(infos)
      BY <1>1, InfosType
    <3>3. /\ DOMAIN infos' = 1 .. Len(infos) + 1
          /\ \A k \in 1 .. Len(infos) : infos'[k] = infos[k]
      BY <1>1, <3>1, AppendProperties, LenProperties DEF RawTypeOK, Info
    <3> QED BY <1>6, <3>2, <3>3 DEF Yielded
  <2> QED BY <2>1, <2>2
<1>7. ASSUME NEW i \in TwoWayInfos, Passed(i)', ~Passed(i) PROVE Yielded(i)'
  <2>1. /\ i \in Info /\ i[2] \in Direction /\ i[3] \in Nat /\ i[1] \in Device
        /\ i[3] < subs[i[1]][i[2]] /\ ~gone /\ TwoWay(i[1])
    BY <1>1, <1>7, InfosFacts DEF TwoWayInfos
  <2>2. device' = device /\ in_count' = in_count /\ moving' = moving
    BY <1>2 DEF counts
  <2>3. /\ i[1] = device
        /\ i[3] = IF i[2] = "Capture" THEN current ELSE current - in_count
    <3>1. i[1] = device
      BY <1>7, <2>2 DEF Passed
    <3>2. CASE i[2] = "Capture"
      <4>1. i[3] < current + 1 /\ ~(i[3] < current)
        BY <1>2, <1>7, <2>2, <3>1, <3>2 DEF Passed
      <4> QED BY <1>4, <2>1, <3>1, <3>2, <4>1
    <3>3. CASE i[2] # "Capture"
      <4>1. i[3] < (current + 1) - in_count /\ ~(i[3] < current - in_count)
        BY <1>2, <1>7, <2>2, <3>1, <3>3 DEF Passed
      <4> QED BY <1>4, <2>1, <3>1, <3>3, <4>1
    <3> QED BY <3>2, <3>3
  <2>4. in_count = subs[device]["Capture"]
    BY <1>2, <1>5, <2>1, <2>3 DEF FullInv, CountsAgree
  <2>5. dir = i[2] /\ sub = i[3]
    <3>1. CASE i[2] = "Capture"
      <4>1. current < in_count
        BY <2>1, <2>3, <2>4, <3>1
      <4> QED BY <1>3, <1>4, <2>3, <3>1, <4>1 DEF Tries
    <3>2. CASE i[2] = "Playback"
      <4>1. current >= in_count
        BY <1>4, <2>1, <2>3, <3>2
      <4> QED BY <1>3, <1>4, <2>3, <3>2, <4>1 DEF Tries
    <3> QED BY <2>1, <3>1, <3>2 DEF Direction
  <2>6. HasInfo(device, sub, dir) /\ i = <<device, dir, sub>>
    BY <2>1, <2>3, <2>5, InfoType DEF HasInfo
  <2>7. infos' = Append(infos, i)
    BY <1>3, <2>6 DEF Return
  <2>8. Len(infos) \in Nat
    BY <1>1, InfosType
  <2>9. Len(infos) + 1 \in DOMAIN infos' /\ infos'[Len(infos) + 1] = i
    BY <1>1, <2>1, <2>7, <2>8, AppendProperties, LenProperties DEF RawTypeOK, Info
  <2> QED BY <2>9 DEF Yielded
<1>8. TwoWayInfos' = TwoWayInfos /\ CountsAgree'
  BY <1>2 DEF card, counts, TwoWayInfos, Infos, HasInfo, FullInv, CountsAgree, TwoWay
<1>9. ASSUME NEW i \in TwoWayInfos, Passed(i)' PROVE Yielded(i)'
  BY <1>6, <1>7, <1>9 DEF FullInv, PassedYielded
<1> QED BY <1>8, <1>9 DEF FullInv, PassedYielded

LEMMA DeviceFull ==
  ASSUME RawInv, FullInv, NextDevice
  PROVE  FullInv'
<1>1. /\ RawTypeOK /\ ~moving /\ current - in_count >= out_count
      /\ UNCHANGED <<card, counts, current>>
  BY DEF RawInv, NextDevice
<1>2. TwoWayInfos' = TwoWayInfos
  BY <1>1 DEF card, TwoWayInfos, Infos, HasInfo, TwoWay
<1>3. CASE gone
  <2>1. gone' /\ TwoWayInfos = {}
    BY <1>1, <1>3 DEF card, TwoWayInfos, Infos, HasInfo
  <2> QED BY <1>2, <2>1 DEF FullInv, CountsAgree, PassedYielded
<1>4. CASE device' = -1
  <2>1. ASSUME NEW i \in TwoWayInfos PROVE ~Passed(i)'
    <3>1. i[1] \in Nat
      BY <1>1, InfosFacts, IterAssumption DEF Device, TwoWayInfos
    <3> QED BY <1>4, <3>1 DEF Passed
  <2> QED BY <1>2, <1>4, <2>1 DEF FullInv, CountsAgree, PassedYielded
<1>5. CASE /\ ~gone /\ device' \in later /\ (\A d \in later : device' <= d) /\ moving' = TRUE
           /\ infos' = IF result = None THEN <<>> ELSE infos
  <2>1. ASSUME NEW i \in TwoWayInfos, Passed(i)' PROVE Yielded(i)'
    <3>1. /\ i[1] \in Device /\ Exists(i[1]) /\ i[1] \in Nat /\ device \in Int
          /\ device' \in Int
      BY <1>1, <1>5, InfosFacts, IterAssumption DEF Device, RawTypeOK, later, TwoWayInfos
    <3>2. i[1] < device'
      BY <1>5, <2>1 DEF Passed
    <3>3. i[1] <= device
      <4>1. i[1] \notin later
        BY <1>5, <3>1, <3>2
      <4> QED BY <3>1, <4>1 DEF later
    <3>4. device # -1
      BY <3>1, <3>3
    <3>5. Passed(i)
      BY <1>1, <3>3, <3>4, AllPassed DEF FullInv
    <3>6. result # None
      <4>1. current \in Nat /\ in_count \in Nat /\ out_count \in Nat
        BY <1>1, IterAssumption DEF RawTypeOK
      <4>2. ~(current = 0 /\ in_count > 0)
        BY <1>1, <4>1
      <4> QED BY <1>1, <1>5, <3>4, <4>2 DEF RawInv, JustEntered
    <3> QED BY <1>5, <3>5, <3>6 DEF FullInv, PassedYielded, Yielded
  <2> QED BY <1>2, <1>5, <2>1 DEF FullInv, CountsAgree, PassedYielded
<1> QED BY <1>3, <1>4, <1>5 DEF NextDevice

LEMMA CountsFull ==
  ASSUME RawInv, FullInv, CountSubdevices
  PROVE  FullInv'
<1>1. /\ RawTypeOK /\ moving /\ moving' = FALSE /\ current' = 0
      /\ UNCHANGED <<card, device, infos>>
  BY DEF RawInv, CountSubdevices
<1>2. TwoWayInfos' = TwoWayInfos
  BY <1>1 DEF card, TwoWayInfos, Infos, HasInfo, TwoWay
<1>3. CountsAgree'
  <2>1. CASE /\ in_count' = subs[device]["Capture"]
             /\ out_count' = subs[device]["Playback"]
    BY <1>1, <2>1 DEF CountsAgree, card
  <2>2. CASE ~\A dir \in Direction : HasInfo(device, 0, dir)
    <3>1. device # -1 => device \in Device
      BY <1>1 DEF RawTypeOK
    <3>2. ~gone /\ device # -1 => ~TwoWay(device)
      BY <2>2, <3>1 DEF HasInfo, TwoWay
    <3> QED BY <1>1, <3>2 DEF CountsAgree, card, TwoWay
  <2> QED BY <2>1, <2>2 DEF CountSubdevices
<1>4. in_count' \in Nat
  BY CountsStep, IterAssumption DEF RawInv, RawTypeOK
<1>5. ASSUME NEW i \in TwoWayInfos, Passed(i)' PROVE Yielded(i)'
  <2>1. i[3] \in Nat
    BY <1>1, InfosFacts DEF TwoWayInfos
  <2>2. i[1] < device
    BY <1>1, <1>4, <1>5, <2>1 DEF Passed
  <2> QED BY <1>1, <2>2 DEF FullInv, PassedYielded, Passed, Yielded
<1> QED BY <1>2, <1>3, <1>5 DEF FullInv, PassedYielded

LEMMA CardFull ==
  ASSUME RawInv, FullInv, (\E d \in Device : DeviceGoes(d)) \/ CardGoes
  PROVE  FullInv'
<1>1. /\ UNCHANGED <<device, counts, current, moving, result, infos>>
      /\ gone => gone'
  BY DEF DeviceGoes, CardGoes
<1>2. \A d \in Device : \/ subs'[d] = subs[d]
                        \/ subs'[d] = [dir \in Direction |-> 0]
  BY DEF DeviceGoes, CardGoes, RawInv, RawTypeOK
<1>3. ASSUME NEW d \in Device, TwoWay(d)' PROVE subs'[d] = subs[d] /\ TwoWay(d)
  <2>1. subs'[d] # [dir \in Direction |-> 0]
    BY <1>3 DEF TwoWay, Direction
  <2> QED BY <1>2, <1>3, <2>1 DEF TwoWay
<1>5. CountsAgree'
  <2>1. device # -1 => device \in Device
    BY DEF RawInv, RawTypeOK
  <2> QED BY <1>1, <1>3, <2>1 DEF FullInv, CountsAgree, counts
<1>6. TwoWayInfos' \subseteq TwoWayInfos
  <2> SUFFICES ASSUME NEW i \in TwoWayInfos' PROVE i \in TwoWayInfos
    OBVIOUS
  <2>1. i \in Info /\ HasInfo(i[1], i[3], i[2])' /\ TwoWay(i[1])'
    BY DEF TwoWayInfos, Infos, Info
  <2>2. i[1] \in Device /\ i[2] \in Direction /\ i[3] \in Nat
    BY <2>1, InfoType
  <2>3. ~gone /\ i[3] < subs'[i[1]][i[2]]
    BY <1>1, <2>1 DEF HasInfo
  <2>4. subs'[i[1]] = subs[i[1]] /\ TwoWay(i[1])
    BY <1>3, <2>1, <2>2
  <2> QED BY <2>1, <2>2, <2>3, <2>4 DEF TwoWayInfos, Infos, Info, HasInfo
<1> QED BY <1>1, <1>5, <1>6 DEF FullInv, PassedYielded, Passed, Yielded, counts

LEMMA NextFullInv == RawInv /\ FullInv /\ [RawNext]_rawVars => FullInv'
<1> SUFFICES ASSUME RawInv, FullInv, [RawNext]_rawVars PROVE FullInv'
  OBVIOUS
<1>1. CASE UNCHANGED rawVars
  BY <1>1 DEF rawVars, card, counts, FullInv, CountsAgree, PassedYielded,
     TwoWayInfos, Infos, HasInfo, Passed, Yielded, TwoWay
<1> QED BY <1>1, ItemFull, DeviceFull, CountsFull, CardFull DEF RawNext

\* When rawmidi::Iter ends it has yielded every subdevice the card has of devices
\* with both directions, whatever fails and goes away, and however many devices
\* with one direction lie in between.
THEOREM IterEndsComplete == RawSpec => TwoWayComplete
<1>1. RawInv /\ FullInv /\ [RawNext]_rawVars =>
        [device # -1 /\ device' = -1 =>
           \A i \in Infos : TwoWay(i[1]) => Yielded(i)]_rawVars
  <2> SUFFICES ASSUME RawInv, FullInv, RawNext, device # -1, device' = -1,
                      NEW i \in TwoWayInfos
               PROVE  Yielded(i)
    BY DEF TwoWayInfos
  <2>1. NextDevice
    BY DEF RawNext, CaptureItem, PlaybackItem, CountSubdevices, DeviceGoes, CardGoes
  <2>2. ~moving /\ current - in_count >= out_count /\ later = {}
    BY <2>1 DEF NextDevice, later, Device
  <2>3. RawTypeOK
    BY DEF RawInv
  <2>4. i[1] \in Device /\ Exists(i[1])
    BY <2>3, InfosFacts DEF TwoWayInfos
  <2>5. i[1] <= device
    BY <2>2, <2>3, <2>4, IterAssumption DEF later, RawTypeOK, Device
  <2> QED BY <2>2, <2>3, <2>5, AllPassed DEF FullInv, PassedYielded
<1>2. RawInit => FullInv
  BY InitFullInv
<1> QED BY InitRawInv, NextRawInv, NextFullInv, <1>1, <1>2, PTL DEF RawSpec, TwoWayComplete

-----------------------------------------------------------------------------
(* The other iterators                                                     *)

\* How many of the subscriptions there are are not younger.
Rank(x) == Cardinality({y \in list : y <= x})

\* What lies behind an iterator's field with the value p.
Behind(x, p) ==
  \/ kind = "subscription" /\ Rank(x) <= p
  \/ kind \in Snapshots /\ \E j \in 1 .. p : j <= Len(snap) /\ x <= snap[j]
  \/ kind \in Numbered \cup Pointed /\ x <= p

\* What the iterator can list.
Listable == IF kind \in Snapshots THEN {snap[j] : j \in 1 .. Len(snap)} ELSE list

EnumTypes ==
  /\ kind \in Kinds /\ pos \in Nat
  /\ list \subseteq aged /\ aged \subseteq Things /\ stay \subseteq list
  /\ things \in Seq(Things) /\ \A k \in DOMAIN things : kind = "subscription" => things[k] \in aged
  /\ snap \in Seq(Things) /\ \A i, j \in 1 .. Len(snap) : i < j => snap[i] < snap[j]

\* A pass that is to list everything begins at the start.
FromTheStart ==
  last = "none" /\ kind \notin Snapshots \cup {"mixer_elem", "pcm_device"} => pos = 0

\* During a pass what was yielded lies behind the field: this keeps the order.
\* A subscription that is removed moves the others up, and those that were
\* yielded stay behind.
YieldedBehind == last # "none" => \A k \in DOMAIN things : Behind(things[k], pos)

\* During a pass that misses nothing, what lies behind the field was yielded.
BehindYielded ==
  last # "none" /\ whole /\ ~(kind = "subscription" /\ shrunk) =>
    /\ stay \subseteq Listable
    /\ \A x \in stay : Behind(x, pos) => \E k \in DOMAIN things : things[k] = x

EnumInv == EnumTypes /\ FromTheStart /\ YieldedBehind /\ BehindYielded /\ NoRepeat /\ PassComplete

\* A call that finds x and leaves p in the field: x lies ahead of all that was
\* yielded, and nothing else is passed over.
Ahead(x, p) ==
  /\ \A t \in Things : Behind(t, pos) => t < x /\ Behind(t, p)
  /\ Behind(x, p)
  /\ \A t \in Listable : Behind(t, p) => Behind(t, pos) \/ t = x

AtEnd == \A t \in Listable : Behind(t, pos)

\* Ranks in a finite set of numbers.
LEMMA Ranks ==
  ASSUME NEW S \in SUBSET Things
  PROVE  /\ Cardinality(S) \in Nat
         /\ \A x : /\ Cardinality({y \in S : y <= x}) \in Nat
                   /\ Cardinality({y \in S : y < x}) \in Nat
                   /\ Cardinality({y \in S : y <= x}) <= Cardinality(S)
         /\ \A x \in S : Cardinality({y \in S : y <= x}) = Cardinality({y \in S : y < x}) + 1
         /\ \A x, z \in Things : x < z =>
              Cardinality({y \in S : y <= x}) <= Cardinality({y \in S : y < z})
<1>1. IsFiniteSet(S) /\ Things \subseteq Nat
  BY ThingsAssumption, FS_Subset
<1>2. Cardinality(S) \in Nat
  BY <1>1, FS_CardinalityType
<1>3. ASSUME NEW x
      PROVE  /\ IsFiniteSet({y \in S : y <= x}) /\ IsFiniteSet({y \in S : y < x})
             /\ Cardinality({y \in S : y <= x}) \in Nat
             /\ Cardinality({y \in S : y < x}) \in Nat
             /\ Cardinality({y \in S : y <= x}) <= Cardinality(S)
  <2>1. {y \in S : y <= x} \in SUBSET S /\ {y \in S : y < x} \in SUBSET S
    OBVIOUS
  <2> QED BY <1>1, <2>1, FS_Subset, FS_CardinalityType
<1>4. ASSUME NEW x \in S
      PROVE  Cardinality({y \in S : y <= x}) = Cardinality({y \in S : y < x}) + 1
  <2> DEFINE B == {y \in S : y < x}
  <2>1. {y \in S : y <= x} = B \cup {x} /\ x \notin B
    <3>1. \A y \in S : y \in Nat
      BY <1>1
    <3>2. \A y \in S : y <= x <=> y < x \/ y = x
      BY <3>1
    <3>3. ~(x < x)
      BY <3>1
    <3> QED BY <3>2, <3>3
  <2>2. IsFiniteSet(B)
    BY <1>3
  <2> HIDE DEF B
  <2>3. Cardinality(B \cup {x}) = Cardinality(B) + 1
    BY <2>1, <2>2, FS_AddElement
  <2> QED BY <2>1, <2>3 DEF B
<1>5. ASSUME NEW x \in Things, NEW z \in Things, x < z
      PROVE  Cardinality({y \in S : y <= x}) <= Cardinality({y \in S : y < z})
  <2>1. {y \in S : y <= x} \in SUBSET {y \in S : y < z}
    <3>1. \A y \in S : y \in Nat /\ x \in Nat /\ z \in Nat
      BY <1>1
    <3>2. \A y \in S : y <= x => y < z
      BY <1>5, <3>1
    <3> QED BY <3>2
  <2> QED BY <1>3, <2>1, FS_Subset
<1> QED BY <1>2, <1>3, <1>4, <1>5

\* The numbers and pointers.
LEMMA NextOneAhead ==
  ASSUME EnumTypes, kind \in Numbered \cup Pointed, NEW x \in NextOnes
  PROVE  x \in Things /\ x \in Nat /\ Ahead(x, x)
<1>1. x \in list /\ x > pos /\ \A y \in list : y > pos => x <= y
  BY DEF NextOnes, Later
<1>2. Things \subseteq Nat /\ pos \in Nat /\ list \subseteq Things
  BY ThingsAssumption DEF EnumTypes
<1>3. kind # "subscription" /\ kind \notin Snapshots
  BY DEF Numbered, Pointed, Snapshots
<1>4. Listable = list
  BY <1>3 DEF Listable
<1>5. \A t, p : Behind(t, p) <=> t <= p
  BY <1>3 DEF Behind
<1> QED BY <1>1, <1>2, <1>4, <1>5 DEF Ahead

LEMMA NoneLater ==
  ASSUME EnumTypes, kind \in Numbered \cup Pointed, Later = {}
  PROVE  AtEnd
<1>1. kind # "subscription" /\ kind \notin Snapshots
  BY DEF Numbered, Pointed, Snapshots
<1>2. \A t \in list : t <= pos
  BY ThingsAssumption DEF EnumTypes, Later
<1> QED BY <1>1, <1>2 DEF AtEnd, Listable, Behind

\* The snapshots.
LEMMA SnapAhead ==
  ASSUME EnumTypes, kind \in Snapshots, pos < Len(snap)
  PROVE  snap[pos + 1] \in Things /\ Ahead(snap[pos + 1], pos + 1)
<1>1. /\ pos \in Nat /\ Len(snap) \in Nat
      /\ \A j \in 1 .. Len(snap) : snap[j] \in Things /\ snap[j] \in Nat
      /\ \A i, j \in 1 .. Len(snap) : i < j => snap[i] < snap[j]
  BY LenProperties, ElementOfSeq, ThingsAssumption DEF EnumTypes
<1>2. kind # "subscription" /\ kind \notin Numbered \cup Pointed
  BY DEF Numbered, Pointed, Snapshots
<1>3. \A t, p : Behind(t, p) <=> \E j \in 1 .. p : j <= Len(snap) /\ t <= snap[j]
  BY <1>2 DEF Behind
<1>4. pos + 1 \in 1 .. Len(snap) /\ pos + 1 \in 1 .. pos + 1
  BY <1>1
<1> DEFINE x == snap[pos + 1]
<1>5. x \in Things /\ x \in Nat
  BY <1>1, <1>4
<1>6. Behind(x, pos + 1)
  BY <1>3, <1>4, <1>5
<1>7. ASSUME NEW t \in Things, Behind(t, pos)
      PROVE  t < x /\ Behind(t, pos + 1)
  <2>1. PICK j \in 1 .. pos : j <= Len(snap) /\ t <= snap[j]
    BY <1>3, <1>7
  <2>2. j \in 1 .. Len(snap) /\ j < pos + 1 /\ j \in 1 .. pos + 1
    BY <1>1, <2>1
  <2>3. snap[j] < x /\ snap[j] \in Nat /\ t \in Nat
    BY <1>1, <1>4, <2>2, ThingsAssumption
  <2>4. t < x
    BY <1>5, <2>1, <2>3
  <2> QED BY <1>3, <2>1, <2>2, <2>4
<1>8. ASSUME NEW t \in Listable, Behind(t, pos + 1), ~Behind(t, pos)
      PROVE  t = x
  <2>1. PICK i \in 1 .. Len(snap) : t = snap[i]
    BY DEF Listable
  <2>2. PICK j \in 1 .. pos + 1 : j <= Len(snap) /\ t <= snap[j]
    BY <1>3, <1>8
  <2>3. j \in 1 .. Len(snap) /\ snap[i] \in Nat /\ snap[j] \in Nat
    BY <1>1, <2>2
  <2>4. ~(j < i)
    BY <1>1, <2>1, <2>2, <2>3
  <2>5. ~(i <= pos)
    <3>1. t <= snap[i]
      BY <2>1, <2>3
    <3> QED BY <1>1, <1>3, <1>8, <3>1
  <2>6. i = pos + 1
    BY <1>1, <2>2, <2>4, <2>5
  <2> QED BY <2>1, <2>6
<1> HIDE DEF x
<1>9. Ahead(x, pos + 1)
  BY <1>6, <1>7, <1>8 DEF Ahead
<1> QED BY <1>5, <1>9 DEF x

LEMMA SnapEnd ==
  ASSUME EnumTypes, kind \in Snapshots, pos >= Len(snap)
  PROVE  AtEnd
<1>1. /\ pos \in Nat /\ Len(snap) \in Nat
      /\ \A j \in 1 .. Len(snap) : snap[j] \in Nat
  BY LenProperties, ElementOfSeq, ThingsAssumption DEF EnumTypes
<1>2. ASSUME NEW j \in 1 .. Len(snap) PROVE Behind(snap[j], pos)
  <2>1. j \in 1 .. pos /\ j <= Len(snap) /\ snap[j] <= snap[j]
    BY <1>1
  <2> QED BY <2>1 DEF Behind
<1> QED BY <1>2 DEF AtEnd, Listable

\* The subscriptions: the one with an index is the one that many are older than.
LEMMA SubscriptionAhead ==
  ASSUME EnumTypes, kind = "subscription", NEW x \in list, Older(x) = pos
  PROVE  x \in Things /\ Ahead(x, pos + 1)
<1>1. list \in SUBSET Things /\ Things \subseteq Nat /\ pos \in Nat /\ x \in Things
  BY ThingsAssumption DEF EnumTypes
<1>2. /\ \A t : Rank(t) \in Nat
      /\ \A t \in list : Rank(t) = Older(t) + 1 /\ Older(t) \in Nat
      /\ \A t, z \in Things : t < z => Rank(t) <= Older(z)
  BY <1>1, Ranks DEF Rank, Older
<1>3. kind \notin Snapshots /\ kind \notin Numbered \cup Pointed
  BY DEF Numbered, Pointed, Snapshots
<1>4. \A t, p : Behind(t, p) <=> Rank(t) <= p
  BY <1>3 DEF Behind
<1>5. Listable = list
  BY <1>3 DEF Listable
<1>6. Rank(x) = pos + 1
  BY <1>2
<1>7. ASSUME NEW t \in Things, Rank(t) <= pos
      PROVE  t < x /\ Rank(t) <= pos + 1
  <2>1. t # x
    BY <1>1, <1>6, <1>7
  <2>2. ~(x < t)
    <3>1. SUFFICES ASSUME x < t PROVE FALSE
      OBVIOUS
    <3>2. {y \in list : y <= x} \in SUBSET {y \in list : y <= t}
      <4>1. \A y \in list : y \in Nat /\ x \in Nat /\ t \in Nat
        BY <1>1
      <4>2. \A y \in list : y <= x => y <= t
        BY <3>1, <4>1
      <4> QED BY <4>2
    <3>3. Rank(x) <= Rank(t)
      <4>1. {y \in list : y <= t} \in SUBSET Things
        BY <1>1
      <4>2. IsFiniteSet({y \in list : y <= t})
        BY <4>1, ThingsAssumption, FS_Subset
      <4> QED BY <3>2, <4>2, FS_Subset DEF Rank
    <3> QED BY <1>1, <1>2, <1>6, <1>7, <3>3
  <2>3. t \in Nat /\ x \in Nat
    BY <1>1
  <2> QED BY <1>1, <1>2, <1>7, <2>1, <2>2, <2>3
<1>8. ASSUME NEW t \in list, Rank(t) <= pos + 1, ~(Rank(t) <= pos)
      PROVE  t = x
  <2>1. t \in Things /\ t \in Nat /\ x \in Nat
    BY <1>1
  <2>2. Rank(t) = pos + 1
    BY <1>1, <1>2, <1>8
  <2>3. ~(t < x)
    BY <1>1, <1>2, <2>1, <2>2
  <2>4. ~(x < t)
    <3>1. SUFFICES ASSUME x < t PROVE FALSE
      OBVIOUS
    <3>2. Rank(x) <= Older(t) /\ Rank(t) = Older(t) + 1 /\ Older(t) \in Nat
      BY <1>1, <1>2, <2>1, <3>1
    <3> QED BY <1>1, <1>6, <2>2, <3>2
  <2> QED BY <2>1, <2>3, <2>4
<1>9. Rank(x) <= pos + 1
  BY <1>1, <1>6
<1> QED BY <1>1, <1>4, <1>5, <1>7, <1>8, <1>9 DEF Ahead

LEMMA SubscriptionEnd ==
  ASSUME EnumTypes, kind = "subscription", pos >= Cardinality(list)
  PROVE  AtEnd
<1>1. /\ \A t : Rank(t) \in Nat /\ Rank(t) <= Cardinality(list)
      /\ Cardinality(list) \in Nat /\ pos \in Nat
  BY Ranks DEF EnumTypes, Rank
<1>2. \A t : Rank(t) <= pos
  BY <1>1
<1> QED BY <1>2 DEF AtEnd, Behind, Listable

\* At the start nothing lies behind.
LEMMA NothingBehind ==
  ASSUME EnumTypes, NEW x \in list
  PROVE  ~Behind(x, 0)
<1>1. x \in Nat \ {0} /\ list \in SUBSET Things
  BY ThingsAssumption DEF EnumTypes
<1>2. ~(Rank(x) <= 0)
  <2>1. Older(x) \in Nat /\ Rank(x) = Older(x) + 1
    BY <1>1, Ranks DEF Rank, Older
  <2> QED BY <2>1
<1> QED BY <1>1, <1>2 DEF Behind

LEMMA InitEnumInv == EnumInit => EnumInv
<1> SUFFICES ASSUME EnumInit PROVE EnumInv
  OBVIOUS
<1>1. things = <<>> /\ things \in Seq(Things) /\ DOMAIN things = {} /\ Len(things) = 0
  BY DEF EnumInit
<1>2. list \in SUBSET Things /\ snap \in Listed(list)
  BY DEF EnumInit
<1>3. Cardinality(list) \in Nat
  BY <1>2, Ranks
<1>4. /\ snap \in [1 .. Cardinality(list) -> list]
      /\ \A i, j \in 1 .. Cardinality(list) : i < j => snap[i] < snap[j]
      /\ \A x \in list : \E i \in 1 .. Cardinality(list) : snap[i] = x
  BY <1>2 DEF Listed
<1>5. snap \in Seq(Things) /\ Len(snap) = Cardinality(list)
  BY <1>2, <1>3, <1>4
<1>6. EnumTypes
  BY <1>1, <1>2, <1>4, <1>5 DEF EnumInit, EnumTypes
<1>7. list \subseteq Listable
  BY <1>4, <1>5 DEF Listable
<1>8. BehindYielded
  BY <1>6, <1>7, NothingBehind DEF EnumInit, BehindYielded
<1> QED BY <1>1, <1>6, <1>8
        DEF EnumInit, EnumInv, FromTheStart, YieldedBehind, NoRepeat, PassComplete

\* What a call of any of the iterators does.
LEMMA CallMoves ==
  ASSUME EnumInv, NextCall
  PROVE  /\ Call
         /\ \/ \E x \in Things, p \in Nat :
                 Yields(x, p) /\ Ahead(x, p) /\ (kind = "subscription" => x \in list)
            \/ \E p \in Nat :
                 /\ Ends(p) /\ AtEnd
                 /\ kind \notin Snapshots \cup {"mixer_elem", "pcm_device"} => p = 0
<1>1. EnumTypes /\ pos \in Nat
  BY DEF EnumInv, EnumTypes
<1>2. CASE NextNumbered /\ kind \in Numbered
  <2>1. Call /\ \/ \E x \in NextOnes : Yields(x, x)
                \/ Later = {} /\ Ends(0)
    BY <1>2 DEF NextNumbered
  <2>2. kind # "subscription"
    BY <1>2 DEF Numbered
  <2> QED BY <1>1, <1>2, <2>1, <2>2, NextOneAhead, NoneLater
<1>3. CASE NextPointed /\ kind \in Pointed
  <2>1. Call /\ \/ \E x \in NextOnes : Yields(x, x)
                \/ Later = {} /\ Ends(IF kind = "hctl_elem" THEN 0 ELSE pos)
    BY <1>3 DEF NextPointed
  <2>2. kind # "subscription" /\ (kind # "mixer_elem" => kind = "hctl_elem")
    BY <1>3 DEF Pointed
  <2>3. CASE \E x \in NextOnes : Yields(x, x)
    BY <1>1, <1>3, <2>1, <2>2, <2>3, NextOneAhead
  <2>4. CASE Later = {} /\ Ends(IF kind = "hctl_elem" THEN 0 ELSE pos)
    <3>1. AtEnd
      BY <1>1, <1>3, <2>4, NoneLater
    <3>2. CASE kind = "hctl_elem"
      BY <2>1, <2>4, <3>1, <3>2
    <3>3. CASE kind # "hctl_elem"
      BY <1>1, <2>1, <2>2, <2>4, <3>1, <3>3
    <3> QED BY <3>2, <3>3
  <2> QED BY <2>1, <2>3, <2>4
<1>4. CASE NextOfSnapshot /\ kind \in Snapshots
  <2>1. Call /\ \/ pos < Len(snap) /\ Yields(snap[pos + 1], pos + 1)
                \/ pos >= Len(snap) /\ Ends(pos)
    BY <1>4 DEF NextOfSnapshot
  <2>2. kind # "subscription" /\ pos + 1 \in Nat
    BY <1>1, <1>4 DEF Snapshots
  <2>3. CASE pos < Len(snap) /\ Yields(snap[pos + 1], pos + 1)
    <3>1. snap[pos + 1] \in Things /\ Ahead(snap[pos + 1], pos + 1)
      BY <1>1, <1>4, <2>3, SnapAhead
    <3> QED BY <2>1, <2>2, <2>3, <3>1
  <2>4. CASE pos >= Len(snap) /\ Ends(pos)
    BY <1>1, <1>4, <2>1, <2>4, SnapEnd
  <2> QED BY <2>1, <2>3, <2>4
<1>5. CASE NextSubscription
  <2>1. Call /\ kind = "subscription"
        /\ \/ \E x \in list : Older(x) = pos /\ Yields(x, pos + 1)
           \/ pos >= Cardinality(list) /\ Ends(0)
    BY <1>5 DEF NextSubscription
  <2>2. pos + 1 \in Nat
    BY <1>1
  <2>3. CASE pos >= Cardinality(list) /\ Ends(0)
    BY <1>1, <2>1, <2>3, SubscriptionEnd
  <2>4. ASSUME NEW x \in list, Older(x) = pos, Yields(x, pos + 1)
        PROVE  \E z \in Things, p \in Nat : Yields(z, p) /\ Ahead(z, p) /\ z \in list
    BY <1>1, <2>1, <2>2, <2>4, SubscriptionAhead
  <2> QED BY <2>1, <2>3, <2>4
<1> QED BY <1>2, <1>3, <1>4, <1>5
        DEF NextCall, CardIter, DeviceIter, ClientIter, PortIter, HctlElemIter, MixerIter,
            HintIter, ChmapsQuery, IterEnum, PortSubscribeIter, Numbered, Pointed, Snapshots

\* When a pass begins anew that is to list everything, nothing lies behind.
LEMMA StartsAtZero ==
  ASSUME EnumInv, fresh, StartsOver
  PROVE  pos = 0 /\ Listable = list
BY DEF EnumInv, fresh, StartsOver, FromTheStart, Listable

\* What lies behind a value of the field is the same in the next state when
\* the list stays.
LEMMA SameBehind ==
  ASSUME UNCHANGED <<world, list>>
  PROVE  /\ \A t, p : Behind(t, p)' <=> Behind(t, p)
         /\ Listable' = Listable
BY DEF world, Behind, Rank, Listable

LEMMA YieldStep ==
  ASSUME EnumInv, Call, NEW x \in Things, NEW p \in Nat, Yields(x, p), Ahead(x, p),
         kind = "subscription" => x \in list
  PROVE  EnumInv'
<1>1. /\ UNCHANGED <<world, list, aged>> /\ last' = "item" /\ pos' = p
      /\ stay' = So(stay, list) /\ shrunk' = So(shrunk, FALSE)
      /\ whole' = So(whole, StartsOver)
      /\ things' = Append(So(things, <<>>), x)
  BY DEF Call, Yields
<1>2. \A t, v : Behind(t, v)' <=> Behind(t, v)
  BY <1>1, SameBehind
<1>3. Listable' = Listable
  BY <1>1, SameBehind
<1>4. PICK q \in Seq(Things) : /\ q = So(things, <<>>)
                               /\ fresh => q = <<>>
                               /\ ~fresh => q = things
  <2>1. <<>> \in Seq(Things)
    OBVIOUS
  <2> QED BY <2>1 DEF EnumInv, EnumTypes, So
<1>5. Len(q) \in Nat /\ DOMAIN q = 1 .. Len(q) /\ \A k \in DOMAIN q : q[k] \in Things
  BY LenProperties, ElementOfSeq
<1>6. \A k \in DOMAIN q : ~fresh /\ q[k] = things[k] /\ Behind(q[k], pos)
  <2>1. CASE fresh
    <3>1. q = <<>> /\ Len(q) = 0
      BY <1>4, <2>1
    <3> QED BY <1>5, <3>1
  <2>2. CASE ~fresh
    BY <1>4, <2>2 DEF EnumInv, YieldedBehind, fresh
  <2> QED BY <2>1, <2>2
<1>7. /\ things' \in Seq(Things) /\ Len(things') = Len(q) + 1
      /\ \A k \in 1 .. Len(q) : things'[k] = q[k]
      /\ things'[Len(q) + 1] = x
  BY <1>1, <1>4, AppendProperties
<1>8. DOMAIN things' = 1 .. Len(q) + 1
  BY <1>7, LenProperties
<1>9. \A k \in DOMAIN things' : (k \in DOMAIN q /\ things'[k] = q[k]) \/ things'[k] = x
  BY <1>5, <1>7, <1>8
<1>10. EnumTypes'
  <2>1. \A k \in DOMAIN things' : kind = "subscription" => things'[k] \in aged
    <3>1. \A k \in DOMAIN q : kind = "subscription" => q[k] \in aged
      BY <1>4, <1>6 DEF EnumInv, EnumTypes
    <3>2. kind = "subscription" => x \in aged
      BY DEF EnumInv, EnumTypes
    <3> QED BY <1>9, <3>1, <3>2
  <2>2. stay' \subseteq list
    BY <1>1 DEF So, EnumInv, EnumTypes
  <2> QED BY <1>1, <1>7, <2>1, <2>2 DEF EnumInv, EnumTypes, world
<1>11. YieldedBehind'
  <2>1. ASSUME NEW k \in DOMAIN things', NEW t, t = things'[k] PROVE Behind(t, p)
    BY <1>5, <1>6, <1>9, <2>1 DEF Ahead
  <2>2. \A k \in DOMAIN things' : \E t : t = things'[k] /\ Behind(t, p)'
    BY <1>2, <2>1
  <2> QED BY <1>1, <2>2 DEF YieldedBehind, Behind
<1>12. NoRepeat'
  <2>1. ASSUME NEW k \in 2 .. Len(q) + 1 PROVE things'[k - 1] < things'[k]
    <3>1. CASE k = Len(q) + 1
      <4>1. k - 1 = Len(q) /\ Len(q) \in DOMAIN q
        BY <1>5, <3>1
      <4>2. q[Len(q)] < x
        BY <1>5, <1>6, <4>1 DEF Ahead
      <4> QED BY <1>5, <1>7, <3>1, <4>1, <4>2
    <3>2. CASE k # Len(q) + 1
      <4>1. k \in 2 .. Len(q) /\ k \in 1 .. Len(q) /\ k - 1 \in 1 .. Len(q)
        BY <1>5, <3>2
      <4>2. ~fresh
        BY <1>5, <1>6, <4>1
      <4>3. q[k - 1] < q[k]
        BY <1>4, <4>1, <4>2 DEF EnumInv, NoRepeat
      <4> QED BY <1>7, <4>1, <4>3
    <3> QED BY <3>1, <3>2
  <2> QED BY <1>7, <2>1 DEF NoRepeat
<1>13. BehindYielded'
  <2> SUFFICES ASSUME whole', ~(kind' = "subscription" /\ shrunk')
               PROVE  /\ stay' \subseteq Listable'
                      /\ \A t \in stay' : Behind(t, pos)' =>
                           \E k \in DOMAIN things' : things'[k] = t
    BY DEF BehindYielded
  <2>1. x \in {things'[k] : k \in DOMAIN things'}
    <3>1. Len(q) + 1 \in DOMAIN things'
      BY <1>5, <1>8
    <3> QED BY <1>7, <3>1
  <2>2. CASE fresh
    <3>1. pos = 0 /\ Listable = list /\ stay' = list
      BY <1>1, <2>2, StartsAtZero DEF So
    <3>2. ASSUME NEW t \in list, Behind(t, p) PROVE t = x
      BY <3>1, <3>2, NothingBehind DEF Ahead, EnumInv
    <3>3. \A t \in list : Behind(t, pos)' => t = x
      BY <1>1, <1>2, <3>2 DEF Behind
    <3> QED BY <1>3, <2>1, <3>1, <3>3
  <2>3. CASE ~fresh
    <3>1. /\ stay' = stay /\ whole /\ ~(kind = "subscription" /\ shrunk) /\ q = things
      BY <1>1, <1>4, <2>3 DEF So, world
    <3>2. /\ stay \subseteq Listable
          /\ \A t \in stay : Behind(t, pos) => \E k \in DOMAIN q : q[k] = t
      BY <2>3, <3>1 DEF EnumInv, BehindYielded, fresh
    <3>3. ASSUME NEW t \in stay, Behind(t, p)
          PROVE  t \in {things'[k] : k \in DOMAIN things'}
      <4>1. CASE t = x
        BY <2>1, <4>1
      <4>2. CASE Behind(t, pos)
        <5>1. PICK k \in DOMAIN q : q[k] = t
          BY <3>2, <4>2
        <5>2. k \in DOMAIN things' /\ things'[k] = t
          BY <1>5, <1>7, <1>8, <5>1
        <5> QED BY <5>2
      <4> QED BY <3>2, <3>3, <4>1, <4>2 DEF Ahead
    <3>4. \A t \in stay : Behind(t, pos)' => Behind(t, p)
      BY <1>1, <1>2 DEF Behind
    <3> QED BY <1>3, <3>1, <3>2, <3>3, <3>4
  <2> QED BY <2>2, <2>3
<1> QED BY <1>1, <1>10, <1>11, <1>12, <1>13 DEF EnumInv, FromTheStart, PassComplete

LEMMA EndStep ==
  ASSUME EnumInv, Call, NEW p \in Nat, Ends(p), AtEnd,
         kind \notin Snapshots \cup {"mixer_elem", "pcm_device"} => p = 0
  PROVE  EnumInv'
<1>1. /\ UNCHANGED <<world, list, aged>> /\ last' = "none" /\ pos' = p
      /\ stay' = So(stay, list) /\ shrunk' = So(shrunk, FALSE)
      /\ whole' = So(whole, StartsOver) /\ things' = So(things, <<>>)
  BY DEF Call, Ends
<1>2. things' = <<>> \/ things' = things
  BY <1>1 DEF So
<1>3. EnumTypes'
  <2>1. /\ things' \in Seq(Things)
        /\ \A k \in DOMAIN things' : kind = "subscription" => things'[k] \in aged
    <3>1. CASE things' = <<>>
      <4>1. things' \in Seq(Things) /\ DOMAIN things' = {}
        BY <3>1
      <4> QED BY <4>1
    <3>2. CASE things' = things
      BY <3>2 DEF EnumInv, EnumTypes
    <3> QED BY <1>2, <3>1, <3>2
  <2>2. stay' \subseteq list
    BY <1>1 DEF So, EnumInv, EnumTypes
  <2> QED BY <1>1, <2>1, <2>2 DEF EnumInv, EnumTypes, world
<1>4. NoRepeat'
  <2>1. CASE things' = <<>>
    <3>1. Len(things') = 0
      BY <2>1
    <3> QED BY <3>1 DEF NoRepeat
  <2>2. CASE things' = things
    BY <2>2 DEF EnumInv, NoRepeat
  <2> QED BY <1>2, <2>1, <2>2
<1>5. PassComplete'
  <2> SUFFICES ASSUME whole', ~(kind' = "subscription" /\ shrunk'), NEW t \in stay'
               PROVE  \E k \in DOMAIN things' : things'[k] = t
    BY DEF PassComplete
  <2>1. CASE fresh
    <3>1. pos = 0 /\ Listable = list /\ t \in list
      BY <1>1, <2>1, StartsAtZero DEF So
    <3> QED BY <3>1, NothingBehind DEF AtEnd, EnumInv
  <2>2. CASE ~fresh
    <3>1. /\ t \in stay /\ whole /\ ~(kind = "subscription" /\ shrunk) /\ things' = things
      BY <1>1, <2>2 DEF So, world
    <3> QED BY <2>2, <3>1 DEF EnumInv, BehindYielded, fresh, AtEnd
  <2> QED BY <2>1, <2>2
<1>6. FromTheStart'
  BY <1>1 DEF FromTheStart, world
<1> QED BY <1>1, <1>3, <1>4, <1>5, <1>6 DEF EnumInv, YieldedBehind, BehindYielded

\* A call that fails: the pass misses what it may, and repeats nothing.
LEMMA InterruptedStep ==
  ASSUME EnumInv, Interrupted
  PROVE  EnumInv'
<1>1. /\ UNCHANGED <<world, list, aged>> /\ whole' = FALSE
      /\ last' = IF kind = "card" THEN "error" ELSE "none"
      /\ pos' = IF kind \in {"client", "port"} THEN 0 ELSE pos
      /\ stay' = So(stay, list) /\ things' = So(things, <<>>)
      /\ kind \in Numbered
  BY DEF Interrupted, Call, Fails
<1>2. things' = <<>> \/ (things' = things /\ ~fresh)
  BY <1>1 DEF So
<1>3. EnumTypes'
  <2>1. /\ things' \in Seq(Things)
        /\ \A k \in DOMAIN things' : kind = "subscription" => things'[k] \in aged
    <3>1. CASE things' = <<>>
      <4>1. things' \in Seq(Things) /\ DOMAIN things' = {}
        BY <3>1
      <4> QED BY <4>1
    <3>2. CASE things' = things
      BY <3>2 DEF EnumInv, EnumTypes
    <3> QED BY <1>2, <3>1, <3>2
  <2>2. stay' \subseteq list
    BY <1>1 DEF So, EnumInv, EnumTypes
  <2> QED BY <1>1, <2>1, <2>2 DEF EnumInv, EnumTypes, world
<1>4. NoRepeat' /\ YieldedBehind'
  <2>1. CASE things' = <<>>
    <3>1. Len(things') = 0 /\ DOMAIN things' = {}
      BY <2>1
    <3> QED BY <3>1 DEF NoRepeat, YieldedBehind
  <2>2. CASE things' = things /\ ~fresh
    <3>1. NoRepeat'
      BY <2>2 DEF EnumInv, NoRepeat
    <3>2. last' # "none" => pos' = pos
      BY <1>1
    <3>3. \A k \in DOMAIN things : Behind(things[k], pos)
      BY <2>2 DEF EnumInv, YieldedBehind, fresh
    <3>4. YieldedBehind'
      BY <1>1, <2>2, <3>2, <3>3 DEF YieldedBehind, Behind, Rank, world
    <3> QED BY <3>1, <3>4
  <2> QED BY <1>2, <2>1, <2>2
<1>5. FromTheStart'
  BY <1>1 DEF FromTheStart, world, Numbered
<1> QED BY <1>1, <1>3, <1>4, <1>5 DEF EnumInv, BehindYielded, PassComplete

\* A new subscription is younger than all that were yielded.
LEMMA AppearStep ==
  ASSUME EnumInv, NEW x \in Things, Appear(x)
  PROVE  EnumInv'
<1>1. /\ UNCHANGED <<world, pos, last, things, stay, whole, shrunk>>
      /\ list' = list \cup {x} /\ aged' = aged \cup {x}
      /\ kind = "subscription" => \A y \in aged : y < x
  BY DEF Appear
<1>2. EnumTypes'
  BY <1>1 DEF EnumInv, EnumTypes, world
<1>3. ASSUME NEW t \in Things, kind = "subscription" => t \in aged
      PROVE  Behind(t, pos)' <=> Behind(t, pos)
  <2>1. kind = "subscription" => Rank(t)' = Rank(t)
    <3> SUFFICES ASSUME kind = "subscription" PROVE Rank(t)' = Rank(t)
      OBVIOUS
    <3>1. t \in Nat /\ x \in Nat /\ t < x
      BY <1>1, <1>3, ThingsAssumption
    <3>2. {y \in list' : y <= t} = {y \in list : y <= t}
      <4>1. ~(x <= t)
        BY <3>1
      <4> QED BY <1>1, <4>1
    <3> QED BY <3>2 DEF Rank
  <2> QED BY <1>1, <2>1 DEF Behind, world
<1>4. NoRepeat' /\ PassComplete' /\ FromTheStart'
  BY <1>1 DEF EnumInv, NoRepeat, PassComplete, FromTheStart, world
<1>5. YieldedBehind'
  <2> SUFFICES ASSUME last # "none" PROVE YieldedBehind'
    BY <1>1 DEF YieldedBehind
  <2>1. ASSUME NEW k \in DOMAIN things
        PROVE  \E t \in Things : t = things[k] /\ Behind(t, pos)'
    <3>1. things[k] \in Things /\ (kind = "subscription" => things[k] \in aged)
      BY ElementOfSeq, LenProperties DEF EnumInv, EnumTypes
    <3>2. PICK t \in Things : t = things[k]
      BY <3>1
    <3>3. Behind(t, pos)
      BY <3>2 DEF EnumInv, YieldedBehind
    <3> QED BY <1>3, <3>1, <3>2, <3>3
  <2> QED BY <1>1, <2>1 DEF YieldedBehind, Behind
<1>6. BehindYielded'
  <2> SUFFICES ASSUME last # "none", whole, ~(kind = "subscription" /\ shrunk)
               PROVE  /\ stay \subseteq Listable'
                      /\ \A t \in stay : Behind(t, pos)' =>
                           \E k \in DOMAIN things : things[k] = t
    BY <1>1 DEF BehindYielded, world
  <2>1. /\ stay \subseteq Listable
        /\ \A t \in stay : Behind(t, pos) => \E k \in DOMAIN things : things[k] = t
    BY DEF EnumInv, BehindYielded
  <2>2. Listable \subseteq Listable'
    BY <1>1 DEF Listable, world
  <2>3. \A t \in stay : t \in Things /\ t \in aged
    BY DEF EnumInv, EnumTypes
  <2> QED BY <1>3, <2>1, <2>2, <2>3
<1> QED BY <1>2, <1>4, <1>5, <1>6 DEF EnumInv

\* What was yielded stays behind the field when a subscription goes away.
LEMMA VanishStep ==
  ASSUME EnumInv, NEW x \in Things, Vanish(x)
  PROVE  EnumInv'
<1>1. /\ UNCHANGED <<world, aged, pos, last, things, whole>>
      /\ list' = list \ {x} /\ stay' = stay \ {x} /\ shrunk' = TRUE
  BY DEF Vanish
<1>2. EnumTypes'
  BY <1>1 DEF EnumInv, EnumTypes, world
<1>3. ASSUME NEW t, Behind(t, pos) PROVE Behind(t, pos)'
  <2>1. Rank(t)' <= Rank(t) /\ Rank(t)' \in Nat /\ Rank(t) \in Nat
    <3>1. list \in SUBSET Things /\ list' \in SUBSET Things
      BY <1>1 DEF EnumInv, EnumTypes
    <3>2. {y \in list' : y <= t} \in SUBSET {y \in list : y <= t}
      BY <1>1
    <3>3. {y \in list : y <= t} \in SUBSET Things
      BY <3>1
    <3>4. IsFiniteSet({y \in list : y <= t})
      BY <3>3, ThingsAssumption, FS_Subset
    <3>5. Cardinality({y \in list' : y <= t}) <= Cardinality({y \in list : y <= t})
      BY <3>2, <3>4, FS_Subset
    <3>6. /\ Cardinality({y \in list' : y <= t}) \in Nat
          /\ Cardinality({y \in list : y <= t}) \in Nat
      BY <3>1, Ranks
    <3> QED BY <3>5, <3>6 DEF Rank
  <2>2. pos' = pos /\ pos \in Nat /\ kind' = kind /\ snap' = snap
    BY <1>1 DEF EnumInv, EnumTypes, world
  <2>3. Rank(t) <= pos => Rank(t)' <= pos
    BY <2>1, <2>2
  <2> QED BY <1>3, <2>2, <2>3 DEF Behind
<1>4. NoRepeat' /\ PassComplete' /\ FromTheStart'
  BY <1>1 DEF EnumInv, NoRepeat, PassComplete, FromTheStart, world
<1>5. YieldedBehind'
  <2> SUFFICES ASSUME last # "none" PROVE YieldedBehind'
    BY <1>1 DEF YieldedBehind
  <2>1. \A k \in DOMAIN things : \E t : t = things[k] /\ Behind(t, pos)'
    BY <1>3 DEF EnumInv, YieldedBehind
  <2> QED BY <1>1, <2>1 DEF YieldedBehind, Behind
<1>6. BehindYielded'
  <2> SUFFICES ASSUME last # "none", whole, kind # "subscription"
               PROVE  /\ stay' \subseteq Listable'
                      /\ \A t \in stay' : Behind(t, pos)' =>
                           \E k \in DOMAIN things : things[k] = t
    BY <1>1 DEF BehindYielded, world
  <2>1. /\ stay \subseteq Listable
        /\ \A t \in stay : Behind(t, pos) => \E k \in DOMAIN things : things[k] = t
    BY DEF EnumInv, BehindYielded
  <2>2. stay' \subseteq Listable'
    BY <1>1, <2>1 DEF Listable, world
  <2>3. \A t : Behind(t, pos)' => Behind(t, pos)
    BY <1>1 DEF Behind, world
  <2> QED BY <1>1, <2>1, <2>2, <2>3
<1> QED BY <1>2, <1>4, <1>5, <1>6 DEF EnumInv

LEMMA NextEnumInv == EnumInv /\ [EnumNext]_enumVars => EnumInv'
<1> SUFFICES ASSUME EnumInv, [EnumNext]_enumVars PROVE EnumInv'
  OBVIOUS
<1>1. CASE NextCall
  BY <1>1, CallMoves, YieldStep, EndStep
<1>2. CASE UNCHANGED enumVars
  <2>1. UNCHANGED <<kind, snap, list, aged, pos, last, things, stay, whole, shrunk>>
    BY <1>2 DEF enumVars, world
  <2>2. EnumTypes' /\ FromTheStart'
    BY <2>1 DEF EnumInv, EnumTypes, FromTheStart
  <2>3. NoRepeat' /\ PassComplete'
    BY <2>1 DEF EnumInv, NoRepeat, PassComplete
  <2>4. YieldedBehind'
    BY <2>1 DEF EnumInv, YieldedBehind, Behind, Rank
  <2>5. BehindYielded'
    <3>1. Listable' = Listable
      BY <2>1 DEF Listable
    <3>2. \A t : Behind(t, pos)' <=> Behind(t, pos)
      BY <2>1, SameBehind DEF world
    <3>3. BehindYielded
      BY DEF EnumInv
    <3> QED BY <2>1, <3>1, <3>2, <3>3 DEF BehindYielded
  <2> QED BY <2>2, <2>3, <2>4, <2>5 DEF EnumInv
<1> QED BY <1>1, <1>2, InterruptedStep, AppearStep, VanishStep DEF EnumNext

\* No pass of an iterator yields a thing twice or out of order.
THEOREM NeverRepeat == EnumSpec => []NoRepeat
<1>1. EnumInv => NoRepeat
  BY DEF EnumInv
<1> QED BY InitEnumInv, NextEnumInv, <1>1, PTL DEF EnumSpec

\* A pass that no error cut short has yielded all that existed throughout it.
THEOREM PassesComplete == EnumSpec => []PassComplete
<1>1. EnumInv => PassComplete
  BY DEF EnumInv
<1> QED BY InitEnumInv, NextEnumInv, <1>1, PTL DEF EnumSpec

-----------------------------------------------------------------------------
(* How long a pass may be                                                  *)

NatLess == {p \in Nat \X Nat : p[1] < p[2]}

\* In a list whose neighbours are in order all are: of the pairs that are not,
\* those that are closest together would have one closer between them.
LEMMA AllInOrder ==
  ASSUME NEW q \in Seq(Things), \A k \in 2 .. Len(q) : q[k - 1] < q[k],
         NEW i \in 1 .. Len(q), NEW j \in 1 .. Len(q), i < j
  PROVE  q[i] < q[j]
<1> DEFINE Wrong == {d \in Nat : \E a, b \in 1 .. Len(q) : a < b /\ b - a = d /\ ~(q[a] < q[b])}
<1>1. Len(q) \in Nat /\ \A k \in 1 .. Len(q) : q[k] \in Nat
  BY LenProperties, ElementOfSeq, ThingsAssumption
<1> SUFFICES ASSUME ~(q[i] < q[j]) PROVE FALSE
  OBVIOUS
<1>2. j - i \in Wrong
  BY <1>1
<1>3. PICK d \in Wrong : \A e \in Wrong : ~(e < d)
  <2>1. IsWellFoundedOn(NatLess, Nat)
    BY NatLessThanWellFounded DEF OpToRel, NatLess
  <2>2. Wrong \subseteq Nat /\ Wrong # {}
    BY <1>2
  <2> HIDE DEF Wrong
  <2>3. \E d \in Wrong : \A e \in Wrong : ~(<<e, d>> \in NatLess)
    BY <2>1, <2>2, WFMin
  <2> QED BY <2>2, <2>3 DEF NatLess
<1>4. PICK a, b \in 1 .. Len(q) : a < b /\ b - a = d /\ ~(q[a] < q[b])
  OBVIOUS
<1>5. CASE a + 1 = b
  BY <1>1, <1>4, <1>5
<1>6. CASE a + 1 < b
  <2>1. a + 1 \in 2 .. Len(q) /\ q[a] < q[a + 1]
    <3>1. a + 1 \in 2 .. Len(q) /\ (a + 1) - 1 = a
      BY <1>1, <1>4, <1>6
    <3> QED BY <3>1
  <2>2. ~(q[a + 1] < q[b])
    <3>1. q[a] \in Nat /\ q[a + 1] \in Nat /\ q[b] \in Nat
      BY <1>1, <2>1
    <3>2. \A x, y, z \in Nat : x < y /\ ~(x < z) => ~(y < z)
      OBVIOUS
    <3> HIDE DEF Wrong
    <3> QED BY <1>4, <2>1, <3>1, <3>2
  <2>3. b - (a + 1) \in Nat /\ b - (a + 1) < d
    BY <1>1, <1>4, <1>6
  <2>4. b - (a + 1) \in Wrong
    BY <1>1, <1>6, <2>1, <2>2, <2>3
  <2> QED BY <1>3, <2>3, <2>4
<1> QED BY <1>1, <1>4, <1>5, <1>6

\* A list in order has no more members than there are things.
LEMMA ShortList ==
  ASSUME NEW q \in Seq(Things), \A k \in 2 .. Len(q) : q[k - 1] < q[k]
  PROVE  Len(q) <= Cardinality(Things)
<1>1. Len(q) \in Nat /\ DOMAIN q = 1 .. Len(q)
      /\ \A k \in 1 .. Len(q) : q[k] \in Things /\ q[k] \in Nat
  BY LenProperties, ElementOfSeq, ThingsAssumption
<1>2. ASSUME NEW i \in 1 .. Len(q), NEW j \in 1 .. Len(q), q[i] = q[j]
      PROVE  i = j
  <2>1. ~(i < j) /\ ~(j < i)
    <3>1. i < j => q[i] < q[j]
      BY <1>1, AllInOrder
    <3>2. j < i => q[j] < q[i]
      BY <1>1, AllInOrder
    <3> QED BY <1>1, <1>2, <3>1, <3>2
  <2> QED BY <1>1, <2>1
<1>3. q \in Injection(1 .. Len(q), Things)
  <2>1. q \in [1 .. Len(q) -> Things]
    BY <1>1
  <2> QED BY <1>2, <2>1 DEF Injection, IsInjective
<1>4. Cardinality(1 .. Len(q)) <= Cardinality(Things)
  BY <1>3, FS_Injection, ThingsAssumption
<1>5. Cardinality(1 .. Len(q)) = Len(q)
  <2>1. PICK n \in Nat : n = Len(q)
    BY <1>1
  <2>2. Cardinality(1 .. n) = IF 1 > n THEN 0 ELSE n - 1 + 1
    BY FS_Interval
  <2> QED BY <2>1, <2>2
<1> QED BY <1>4, <1>5

\* However often things come, go and come back, a pass yields no more of them
\* than there may be: what PassEnds needs of fairness is only that next is
\* called again, and that not every call fails.
THEOREM PassesAreShort == EnumSpec => [](Len(things) <= Cardinality(Things))
<1>1. EnumInv => Len(things) <= Cardinality(Things)
  BY ShortList DEF EnumInv, EnumTypes, NoRepeat
<1> QED BY InitEnumInv, NextEnumInv, <1>1, PTL DEF EnumSpec
=============================================================================
