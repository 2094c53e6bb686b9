---------------------------- MODULE PcmIoProofs ----------------------------
(***************************************************************************)
(* One flag is enough: for any number of IO objects, formats and nested    *)
(* closures, as long as io_unchecked is not called while an IO exists; and *)
(* what is left of that when it is.                                        *)
(***************************************************************************)
EXTENDS PcmIo, SequenceTheorems, TLAPS

\* Without its last element a sequence of handles is one, of the same elements.
LEMMA LastEnds ==
  ASSUME closures \in Seq(Handles), closures # <<>>,
         closures' = SubSeq(closures, 1, Len(closures) - 1)
  PROVE  /\ closures' \in Seq(Handles)
         /\ \A k \in DOMAIN closures' : k \in DOMAIN closures /\ closures'[k] = closures[k]
<1> DEFINE n == Len(closures) - 1
<1>1. n \in Nat /\ closures' = SubSeq(closures, 1, n) /\ n \in 0 .. Len(closures)
  BY EmptySeq
<1>2. /\ closures' \in Seq(Handles) /\ Len(closures') = n
      /\ \A k \in 1 .. n : closures'[k] = closures[k]
  <2>1. \A k \in 1 .. n : closures[k] \in Handles
    BY <1>1, ElementOfSeq
  <2>2. /\ SubSeq(closures, 1, n) \in Seq(Handles)
        /\ Len(SubSeq(closures, 1, n)) = IF 1 <= n THEN n - 1 + 1 ELSE 0
        /\ \A k \in 1 .. n - 1 + 1 : SubSeq(closures, 1, n)[k] = closures[1 + k - 1]
    <3> HIDE DEF n
    <3> QED BY <1>1, <2>1, SubSeqProperties
  <2> HIDE DEF n
  <2>3. \A k \in 1 .. n : SubSeq(closures, 1, n)[k] = closures[k]
    <3> TAKE k \in 1 .. n
    <3>1. k \in 1 .. n - 1 + 1 /\ 1 + k - 1 = k
      BY <1>1
    <3> QED BY <2>2, <3>1
  <2> QED BY <1>1, <2>2, <2>3
<1>3. DOMAIN closures' = 1 .. n /\ DOMAIN closures = 1 .. Len(closures)
  BY <1>1, <1>2, LenProperties
<1> QED BY <1>1, <1>2, <1>3

\* Nothing exists and nothing is configured when the PCM is opened.
LEMMA InitIInv == Init => IInv
<1> SUFFICES ASSUME Init PROVE IInv
  OBVIOUS
<1>1. Live = {} /\ closures = <<>> /\ DOMAIN closures = {}
  BY DEF Init, Live
<1>2. TypeOK
  <2>1. closures \in Seq(Handles)
    BY EmptySeq DEF Init
  <2>2. hasIo \in BOOLEAN /\ hw \in Formats \cup {None}
    BY Zenon DEF Init
  <2>3. io \in [Handles -> Formats \cup {AnyFormat, None}]
    BY DEF Init
  <2> QED BY <2>1, <2>2, <2>3 DEF TypeOK
<1>3. FlagTracksIo
  BY <1>1, Zenon DEF Init, FlagTracksIo
<1> QED
  BY <1>1, <1>2, <1>3 DEF IInv, SingleIo, FormatMatches, ClosuresBorrow,
                          MmapOnConfigured

\* A new IO object is the only one, and its format is the hardware's.
LEMMA NewStep ==
  ASSUME IInv, NEW h \in Handles, NEW f \in Formats \cup {AnyFormat},
         New(h, f), Live = {}, f # AnyFormat => f = hw
  PROVE  IInv'
<1>1. /\ io' \in [Handles -> Formats \cup {AnyFormat, None}]
      /\ io' = [io EXCEPT ![h] = f]
      /\ hasIo' = TRUE /\ hw' = hw /\ closures' = closures
  BY DEF New, IInv, TypeOK
<1>2. Live' = {h}
  BY <1>1, PcmIoAssumption DEF Live, IInv, TypeOK
<1>3. io'[h] = f
  BY <1>1 DEF IInv, TypeOK
<1>4. TypeOK' /\ FlagTracksIo' /\ SingleIo' /\ MmapOnConfigured'
  BY <1>1, <1>2 DEF IInv, TypeOK, FlagTracksIo, SingleIo, MmapOnConfigured
<1>5. FormatMatches'
  BY <1>1, <1>2, <1>3 DEF FormatMatches
<1>6. ClosuresBorrow'
  BY <1>1 DEF IInv, ClosuresBorrow
<1> QED BY <1>4, <1>5, <1>6 DEF IInv

\* After a drop there is none, so the flag may be cleared.
LEMMA DropIoStep ==
  ASSUME IInv, NEW h \in Handles, DropIo(h)
  PROVE  IInv'
<1>1. /\ io' \in [Handles -> Formats \cup {AnyFormat, None}]
      /\ io' = [io EXCEPT ![h] = None]
      /\ hasIo' = FALSE /\ hw' = hw /\ closures' = closures
  BY DEF DropIo, IInv, TypeOK
<1>2. Live = {h}
  BY DEF DropIo, Live, IInv, SingleIo
<1>3. Live' = {}
  BY <1>1, <1>2 DEF Live, IInv, TypeOK
<1>4. DOMAIN closures = {}
  BY <1>2 DEF DropIo, IInv, ClosuresBorrow
<1>5. TypeOK' /\ FlagTracksIo' /\ SingleIo' /\ FormatMatches' /\ MmapOnConfigured'
  BY <1>1, <1>3 DEF IInv, TypeOK, FlagTracksIo, SingleIo, FormatMatches,
                    MmapOnConfigured
<1>6. ClosuresBorrow'
  BY <1>1, <1>4 DEF ClosuresBorrow
<1> QED BY <1>5, <1>6 DEF IInv

\* The hardware is configured or freed only while there is no IO object.
LEMMA ConfigureStep ==
  ASSUME IInv, ~hasIo, hw' \in Formats \cup {None}, UNCHANGED <<hasIo, io, closures>>
  PROVE  IInv'
<1>1. Live = {} /\ Live' = {}
  BY DEF IInv, FlagTracksIo, Live
<1>2. closures = <<>>
  <2> SUFFICES ASSUME closures # <<>> PROVE FALSE
    OBVIOUS
  <2>1. closures \in Seq(Handles)
    BY DEF IInv, TypeOK
  <2>2. 1 \in DOMAIN closures
    BY <2>1, EmptySeq, LenProperties
  <2> QED BY <1>1, <2>2 DEF IInv, ClosuresBorrow
<1> QED
  BY <1>1, <1>2 DEF IInv, TypeOK, FlagTracksIo, SingleIo, FormatMatches,
                    ClosuresBorrow, MmapOnConfigured

\* mmap starts a closure with a live IO object on configured hardware.
LEMMA MmapBeginStep ==
  ASSUME IInv, NEW h \in Handles, MmapBegin(h)
  PROVE  IInv'
<1> USE DEF MmapBegin
<1>1. closures \in Seq(Handles) /\ h \in Live /\ Live' = Live
  BY DEF IInv, TypeOK, Live
<1>2. closures' \in Seq(Handles)
  BY <1>1
<1>3. \A k \in DOMAIN closures' : closures'[k] \in Live
  <2>1. \A k \in DOMAIN closures : closures[k] \in Live
    BY DEF IInv, ClosuresBorrow
  <2> QED BY <1>1, <2>1, AppendProperties
<1>4. ClosuresBorrow' /\ MmapOnConfigured'
  BY <1>1, <1>3 DEF ClosuresBorrow, MmapOnConfigured
<1>5. TypeOK' /\ FlagTracksIo' /\ SingleIo' /\ FormatMatches'
  BY <1>1, <1>2 DEF IInv, TypeOK, FlagTracksIo, SingleIo, FormatMatches
<1> QED BY <1>4, <1>5 DEF IInv

\* mmap ends its innermost closure.
LEMMA MmapEndStep ==
  ASSUME IInv, MmapEnd
  PROVE  IInv'
<1> USE DEF MmapEnd
<1>1. closures \in Seq(Handles) /\ closures # <<>> /\ Live' = Live /\ hw # None
  BY DEF IInv, TypeOK, Live, MmapOnConfigured
<1>2. /\ closures' \in Seq(Handles)
      /\ \A k \in DOMAIN closures' : k \in DOMAIN closures /\ closures'[k] = closures[k]
  BY <1>1, LastEnds
<1>3. ClosuresBorrow' /\ MmapOnConfigured'
  BY <1>1, <1>2 DEF IInv, ClosuresBorrow, MmapOnConfigured
<1>4. TypeOK' /\ FlagTracksIo' /\ SingleIo' /\ FormatMatches'
  BY <1>1, <1>2 DEF IInv, TypeOK, FlagTracksIo, SingleIo, FormatMatches
<1> QED BY <1>3, <1>4 DEF IInv

\* No call on the PCM or on an IO object breaks the invariant.
LEMMA NextIInv == ~SharedUnchecked /\ IInv /\ [Next]_vars => IInv'
<1> SUFFICES ASSUME ~SharedUnchecked, IInv, [Next]_vars PROVE IInv'
  OBVIOUS
<1>1. ASSUME NEW h \in Handles, NEW f \in Formats, IoChecked(h, f) PROVE IInv'
  <2>1. Live = {}
    BY <1>1 DEF IoChecked, IInv, FlagTracksIo
  <2> QED BY <1>1, <2>1, NewStep DEF IoChecked
<1>2. ASSUME NEW h \in Handles, NEW f \in Formats, IoUnchecked(h, f) PROVE IInv'
  BY <1>2, NewStep DEF IoUnchecked
<1>3. ASSUME NEW h \in Handles, IoBytes(h) PROVE IInv'
  <2>1. Live = {}
    BY <1>3 DEF IoBytes, IInv, FlagTracksIo
  <2> QED BY <1>3, <2>1, NewStep DEF IoBytes
<1>4. ASSUME NEW h \in Handles, DropIo(h) PROVE IInv'
  BY <1>4, DropIoStep
<1>5. ASSUME NEW h \in Handles, MmapBegin(h) PROVE IInv'
  BY <1>5, MmapBeginStep
<1>6. ASSUME NEW f \in Formats, HwParams(f) PROVE IInv'
  BY <1>6, ConfigureStep DEF HwParams
<1>7. CASE HwFree
  BY <1>7, ConfigureStep DEF HwFree
<1>8. CASE MmapEnd
  BY <1>8, MmapEndStep
<1>9. CASE UNCHANGED vars
  BY <1>9 DEF vars, IInv, TypeOK, FlagTracksIo, SingleIo, FormatMatches,
              ClosuresBorrow, MmapOnConfigured, Live
<1> QED BY <1>1, <1>2, <1>3, <1>4, <1>5, <1>6, <1>7, <1>8, <1>9 DEF Next

\* An IO<S> is only ever used on hardware configured for S.
THEOREM FormatAlwaysMatches ==
  ASSUME ~SharedUnchecked PROVE Spec => []FormatMatches
<1>1. IInv => FormatMatches
  BY DEF IInv
<1> QED BY InitIInv, NextIInv, <1>1, PTL DEF Spec

\* hw_params and hw_free never run while an IO object exists.
THEOREM HwNeverChangesUnderIo ==
  ASSUME ~SharedUnchecked PROVE Spec => HwFixedWhileIo
<1>1. IInv /\ [Next]_vars => [Live # {} => hw' = hw]_vars
  <2> SUFFICES ASSUME IInv, Next, Live # {} PROVE hw' = hw
    BY DEF vars
  <2>1. hasIo
    BY DEF IInv, FlagTracksIo
  <2> QED
    BY <2>1 DEF Next, IoChecked, IoUnchecked, IoBytes, New, DropIo, MmapBegin,
                MmapEnd, HwParams, HwFree
<1> QED BY InitIInv, NextIInv, <1>1, PTL DEF Spec, HwFixedWhileIo

\* The flag tells whether an IO object exists, in every reachable state.
THEOREM FlagInvariance ==
  ASSUME ~SharedUnchecked PROVE Spec => []IInv
BY InitIInv, NextIInv, PTL DEF Spec

\* The closure of mmap always works on a configured device.
THEOREM MmapAlwaysConfigured ==
  ASSUME ~SharedUnchecked PROVE Spec => []MmapOnConfigured
<1>1. IInv => MmapOnConfigured
  BY DEF IInv
<1> QED BY InitIInv, NextIInv, <1>1, PTL DEF Spec

-----------------------------------------------------------------------------
(* With io_unchecked called while other IO objects exist                   *)

\* A flag that is set means that an IO object exists.
FlagMeansIo == hasIo => Live # {}

SharedInv == TypeOK /\ FlagMeansIo /\ ClosuresBorrow

\* A new object does no harm to those there are.
LEMMA NewShared ==
  ASSUME SharedInv, NEW h \in Handles, NEW f \in Formats \cup {AnyFormat}, New(h, f)
  PROVE  SharedInv'
<1>1. /\ io' \in [Handles -> Formats \cup {AnyFormat, None}]
      /\ io' = [io EXCEPT ![h] = f]
      /\ hasIo' = TRUE /\ hw' = hw /\ closures' = closures
  BY DEF New, SharedInv, TypeOK
<1>2. h \in Live' /\ Live \subseteq Live'
  BY <1>1, PcmIoAssumption DEF Live, SharedInv, TypeOK, New
<1> QED BY <1>1, <1>2 DEF SharedInv, TypeOK, FlagMeansIo, ClosuresBorrow

\* A dropped object is nobody's closure.
LEMMA DropShared ==
  ASSUME SharedInv, NEW h \in Handles, DropIo(h)
  PROVE  SharedInv'
<1>1. /\ io' \in [Handles -> Formats \cup {AnyFormat, None}]
      /\ io' = [io EXCEPT ![h] = None]
      /\ hasIo' = FALSE /\ hw' = hw /\ closures' = closures
      /\ \A k \in DOMAIN closures : closures[k] # h
  BY DEF DropIo, SharedInv, TypeOK
<1>2. Live \ {h} \subseteq Live'
  BY <1>1 DEF Live, SharedInv, TypeOK
<1> QED BY <1>1, <1>2 DEF SharedInv, TypeOK, FlagMeansIo, ClosuresBorrow

\* What is kept of the invariant without the contract's strict reading.
LEMMA NextShared == SharedInv /\ [Next]_vars => SharedInv'
<1> SUFFICES ASSUME SharedInv, [Next]_vars PROVE SharedInv'
  OBVIOUS
<1>1. ASSUME NEW h \in Handles, NEW f \in Formats, IoChecked(h, f) \/ IoUnchecked(h, f)
      PROVE  SharedInv'
  BY <1>1, NewShared DEF IoChecked, IoUnchecked
<1>2. ASSUME NEW h \in Handles, IoBytes(h) PROVE SharedInv'
  BY <1>2, NewShared DEF IoBytes
<1>3. ASSUME NEW h \in Handles, DropIo(h) PROVE SharedInv'
  BY <1>3, DropShared
<1>4. ASSUME hw' \in Formats \cup {None}, UNCHANGED <<hasIo, io, closures>>
      PROVE  SharedInv'
  BY <1>4 DEF SharedInv, TypeOK, FlagMeansIo, ClosuresBorrow, Live
<1>5. ASSUME NEW h \in Handles, MmapBegin(h) PROVE SharedInv'
  <2>1. closures \in Seq(Handles) /\ h \in Live /\ Live' = Live
        /\ closures' = Append(closures, h) /\ UNCHANGED <<hasIo, io, hw>>
    BY <1>5 DEF MmapBegin, SharedInv, TypeOK, Live
  <2>2. closures' \in Seq(Handles)
    BY <2>1
  <2>3. \A k \in DOMAIN closures' : closures'[k] \in Live
    BY <2>1, AppendProperties DEF SharedInv, ClosuresBorrow
  <2> QED BY <2>1, <2>2, <2>3 DEF SharedInv, TypeOK, FlagMeansIo, ClosuresBorrow
<1>6. CASE MmapEnd
  <2>1. closures \in Seq(Handles) /\ Live' = Live /\ UNCHANGED <<hasIo, io, hw>>
    BY <1>6 DEF MmapEnd, SharedInv, TypeOK, Live
  <2>2. /\ closures' \in Seq(Handles)
        /\ \A k \in DOMAIN closures' : k \in DOMAIN closures /\ closures'[k] = closures[k]
    BY <1>6, <2>1, LastEnds DEF MmapEnd
  <2> QED BY <2>1, <2>2 DEF SharedInv, TypeOK, FlagMeansIo, ClosuresBorrow
<1>7. CASE UNCHANGED vars
  BY <1>7 DEF vars, SharedInv, TypeOK, FlagMeansIo, ClosuresBorrow, Live
<1>8. ASSUME NEW f \in Formats, HwParams(f) PROVE SharedInv'
  BY <1>4, <1>8 DEF HwParams
<1>9. CASE HwFree
  BY <1>4, <1>9 DEF HwFree
<1> QED BY <1>1, <1>2, <1>3, <1>5, <1>6, <1>7, <1>8, <1>9 DEF Next

\* However io_unchecked is called, the flag errs on one side only: hw_params,
\* hw_free and the safe constructors may be let through while an IO object
\* exists, but they never panic over one that was dropped; and a running closure
\* always has an object that exists.
THEOREM FlagNeverLingers == Spec => [](FlagMeansIo /\ ClosuresBorrow)
<1>1. Init => SharedInv
  BY InitIInv DEF IInv, FlagTracksIo, FlagMeansIo, SharedInv
<1>2. SharedInv => FlagMeansIo /\ ClosuresBorrow
  BY DEF SharedInv
<1> QED BY <1>1, <1>2, NextShared, PTL DEF Spec
=============================================================================
