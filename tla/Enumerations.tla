---------------------------- MODULE Enumerations ----------------------------
(***************************************************************************)
(* The iterators of the crate (but rawmidi::Iter, see RawmidiIter) while   *)
(* what they list comes and goes.  Each keeps one field across calls of    *)
(* next: a number to go on from, a pointer to the element yielded last, or *)
(* an index into a list, which is a snapshot but for the subscriptions.    *)
(*                                                                         *)
(* Things are numbers and listed in their order: by card, device, client   *)
(* or port number, the elements as alsa-lib sorts them, the subscriptions  *)
(* by age.  alsa-lib's and the kernel's answers are external.  handle_     *)
(* events changes the list of elements and may be called while an ElemIter *)
(* or a mixer's Iter lives; removal of the very element it points to is    *)
(* left out, for then the next call reads freed memory.                    *)
(***************************************************************************)
EXTENDS Integers, Sequences, FiniteSets

CONSTANT Things  \* bound: what there may be, a set of positive numbers

ASSUME ThingsAssumption == Things \subseteq Nat \ {0} /\ IsFiniteSet(Things)

VARIABLES
  kind,    \* which iterator
  list,    \* the things that exist
  aged,    \* subscriptions: those that existed at some time
  snap,    \* snapshots: the things when the iterator was made
  pos,     \* the iterator's field; 0 for -1 and for the null pointer
  last,    \* what the last call returned
  things,  \* history: the things yielded in this pass
  stay,    \* history: the things that exist since the pass began
  whole,   \* history: the pass lists everything and met no error
  shrunk   \* history: something went away during the pass

world == <<kind, snap>>
enumVars == <<world, list, aged, pos, last, things, stay, whole, shrunk>>

Numbered  == {"card", "pcm_device", "client", "port"}
Pointed   == {"hctl_elem", "mixer_elem"}
Snapshots == {"hint", "chmap", "enum_item"}
Kinds     == Numbered \cup Pointed \cup Snapshots \cup {"subscription"}

\* a set as a list, in order
Listed(S) == {s \in [1 .. Cardinality(S) -> S] :
                /\ \A i, j \in 1 .. Cardinality(S) : i < j => s[i] < s[j]
                /\ \A x \in S : \E i \in 1 .. Cardinality(S) : s[i] = x}

EnumInit ==
  /\ kind \in Kinds /\ list \in SUBSET Things
  /\ aged = list /\ snap \in Listed(list)
  /\ pos = 0 /\ last = "start"
  /\ things = <<>> /\ stay = list /\ whole = TRUE /\ shrunk = FALSE

-----------------------------------------------------------------------------
(* One call of next.  What it finds, and where the field goes.             *)

fresh == last = "none"  \* the call before ended a pass
So(h, begun) == IF fresh THEN begun ELSE h

\* A pass after another lists everything again: not a snapshot's, which stays
\* at its end, not mixer::Iter's, which stays at the last element, and not
\* DeviceIter's after an error, which it takes for an end without going back
StartsOver == kind \notin Snapshots \cup {"mixer_elem"} /\ (kind = "pcm_device" => pos = 0)

Yields(x, p) == /\ last' = "item" /\ pos' = p
                /\ things' = Append(So(things, <<>>), x)
                /\ whole' = So(whole, StartsOver)
Ends(p)      == /\ last' = "none" /\ pos' = p
                /\ things' = So(things, <<>>)
                /\ whole' = So(whole, StartsOver)
Fails(how, p) == /\ last' = how /\ pos' = p /\ whole' = FALSE
                 /\ things' = So(things, <<>>)

Call == /\ stay' = So(stay, list) /\ shrunk' = So(shrunk, FALSE)
        /\ UNCHANGED <<world, list, aged>>

Later == {x \in list : x > pos}
NextOnes == {x \in Later : \A y \in Later : x <= y}  \* one or none

\* card::Iter, ctl_int::DeviceIter, ClientIter and PortIter: after the last
\* one the number is -1 again, set by alsa-lib or by next
NextNumbered ==
  /\ Call
  /\ \/ \E x \in NextOnes : Yields(x, x)
     \/ Later = {} /\ Ends(0)

\* mutant: the number stays where the error was met
Interrupted_KeepsNumber ==
  /\ Call /\ kind \in Numbered
  /\ Fails(IF kind = "card" THEN "error" ELSE "none", pos)

\* An error is an item of card::Iter and an end of the others; ClientIter and
\* PortIter take the end for an error
Interrupted ==
  /\ Call /\ kind \in Numbered
  /\ Fails(IF kind = "card" THEN "error" ELSE "none",
           IF kind \in {"client", "port"} THEN 0 ELSE pos)

\* hctl::ElemIter keeps the null pointer of the end, mixer::Iter does not
NextPointed ==
  /\ Call
  /\ \/ \E x \in NextOnes : Yields(x, x)
     \/ Later = {} /\ Ends(IF kind = "hctl_elem" THEN 0 ELSE pos)

\* HintIter, ChmapsQuery and IterEnum
NextOfSnapshot ==
  /\ Call
  /\ \/ pos < Len(snap) /\ Yields(snap[pos + 1], pos + 1)
     \/ pos >= Len(snap) /\ Ends(pos)

\* the index of a subscription: how many are older
Older(x) == Cardinality({y \in list : y < x})

\* mutant: the index is that of the subscription yielded
NextSubscription_SameIndex ==
  /\ Call /\ kind = "subscription"
  /\ \/ \E x \in list : Older(x) = pos /\ Yields(x, pos)
     \/ pos >= Cardinality(list) /\ Ends(0)

\* mutant: the end is the index one past the last and no other
NextSubscription_EndExact ==
  /\ Call /\ kind = "subscription"
  /\ \/ \E x \in list : Older(x) = pos /\ Yields(x, pos + 1)
     \/ pos = Cardinality(list) /\ Ends(0)

\* PortSubscribeIter: asks for the subscription with an index
NextSubscription ==
  /\ Call /\ kind = "subscription"
  /\ \/ \E x \in list : Older(x) = pos /\ Yields(x, pos + 1)
     \/ pos >= Cardinality(list) /\ Ends(0)

\* next of each iterator
CardIter          == kind = "card" /\ NextNumbered
DeviceIter        == kind = "pcm_device" /\ NextNumbered
ClientIter        == kind = "client" /\ NextNumbered
PortIter          == kind = "port" /\ NextNumbered
HctlElemIter      == kind = "hctl_elem" /\ NextPointed
MixerIter         == kind = "mixer_elem" /\ NextPointed
HintIter          == kind = "hint" /\ NextOfSnapshot
ChmapsQuery       == kind = "chmap" /\ NextOfSnapshot
IterEnum          == kind = "enum_item" /\ NextOfSnapshot
PortSubscribeIter == NextSubscription

NextCall == \/ CardIter \/ DeviceIter \/ ClientIter \/ PortIter
            \/ HctlElemIter \/ MixerIter
            \/ HintIter \/ ChmapsQuery \/ IterEnum \/ PortSubscribeIter

-----------------------------------------------------------------------------
(* The system.  A new subscription is the youngest.                        *)

Appear(x) ==
  /\ x \notin list /\ (kind = "subscription" => \A y \in aged : y < x)
  /\ list' = list \cup {x} /\ aged' = aged \cup {x}
  /\ UNCHANGED <<world, pos, last, things, stay, whole, shrunk>>

Vanish(x) ==
  /\ x \in list /\ ~(kind \in Pointed /\ x = pos)
  /\ list' = list \ {x} /\ stay' = stay \ {x} /\ shrunk' = TRUE
  /\ UNCHANGED <<world, aged, pos, last, things, whole>>

EnumNext == NextCall \/ Interrupted \/ \E x \in Things : Appear(x) \/ Vanish(x)

\* The program calls next again, and not every call fails.
EnumSpec == EnumInit /\ [][EnumNext]_enumVars /\ WF_enumVars(NextCall)

-----------------------------------------------------------------------------
(* Properties                                                              *)

\* A pass that no error cut short yielded whatever existed throughout it.
\* The subscriptions are the exception: one goes away, the others move up,
\* and the iterator passes over one that stays.
PassComplete ==
  last = "none" /\ whole /\ ~(kind = "subscription" /\ shrunk) =>
    \A x \in stay : \E k \in DOMAIN things : things[k] = x

\* Nothing is yielded twice in a pass, nor out of order, though things go
\* away, come back or move up between two calls; an error repeats nothing.
NoRepeat == \A k \in 2 .. Len(things) : things[k - 1] < things[k]

\* A loop over the iterator ends, whatever comes and goes; only the loop over
\* the cards may see errors forever instead.
PassEnds == []<>(last = "none" \/ (kind = "card" /\ last = "error"))
=============================================================================
