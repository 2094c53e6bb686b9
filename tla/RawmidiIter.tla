----------------------------- MODULE RawmidiIter -----------------------------
(***************************************************************************)
(* rawmidi::Iter (src/src/rawmidi.rs): lists the subdevices of the raw     *)
(* MIDI devices of a card, the capture subdevices of a device before its   *)
(* playback subdevices.  Its five fields live across calls of next, and    *)
(* the kernel is asked again in each: devices come and go and calls fail   *)
(* in between.                                                             *)
(*                                                                         *)
(* A call of next is one step, but for the one that moves on to another    *)
(* device: it asks for the device, then for its counts.  The kernel's      *)
(* answers are external: a subdevice that does not exist is an error.      *)
(***************************************************************************)
EXTENDS Integers, Sequences

CONSTANTS
  MaxDevice,  \* bound: the highest device number
  MaxSubs,    \* bound: subdevices of a device in a direction
  Unplugs     \* whether devices and the card can go away

ASSUME IterAssumption == /\ MaxDevice \in Nat /\ MaxSubs \in Nat \ {0}
                         /\ Unplugs \in BOOLEAN

VARIABLES
  subs,       \* the card: how many subdevices a device has in each direction
  gone,       \* the card: every call fails
  device,     \* Iter: -1 before the first device and after the last
  in_count,   \* Iter: capture subdevices of device
  out_count,  \* Iter: playback subdevices of device
  current,    \* Iter: subdevices of device yielded, or tried
  moving,     \* whether next is between its two questions
  result,     \* what the last call of next returned
  infos       \* history: the infos yielded since the iteration began

card == <<subs, gone>>
counts == <<in_count, out_count>>
rawVars == <<card, device, counts, current, moving, result, infos>>

Device == 0 .. MaxDevice
Direction == {"Capture", "Playback"}
None == <<"none">>
Error == <<"error">>

\* a device without subdevices is no device
Exists(d) == subs[d]["Capture"] + subs[d]["Playback"] > 0

RawInit ==
  /\ subs \in [Device -> [Direction -> 0 .. MaxSubs]]
  /\ gone = FALSE
  /\ device = -1 /\ in_count = 0 /\ out_count = 0 /\ current = 0
  /\ moving = FALSE /\ result = None /\ infos = <<>>

\* Info::from_iter succeeds
HasInfo(d, sub, dir) == ~gone /\ d \in Device /\ sub < subs[d][dir]

\* next returns the Info of a subdevice of the current device, or the error
Return(sub, dir) ==
  IF HasInfo(device, sub, dir)
  THEN result' = <<device, dir, sub>> /\ infos' = Append(infos, result')
  ELSE result' = Error /\ UNCHANGED infos

-----------------------------------------------------------------------------
CaptureItem ==
  /\ ~moving /\ current < in_count
  /\ current' = current + 1
  /\ Return(current, "Capture")
  /\ UNCHANGED <<card, device, counts, moving>>

\* mutant: the playback subdevices are numbered on from the capture ones
PlaybackItem_NumberedOn ==
  /\ ~moving /\ current >= in_count /\ current - in_count < out_count
  /\ current' = current + 1
  /\ Return(current, "Playback")
  /\ UNCHANGED <<card, device, counts, moving>>

PlaybackItem ==
  /\ ~moving /\ current >= in_count /\ current - in_count < out_count
  /\ current' = current + 1
  /\ Return(current - in_count, "Playback")
  /\ UNCHANGED <<card, device, counts, moving>>

later == {d \in Device : d > device /\ Exists(d)}

\* mutant: -1 is taken for a device
NextDevice_NoEnd ==
  /\ ~moving /\ current - in_count >= out_count
  /\ UNCHANGED <<card, counts, current, result, infos>>
  /\ device' \in later \cup {-1}
  /\ \A d \in later : d >= device' /\ device' # -1
  /\ moving' = TRUE

\* snd_ctl_rawmidi_next_device: a device, none left, ENOTTY or another error.
\* None ends the iteration; the next call of next begins another one.
NextDevice ==
  /\ ~moving /\ current - in_count >= out_count
  /\ UNCHANGED <<card, counts, current>>
  /\ \/ /\ ~gone
        /\ device' \in later /\ (\A d \in later : device' <= d) /\ moving' = TRUE
        /\ infos' = IF result = None THEN <<>> ELSE infos
        /\ UNCHANGED result
     \/ /\ ~gone /\ later = {}
        /\ device' = -1 /\ result' = None
        /\ infos' = IF result = None THEN <<>> ELSE infos
        /\ UNCHANGED moving
     \/ /\ gone
        /\ result' \in {None, Error}
        /\ UNCHANGED <<device, moving, infos>>

\* mutant: the iterator goes on where it was in the device before
CountSubdevices_KeepsCurrent ==
  /\ moving
  /\ moving' = FALSE
  /\ UNCHANGED <<card, device, current>>
  /\ IF \A dir \in Direction : HasInfo(device, 0, dir)
     THEN /\ in_count' = subs[device]["Capture"]
          /\ out_count' = subs[device]["Playback"]
          /\ UNCHANGED <<result, infos>>
     ELSE result' = Error /\ UNCHANGED <<counts, infos>>

\* Info::subdev_count fails unless subdevice 0 exists in both directions; the
\* counts of the device before then stay.
CountSubdevices ==
  /\ moving
  /\ moving' = FALSE /\ current' = 0
  /\ UNCHANGED <<card, device>>
  /\ IF \A dir \in Direction : HasInfo(device, 0, dir)
     THEN /\ in_count' = subs[device]["Capture"]
          /\ out_count' = subs[device]["Playback"]
          /\ UNCHANGED <<result, infos>>
     ELSE result' = Error /\ UNCHANGED <<counts, infos>>

-----------------------------------------------------------------------------
(* The card                                                                *)

DeviceGoes(d) ==
  /\ Unplugs /\ Exists(d)
  /\ subs' = [subs EXCEPT ![d] = [dir \in Direction |-> 0]]
  /\ UNCHANGED <<gone, device, counts, current, moving, result, infos>>

CardGoes ==
  /\ Unplugs /\ ~gone
  /\ gone' = TRUE
  /\ UNCHANGED <<subs, device, counts, current, moving, result, infos>>

RawNext == \/ CaptureItem \/ PlaybackItem \/ NextDevice \/ CountSubdevices
           \/ \E d \in Device : DeviceGoes(d)
           \/ CardGoes

RawSpec == RawInit /\ [][RawNext]_rawVars

-----------------------------------------------------------------------------
(* Properties                                                              *)

Infos == {i \in Device \X Direction \X (0 .. MaxSubs - 1) : HasInfo(i[1], i[3], i[2])}

Yielded(i) == \E k \in DOMAIN infos : infos[k] = i

\* Types of the iterator's fields; it never counts past its device's counts.
RawTypeOK ==
  /\ subs \in [Device -> [Direction -> 0 .. MaxSubs]]
  /\ gone \in BOOLEAN /\ moving \in BOOLEAN
  /\ device \in Device \cup {-1}
  /\ in_count \in 0 .. MaxSubs /\ out_count \in 0 .. MaxSubs
  /\ current \in 0 .. in_count + out_count
  /\ infos \in Seq(Device \X Direction \X (0 .. MaxSubs - 1))

\* Doc of Iter, "Iterator over Rawmidi devices and subdevices": when the
\* iteration ends, every subdevice the card has then has been yielded.
EndsComplete == [][device # -1 /\ device' = -1 => \A i \in Infos : Yielded(i)]_rawVars

\* Those of a device with both directions have been, whatever went away, and
\* whatever counts a device with one direction was tried with before.
TwoWay(d) == \A dir \in Direction : subs[d][dir] > 0
TwoWayComplete ==
  [][device # -1 /\ device' = -1 => \A i \in Infos : TwoWay(i[1]) => Yielded(i)]_rawVars

\* No subdevice is yielded twice and they come in order, whatever fails or
\* goes away during the iteration, the counts left behind by a failure
\* included.
Before(i, j) ==
  \/ i[1] < j[1]
  \/ i[1] = j[1] /\ i[2] = "Capture" /\ j[2] = "Playback"
  \/ i[1] = j[1] /\ i[2] = j[2] /\ i[3] < j[3]
InOrder == \A k \in 2 .. Len(infos) : Before(infos[k - 1], infos[k])
=============================================================================
