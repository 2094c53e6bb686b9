------------------------------ MODULE MCParts ------------------------------
(***************************************************************************)
(* The parts of the crate that share nothing with each other, for TLC: one *)
(* of them takes all the steps of a behaviour, the others stay where they  *)
(* begin.                                                                  *)
(***************************************************************************)
EXTENDS SeqStamp, SynthVoices, RawmidiIter, Enumerations, ElemList, PollAll

VARIABLES
  part,  \* which of them it is
  struct, declared, field, seen, call

A == INSTANCE KernelAbi

\* What KernelAbi's instances assume of their constants
ASSUME A!Kernel!WordAssumption /\ A!Ffi32!WordAssumption

abi   == <<struct, declared, field, seen, call>>
vars  == <<part, rawVars, enumVars, listVars, abi, stampVars, pollVars, voicesVars>>

Init ==
  /\ part \in {"rawmidi", "enumerations", "elem_list", "abi", "stamp", "poll", "voices"}
  /\ part = "rawmidi" \/ subs = [d \in Device |-> [dir \in Direction |-> 0]]
  /\ part = "enumerations" \/ (kind = "card" /\ list = {})
  /\ part = "elem_list" \/ elems = {}
  /\ part = "abi" \/ (declared = "ffi" /\ struct = "timespec")
  /\ part = "stamp" \/ flags = {}
  /\ part = "poll" \/ has = [o \in Object |-> 0]
  /\ RawInit /\ EnumInit /\ ListInit /\ A!Init /\ PollInit /\ StampInit /\ VoicesInit

EnumerationsCall ==
  /\ part = "enumerations" /\ NextCall
  /\ UNCHANGED <<part, rawVars, listVars, abi, stampVars, pollVars, voicesVars>>

Next ==
  \/ /\ part = "rawmidi" /\ RawNext
     /\ UNCHANGED <<part, enumVars, listVars, abi, stampVars, pollVars, voicesVars>>
  \/ /\ part = "enumerations" /\ EnumNext
     /\ UNCHANGED <<part, rawVars, listVars, abi, stampVars, pollVars, voicesVars>>
  \/ /\ part = "elem_list" /\ ListNext
     /\ UNCHANGED <<part, rawVars, enumVars, abi, stampVars, pollVars, voicesVars>>
  \/ /\ part = "abi" /\ A!Next
     /\ UNCHANGED <<part, rawVars, enumVars, listVars, stampVars, pollVars, voicesVars>>
  \/ /\ part = "stamp" /\ StampNext
     /\ UNCHANGED <<part, rawVars, enumVars, listVars, abi, pollVars, voicesVars>>
  \/ /\ part = "poll" /\ PollNext
     /\ UNCHANGED <<part, rawVars, enumVars, listVars, abi, stampVars, voicesVars>>
  \/ /\ part = "voices" /\ VoicesNext
     /\ UNCHANGED <<part, rawVars, enumVars, listVars, abi, stampVars, pollVars>>

Spec == Init /\ [][Next]_vars /\ WF_vars(EnumerationsCall)

-----------------------------------------------------------------------------
(* Properties: those of the modules, where each is explained, and these    *)

\* The passes of the iterators end.
PassesEnd == part = "enumerations" => PassEnds
\* A field that is read holds what the kernel stored for it.
FieldsReadAsWritten == part = "abi" => A!FieldsReadAsWritten
\* The structures have the kernel's sizes and alignments.
SizesAgree == part = "abi" => A!SizesAgree
\* The parts of an ioctl's request do not run into each other.
KernelUnderstands == part = "abi" => A!KernelUnderstands
=============================================================================
