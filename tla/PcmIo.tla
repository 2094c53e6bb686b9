------------------------------- MODULE PcmIo -------------------------------
(***************************************************************************)
(* The IO objects of a PCM (src/src/pcm.rs).  An IO<S> reads and writes    *)
(* samples of the type S in the format the hardware was configured with.   *)
(* A PCM has one flag, set while an IO object exists; hw_params, hw_free   *)
(* and the safe constructors of IO panic when it is set.  io_unchecked     *)
(* sets it without looking and every drop of an IO clears it.              *)
(*                                                                         *)
(* A call that panics in check_has_io, or returns Err before it changes    *)
(* anything, is a call that does not happen.                               *)
(***************************************************************************)
EXTENDS Naturals, Sequences

CONSTANTS
  Handles,         \* bound: the IO objects there can be at a time
  Formats,         \* sample formats, each with its own Rust type
  AnyFormat,       \* the IO<u8> of io_bytes, made for every format
  None,            \* no such IO object; hardware not configured
  MaxNesting,      \* bound: calls of mmap nested in each other's closures
  SharedUnchecked  \* whether io_unchecked is called while IO objects exist,
                   \* its caller "in some other way" guaranteeing mmap safety

ASSUME PcmIoAssumption ==
  /\ MaxNesting \in Nat
  /\ SharedUnchecked \in BOOLEAN
  /\ None \notin Formats \cup {AnyFormat} /\ AnyFormat \notin Formats

VARIABLES
  hasIo,    \* PCM's Cell<bool>
  io,       \* the live IO objects and their formats
  hw,       \* the format of the current hardware configuration
  closures  \* the IO objects whose mmap runs a closure, innermost last

vars == <<hasIo, io, hw, closures>>

Live == {h \in Handles : io[h] # None}

Init == /\ hasIo = FALSE
        /\ io = [h \in Handles |-> None]
        /\ hw = None
        /\ closures = <<>>

\* mutant: the flag is not set
New_NoFlag(h, f) == /\ io[h] = None
                    /\ io' = [io EXCEPT ![h] = f]
                    /\ UNCHANGED <<hasIo, hw, closures>>

\* IO::new, IO::new_unchecked
New(h, f) == /\ io[h] = None
             /\ io' = [io EXCEPT ![h] = f]
             /\ hasIo' = TRUE
             /\ UNCHANGED <<hw, closures>>

\* io_checked and its instances: verify_format, then IO::new
IoChecked(h, f) == f = hw /\ ~hasIo /\ New(h, f)

\* mutant: no look at the flag
IoBytes_NoCheck(h) == New(h, AnyFormat)

\* io_bytes, io
IoBytes(h) == ~hasIo /\ New(h, AnyFormat)

\* io_unchecked, called within its contract
IoUnchecked(h, f) == /\ f = hw
                     /\ Live = {} \/ SharedUnchecked
                     /\ New(h, f)

\* Drop for IO; mmap borrows the object
DropIo(h) == /\ io[h] # None
             /\ \A k \in DOMAIN closures : closures[k] # h
             /\ io' = [io EXCEPT ![h] = None]
             /\ hasIo' = FALSE
             /\ UNCHANGED <<hw, closures>>

\* mutant: no look at the flag
HwParams_NoCheck(f) == hw' = f /\ UNCHANGED <<hasIo, io, closures>>

HwParams(f) == /\ ~hasIo
               /\ hw' = f
               /\ UNCHANGED <<hasIo, io, closures>>

\* mutant: no look at the flag
HwFree_NoCheck == hw' = None /\ UNCHANGED <<hasIo, io, closures>>

HwFree == /\ ~hasIo
          /\ hw' = None
          /\ UNCHANGED <<hasIo, io, closures>>

\* IO::mmap: snd_pcm_mmap_begin, and the closure is called
MmapBegin(h) == /\ io[h] # None /\ hw # None
                /\ Len(closures) < MaxNesting
                /\ closures' = Append(closures, h)
                /\ UNCHANGED <<hasIo, io, hw>>

\* IO::mmap: the closure returned and its frames are committed, or it panicked
MmapEnd == /\ closures # <<>>
           /\ closures' = SubSeq(closures, 1, Len(closures) - 1)
           /\ UNCHANGED <<hasIo, io, hw>>

Next == \/ \E h \in Handles, f \in Formats : IoChecked(h, f)
        \/ \E h \in Handles, f \in Formats : IoUnchecked(h, f)
        \/ \E h \in Handles : IoBytes(h) \/ DropIo(h) \/ MmapBegin(h)
        \/ \E f \in Formats : HwParams(f)
        \/ HwFree
        \/ MmapEnd

Spec == Init /\ [][Next]_vars

-----------------------------------------------------------------------------
(* Properties                                                              *)

\* Types of the flag and of the objects it guards.
TypeOK ==
  /\ hasIo \in BOOLEAN
  /\ io \in [Handles -> Formats \cup {AnyFormat, None}]
  /\ hw \in Formats \cup {None}
  /\ closures \in Seq(Handles)

\* Doc of IO, "Only one IO object is allowed in scope at a time".
SingleIo == \A g, h \in Live : g = h

\* verify_format looks at the hardware once, when the IO object is made; the
\* samples keep the type of the hardware's format as long as the object lives.
FormatMatches == \A h \in Live : io[h] # AnyFormat => io[h] = hw

\* The closure of mmap works on memory of a configured device: hw_free and
\* hw_params cannot pull it away, not even from inside a nested closure.
MmapOnConfigured == closures # <<>> => hw # None

\* The inductive invariant behind both: the flag tells whether an IO object
\* exists, there is at most one, and a running closure borrows it.
FlagTracksIo == hasIo <=> Live # {}
ClosuresBorrow == \A k \in DOMAIN closures : closures[k] \in Live
IInv == /\ TypeOK /\ FlagTracksIo /\ SingleIo /\ FormatMatches
        /\ ClosuresBorrow /\ MmapOnConfigured

\* Doc of hw_params, "No IO object can exist for this PCM when hw parameters
\* are set": no step changes the configuration while an IO object exists.
HwFixedWhileIo == [][Live # {} => hw' = hw]_vars
=============================================================================
