------------------------------ MODULE KernelAbi ------------------------------
(***************************************************************************)
(* The library and the kernel share structures in memory and by ioctl.     *)
(* The kernel fills one with its layout, asserted in asound_ioctl.rs; the  *)
(* program reads it, field by field, through a Rust declaration: that of   *)
(* asound_ioctl.rs or the copy in ffi.rs, laid out for its machine.        *)
(***************************************************************************)
EXTENDS Naturals, Sequences, FiniteSets

VARIABLES
  struct,    \* the kernel's structure that is passed
  declared,  \* the file of the declaration it is read through
  field,     \* how many of its fields have been read
  seen,      \* which of the kernel's fields own the bytes read last
  call       \* the last ioctl and its request: the bits that are set

vars == <<struct, declared, field, seen, call>>

Kernel == INSTANCE KernelStructs WITH Word <- 8
Ffi    == INSTANCE FfiStructs WITH Word <- 8
Ffi32  == INSTANCE FfiStructs WITH Word <- 4

Theirs == Kernel!KernelDecls[struct]
Ours   == IF declared = "ffi" THEN Ffi!FfiDecls[struct] ELSE Theirs
OurAt  == Kernel!Offsets(Ours.kind, Ours.fields)

NoCall == [name |-> "none", arch |-> "none", bits |-> {}]

Init == /\ declared \in {"asound_ioctl", "ffi"}
        /\ struct \in IF declared = "ffi" THEN DOMAIN Ffi!FfiDecls
                      ELSE DOMAIN Kernel!KernelDecls
        /\ field = 0 /\ seen = {} /\ call = NoCall

\* the names of the kernel's fields that byte b belongs to: several in a
\* union, none in padding
Owners(b) == {f.name : f \in {g \in Kernel!Range(Theirs.fields) :
                g.at # Kernel!NoOffset /\ b \in g.at .. g.at + g.type.size - 1}}

Bytes(k) == OurAt[k] .. OurAt[k] + Ours.fields[k].type.size - 1

ReadField ==
  /\ field < Len(Ours.fields)
  /\ field' = field + 1
  /\ seen' = {Owners(b) : b \in Bytes(field')}
  /\ UNCHANGED <<struct, declared, call>>

-----------------------------------------------------------------------------
(* Requests.  A number is the set of the places of its bits.               *)

BitsOf(n) == {b \in 0 .. 15 : (n \div 2 ^ b) % 2 = 1}
Shl(n, k) == {b + k : b \in BitsOf(n)}

\* where dir begins, and READ and WRITE before the shift
Arch == {"linux", "mips", "bsd"}
SizeBits(arch) == IF arch = "linux" THEN 14 ELSE 13
Read(arch) == CASE arch = "linux" -> Shl(2, 30)
                [] arch = "mips" -> Shl(2, 29)
                [] arch = "bsd" -> {30}
Write(arch) == CASE arch = "linux" -> Shl(1, 30)
                 [] arch = "mips" -> Shl(4, 29)
                 [] arch = "bsd" -> {31}

\* mutant: the size is shifted by its own width
make_request_Size14(dir, typ, nr, size) ==
  dir \cup Shl(typ, 8) \cup Shl(nr, 0) \cup Shl(size, 14)

\* the BSDs have another one: the same but for a mask of 13 bits on the size,
\* which no structure passed here reaches
make_request(dir, typ, nr, size) ==
  dir \cup Shl(typ, 8) \cup Shl(nr, 0) \cup Shl(size, 16)

Typ == 65  \* b'A'

\* sndrv_pcm_ioctl_channel_info
ChannelInfo(arch) ==
  [name |-> "channel_info", arch |-> arch,
   bits |-> make_request(Read(arch), Typ, 50, Ffi!snd_pcm_channel_info.size)]

\* sndrv_pcm_ioctl_sync_ptr
SyncPtr(arch) ==
  [name |-> "sync_ptr", arch |-> arch,
   bits |-> make_request(Read(arch) \cup Write(arch), Typ, 35, Ffi!snd_pcm_sync_ptr.size)]

Ioctl == /\ field = 0 /\ declared = "ffi"
         /\ \E arch \in Arch :
              \/ struct = "snd_pcm_channel_info" /\ call' = ChannelInfo(arch)
              \/ struct = "snd_pcm_sync_ptr" /\ call' = SyncPtr(arch)
         /\ UNCHANGED <<struct, declared, field, seen>>

Next == ReadField \/ Ioctl

Spec == Init /\ [][Next]_vars

-----------------------------------------------------------------------------
(* Properties                                                              *)

\* A declaration reads from every byte of a field what the kernel stored for
\* the field of that name: bindgen's declarations have the layout asserted
\* beside them, and the copies of ffi.rs have that of the originals.
FieldsReadAsWritten ==
  field > 0 /\ ~(declared = "asound_ioctl" /\ Theirs.fields[field].at = Kernel!NoOffset)
    => \A owners \in seen : Ours.fields[field].name \in owners

\* A structure has the size the kernel copies, so an ioctl overwrites nothing
\* beside it, and two in a row lie where the kernel expects them.  With 32-bit
\* words too the status and the control stay within the bytes reserved.
SizesAgree ==
  /\ Kernel!SizeOf(Ours.kind, Ours.fields) = Theirs.size
  /\ Kernel!AlignOf(Ours.fields) = Theirs.align
  /\ struct \in {"snd_pcm_sync_ptr__bindgen_ty_1", "snd_pcm_sync_ptr__bindgen_ty_2"} =>
       Ffi32!FfiDecls[struct].size = Theirs.size

\* The kernel takes a request apart and finds what was put together: the
\* parts do not run into each other on any architecture.
Part(bits, from, n) == {b - from : b \in bits \cap (from .. from + n - 1)}
KernelUnderstands ==
  call # NoCall =>
    LET size == IF call.name = "sync_ptr" THEN Kernel!snd_pcm_sync_ptr.size
                ELSE Kernel!snd_pcm_channel_info.size
        top == 16 + SizeBits(call.arch)
    IN  /\ Part(call.bits, 0, 8) = BitsOf(IF call.name = "sync_ptr" THEN 35 ELSE 50)
        /\ Part(call.bits, 8, 8) = BitsOf(Typ)
        /\ Part(call.bits, 16, SizeBits(call.arch)) = BitsOf(size)
        /\ {b \in call.bits : b >= top} =
             Read(call.arch) \cup (IF call.name = "sync_ptr" THEN Write(call.arch) ELSE {})
=============================================================================
