----------------------------- MODULE FfiStructs -----------------------------
(***************************************************************************)
(* The structures of src/src/direct/ffi.rs: the copies, written by hand,   *)
(* through which the library reads and writes the kernel's pages and       *)
(* passes the arguments of its two ioctls.                                 *)
(***************************************************************************)
EXTENDS StructLayout

\* libc's, external
timespec == Declared("struct", <<
  Unasserted("tv_sec", CLong), Unasserted("tv_nsec", CLong)>>)

\* mutant: the padding before hw_ptr taken for a long
snd_pcm_mmap_status_LongPad == Declared("struct", <<
  Unasserted("state", CInt), Unasserted("pad1", CLong),
  Unasserted("hw_ptr", CLong), Unasserted("tstamp", timespec),
  Unasserted("suspended_state", CInt), Unasserted("audio_tstamp", timespec)>>)

snd_pcm_mmap_status == Declared("struct", <<
  Unasserted("state", CInt), Unasserted("pad1", CInt),
  Unasserted("hw_ptr", CLong), Unasserted("tstamp", timespec),
  Unasserted("suspended_state", CInt), Unasserted("audio_tstamp", timespec)>>)

snd_pcm_mmap_control == Declared("struct", <<
  Unasserted("appl_ptr", CLong), Unasserted("avail_min", CLong)>>)

snd_pcm_channel_info == Declared("struct", <<
  Unasserted("channel", CInt), Unasserted("offset", CLong),
  Unasserted("first", CInt), Unasserted("step", CInt)>>)

snd_pcm_mmap_status_r == Declared("union", <<
  Unasserted("status", snd_pcm_mmap_status),
  Unasserted("reserved", Array(64, CChar))>>)

\* mutant: the reserved bytes are half as many
snd_pcm_mmap_control_r_Short == Declared("union", <<
  Unasserted("control", snd_pcm_mmap_control),
  Unasserted("reserved", Array(32, CChar))>>)

snd_pcm_mmap_control_r == Declared("union", <<
  Unasserted("control", snd_pcm_mmap_control),
  Unasserted("reserved", Array(64, CChar))>>)

snd_pcm_sync_ptr == Declared("struct", <<
  Unasserted("flags", CInt), Unasserted("s", snd_pcm_mmap_status_r),
  Unasserted("c", snd_pcm_mmap_control_r)>>)

\* the copy of each structure, by the name of the kernel's
FfiDecls == [
  timespec |-> timespec,
  snd_pcm_mmap_status |-> snd_pcm_mmap_status,
  snd_pcm_mmap_control |-> snd_pcm_mmap_control,
  snd_pcm_channel_info |-> snd_pcm_channel_info,
  snd_pcm_sync_ptr__bindgen_ty_1 |-> snd_pcm_mmap_status_r,
  snd_pcm_sync_ptr__bindgen_ty_2 |-> snd_pcm_mmap_control_r,
  snd_pcm_sync_ptr |-> snd_pcm_sync_ptr]
=============================================================================
