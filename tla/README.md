# A TLA+ verification of alsa-rs

alsa-rs wraps alsa-lib, the user-space side of the Linux sound system, and adds
a part of its own that bypasses it: `alsa::direct`, which talks to the kernel
through mapped memory. Most of the crate is one call of alsa-lib per method.
What can go wrong is in the rest: pointer arithmetic on counters a sound card
moves at the same time, flags and handles that outlive what they describe,
iterators that keep state across calls that fail, and the loop of a program
that has to keep a card fed. That is what is modelled here.

Line numbers are those of the repository; `PROJECT.json` maps every definition
to the lines it models.

## 1. Inventory

| Part | State | Operations | What is hard | What makes it correct |
|---|---|---|---|---|
| **Direct mmap playback** `direct/pcm.rs` | two mapped pages (hw_ptr, state / appl_ptr), the ring of samples, the locals of `write` | `avail`, `data_ptr`, `write`, `commit` | the card advances hw_ptr during a write; both counters wrap; regions wrap; the iterator ends anywhere | avail is exact; no waiting frame is overwritten; whole frames reach the card in order |
| **Direct mmap capture** `direct/pcm.rs` | the same, and `CaptureIter`'s region, offset, count and next region | `iter`, `next`, `handle_max`, `Drop` | depletion, calls after `None` and drops each commit; the card records meanwhile | every recorded frame is read once, in order, or again from its start |
| **Status and control pages** `direct/pcm.rs` | mapped pages | `Status`, `Control`, `sync_ptr` | torn time stamps | a time stamp read was one written |
| **PCM and IO** `pcm.rs` | one has-IO flag per PCM, the hardware configuration | `io_*`, `io_bytes`, `io_unchecked`, `mmap`, `hw_params`, `hw_free`, `Drop` | the flag is one bit for any number of objects; closures run inside `mmap` | the configuration and format an IO object was made for stay as long as it lives |
| **Synthesizer loop** `synth-example/src/main.rs` | where the loop is; the stream; events in kernel and in alsa-lib's buffer | `write_samples_direct`, `write_samples_io`, `read_midi_event`, `poll` | underruns, suspends and unplugging between any two steps; calls that fail; events poll cannot see | the stream plays again; every event is read; an underrun alone does not end the program |
| **Synthesizer voices** same file | 256 voices, each with a note, a harmonic, a volume and its target | `add_note`, `remove_note`, `next` | overflow in the middle of a note; a note shorter than a sample | a released voice is given back; no volume jumps |
| **Raw MIDI enumeration** `rawmidi.rs` | device, two counts, position | `Iter::next` | calls fail in between, devices go away, counts are left over | every subdevice once, in order |
| **Sequencer client** `seq.rs` | has-Input flag, input and output buffers of alsa-lib | `input`, `event_input`, `event_output*`, `drain_output`, `drop_output`, `control_queue` | an event borrows the input buffer; a full output buffer drains in part | one Input; an event's data is not overwritten while it lives; events are sent in order |
| **Sequencer events** `seq.rs` | flags, time union, data union, variable-length data | `schedule_*`, `get_time`, `get_tick`, `set_priority`, `new_ext`, `get_ext`, `clone`, `into_owned` | which union member is valid; the C event's pointer is stale after a clone or a move | what was set is what is read, and what is sent |
| **Enumerations** `seq.rs`, `card.rs`, `ctl_int.rs`, `device_name.rs`, `chmap.rs` | a number, a pointer or an index and a snapshot | `next` | errors, restart after `None`, things that come, go and move up meanwhile | every item that stays once, in order, then an end |
| **Control elements** `ctl_int.rs` | element lists, typed values | `elem_list`, `ElemValue` accessors | elements come and go between two calls | a list is no longer than its memory |
| **Element handles** `hctl.rs`, `mixer.rs` | pointers into alsa-lib | `find_elem`, iterators, `handle_events` | events free elements | a live handle points to a live element |
| **Poll descriptors** `poll.rs` | descriptor slices | `get`, `poll_all` | counts change between two calls | readiness is reported to its owner |
| **Errors** `error.rs` | an error number | `acheck!`, `from_code`, `last` | sign conventions differ | `errno()` is a positive error number |
| **Error handler** `io.rs` | thread-local output | `local_error_handler`, the C callback | re-entrancy | no double borrow |
| **Kernel ABI** `direct/asound_ioctl.rs`, `direct/ffi.rs` | structures shared with the kernel, generated and copied by hand | `sync_ptr`, `channel_info` | padding, words of 32 and 64 bits, requests put together by shifts | a field read holds what was stored for it; sizes agree; the kernel understands a request |
| **Configuration** `config.rs`, **crate root** `lib.rs`, **examples** | none of their own | | | not modelled: calls of alsa-lib, re-exports, linear programs |

How they interact: `PCM::direct_mmap_*` makes an `MmapIO` of the PCM's current
configuration; `MmapIO` shares pages with the kernel; the synthesizer drives an
`MmapIO` or an `IO` and a sequencer `Input` from one thread and sleeps in
`poll` on the descriptors of both. There are no threads or locks in the crate:
the concurrency is with the card, the kernel and other clients.

`PROJECT.json` lists the hazards one by one, each at its line.

## 2. Modules

| Module | What it is |
|---|---|
| `MmapRing` | pure arithmetic: machine words and casts, `avail` of both directions, `CommitTo` (what `commit` stores), `DataPtr` |
| `MmapPlayback` | `MmapPlayback::write` against the card, EXTENDS `MmapRing` |
| `FrameFifo` | abstract: what playback promises |
| `MmapCapture` | `iter`, `CaptureIter` against the card, EXTENDS `MmapRing` |
| `CaptureFifo` | abstract: what capture promises |
| `PcmIo` | IO objects, the flag, the configuration, nested `mmap` closures |
| `SynthLoop` | the loop of the example, both ways of playing |
| `SynthVoices` | the voices: `add_note`, `remove_note`, `next` |
| `Synth` | the composition: the steps of `SynthLoop`, whose MIDI events change the voices of `SynthVoices` and whose writes draw their samples |
| `SeqIo` | sequencer events on their way: owners of bytes, the C event's pointer, the input buffer and its one Input, the output buffer |
| `SeqStamp` | an event's flags and time union |
| `Enumerations` | the ten other iterators, each an action of its own over one of four shapes (a number, a pointer, a snapshot, an index into a live list) |
| `RawmidiIter` | `rawmidi::Iter` against a card that changes |
| `ElemList` | `Ctl::elem_list`'s two calls against a driver that adds and removes elements |
| `PollAll` | `poll_all` over objects whose descriptors change in number |
| `ErrorPaths` | the number of an error from alsa-lib, libc or the crate to the program |
| `StructLayout` | pure: C's layout rules (`#[repr(C)]`): offsets, sizes, alignments |
| `KernelStructs` | the structures of `asound_ioctl.rs` with the layout asserted there, EXTENDS `StructLayout` |
| `FfiStructs` | the copies in `ffi.rs` and libc's `timespec`, EXTENDS `StructLayout` |
| `KernelAbi` | the kernel's structures read field by field through either declaration; the requests of both ioctls on three kinds of machine |
| `MmapRingProofs` | lemmas about `MmapRing`: counters, frames and samples, slots of the ring |
| `MmapPlaybackProofs`, `MmapCaptureProofs` | theorems about playback and capture, both over `MmapRingProofs` |
| `PcmIoProofs`, `SynthProofs` (loop, voices and the whole), `SeqProofs` (`SeqIo`, `SeqStamp`) | theorems |
| `IterProofs` (`RawmidiIter`, `Enumerations`), `ListProofs` (`ElemList`, `PollAll`) | theorems |
| `MCMmapPlayback`, `MCMmapCapture`, `MCPcmIo`, `MCSeq` | instances for TLC |
| `MCParts` | one instance for the seven parts that share nothing with each other: `RawmidiIter`, `Enumerations`, `ElemList`, `KernelAbi`, `SeqStamp`, `PollAll`, `SynthVoices`. One of them takes all the steps of a behaviour; it also checks what they assume of their constants |

**Steps.** A call is split where somebody else can run and make a difference.
In `write`: `data_ptr` (`BeginWrite`), each sample (`StoreSample`), the two ways
a region ends (`IterEnds`, `RegionFull`), `Commit`. The reads of hw_ptr and
appl_ptr are one step because only this thread writes appl_ptr. In capture each
call of `next` reads at most one shared sample and is one step. In the loop each
call of alsa-lib or the kernel that another actor's step could separate is one.
In `elem_list` and `poll_all` each call of alsa-lib is a step, for the driver
may act between two. A call on a sequencer handle, of an iterator or on a voice
is one step: nothing else can look at its locals. In `Synth` a commit takes with
it all the calls of `Synth::next` that filled its regions.

**Rust's borrow rules** are guards: `SeqIo` lets no second event be received
while one borrows the input buffer, and drops no Input before its events. An
Input may be leaked (`mem::forget`), which leaves the flag set.

**Words.** The counters are unsigned words in the pages and signed words
(`Frames`) in the code. `AsFrames`, `AsUnsigned` are the casts, `Wrapped` what a
word keeps of a sum, `RustRem` Rust's remainder. `HalfWord` stands for 2^31 or
2^63. `commit` uses plain `+`: the proofs show that it does not overflow.

**External.** The kernel, the card and alsa-lib are modelled from how the code
uses them: a prepared stream has both counters at 0 (the tests of
`direct/pcm.rs` assert it, lines 585-587); `start` is refused with an empty
playback buffer; a playback stream that has nothing left stops (`XRun`),
possibly some frames past the end (`MaxOverrun`); a capture stream stops when
its buffer is full; on an unplugged card every call fails, while its pages stay
mapped and are written to; the card records a frame before it reports it ("updated
every now and then by the kernel"); a raw MIDI subdevice that does not exist is
an error. alsa-lib's output buffer takes an event or drains first, perhaps in
part; the kernel fills the ids there is room for, and `fill` the descriptors
there are. The kernel's own layout of the structures is what bindgen asserts in
`asound_ioctl.rs`. That file is not in the crate's module tree, so the
assertions are never compiled: the runs take their place.

**History variables.** `pending`, `yielded` (playback), `unread`, `overrun`,
`out` (capture), `infos`, `result`, `things`, `stay`, `whole`, `shrunk`, `aged`
(iterators), `listed` (element lists), `asked` (time stamps), `sent` and the
`said` and `nr` of messages (events) record what happened, for the
properties and the refinement mappings; no guard of the code's own actions
reads them (`Start`, `HwAdvance`, `HwRecord` do: what the card knows is what was
really committed).

## 3. Runs

| Run | Bounds | Shows |
|---|---|---|
| `playback_fifo` | 3 frames of 2 samples, 2 sample values, boundary 12, any number of wraps, appl_ptr not below zero | `ImplementsFifo`: write and card are the FIFO of whole frames of `FrameFifo` |
| `playback_wrap` | 3 frames of 2 samples, boundary 15, word 42, any number of wraps, underruns of up to 2 frames | `AvailExact`, `RoomNeverShrinks`, `RegionsBounded` (a region begins before the ring only when commit has left appl_ptr below zero, and none runs past its end), `RegionsFree` (no frame that waits to be played is in a region being filled), and the inductive invariant `IInv` |
| `capture_fifo` | 3 frames of 2 samples, boundary 12, any number of wraps, appl_ptr not below zero, overruns of 1 frame | `ImplementsFifo`: capture is `CaptureFifo`; `AvailExact`; `IterWithinUnread`: an iterator never holds more than was recorded |
| `pcm_io` | 3 handles, 4 formats, 3 nested closures | the configuration and format hold still under IO objects and closures |
| `synth_safety` | buffer 4, 3 events, 2 suspends, a card as fast as it likes | the loop starts streams with a full buffer and never sleeps on a fetched event. `EndsForCause`: where no call fails of itself, `run` returns only over an unplugged card, a suspend that was not undone or, in emulated mode, an underrun between a resume and the second `avail_update` |
| `synth_live` | buffer 4, wakeup at 2, 3 events, 1 suspend, poll without timeout; 3 voices, 2 to a note | the stream plays again after an underrun; every event is read; every released voice that has sounded is given back, also one of a note that got fewer voices than it asked for |
| `parts` | see below | each part keeps its promises: the iterators yield what stays, once and in order, and end; an index `elem_list` accepts is an element's; `poll_all` returns the objects that something happened on and polls nothing that was not filled; a field read through `ffi.rs` is the kernel's; a time stamp is the one asked for; volumes never jump |
| `seq_events` | 2 events, 2 Inputs, 2 contents, an output buffer of 2 events, 3 events output | alsa-lib never reads through a stale pointer or a wrong type; no living event's bytes change; events are sent in the order they were output in. Deadlock is checked |

The parts: raw MIDI devices 0 to 2 with up to 2 subdevices each way, some of them
with one direction only, and hot unplug;
3 things to iterate over, which appear and vanish at any time; 3 elements; every
structure of both declarations; seconds 0 to 2 (0 is what a new event has) and
two nanoseconds; 2 objects of up to 2 descriptors; 3 voices, 2 to a note, 2
notes, volumes of a multiple of the step and not.

**Disagreements found** (runs that TLC must find violated):

| Run | The repository says | The code does |
|---|---|---|
| `playback_region_doc` | appl_ptr "wraps at 'boundary'" (`direct/pcm.rs:378`), the regions are in the ring buffer (`:420`) | `commit` tests `z + v >= boundary` with `z` already advanced by `v`, and stores a number below zero when the new position is within `v` of the boundary; `data_ptr`'s offset is then negative and the region starts before the buffer |
| `pcm_io_shared` | "No IO object can exist" while hw parameters are set (`pcm.rs:281`) | the drop of one of several objects from `io_unchecked`, whose contract allows them, clears the flag |
| `rawmidi_doc` | `Iter` iterates over "devices and subdevices" (`rawmidi.rs:13`) | a device with one direction yields an error and the counts of the device before |
| `errno_doc` | `errno()` is to be matched with the constants of nix (`error.rs:99`), as a test does (`error.rs:231`) | `from_code` keeps the sign that `acheck!` removes: errors of `poll`, and of `fill` and `revents` of every object, have the negated number, equal no constant and print as unknown |

The boundary is of the order of 2^30 or 2^62 frames, so the first needs hours on
a 32-bit machine and does not happen on a 64-bit one. It needs no unusual
program, though: one that commits `v` frames at a time, where `v` divides the
boundary, comes to `boundary - 2 * v` in every turn, and the commit there is such
a one. Playback's `avail` is exact all the same (theorem `AvailAlwaysExact`). Capture's
is not: with a counter below zero it is too large by the boundary, so
`capture_fifo` and the theorems about capture stop at that commit. They do not
stop at the wrap itself: a commit that reaches the boundary wraps to where it
should, and both runs go round any number of times that way. `CommitBelowZero`
says exactly which commits do not.

**Why the bounds are enough.** Three frames are the fewest with a write that
wraps, one that does not and a frame that stays; two samples the fewest that
make an incomplete frame. A boundary of five buffers lets both counters wrap in
every relative position; `HalfWord` leaves just the room above the boundary the
code needs. `MaxAppl` 15 never binds. The two runs of the FIFOs take
`SpecAboveZero`, which is `Spec /\ [](applPtr >= 0)` written as one TLC can run:
of the steps of `Next` those that leave appl_ptr at zero or above, and a stop
where the coming commit would not. Three events are enough for one to be fetched
with another, and a third to arrive in between; and for a note, another that the
pool cuts short and the release of both, or a note that follows a release. Three
things are the fewest of which one vanishes before, one behind and one at an
iterator's position; three elements the fewest with one listed, one left over
for want of room and one added meanwhile. Two objects of two descriptors have
parts that differ in place and in length. Three voices with two to a note leave
a second note one voice short. In `SeqIo` two slots are what a clone needs, two
Inputs what the flag excludes, and three events output are one more than the
buffer holds.

**Fairness.** `synth_live` assumes weak fairness of the thread's step, which is
always enabled outside of `poll` and, in `poll`, once the kernel makes a
descriptor ready; and weak fairness of a running card. poll's 100 ms timeout is
switched off, so that nothing is owed to it. `Burst = 1` bounds the card's speed
against the loop's: it plays at most a frame in each step of the loop while the
loop is awake, so that a buffer of three or more that was just filled does not
run dry in the steps up to the next look at the state. Without it a machine too
slow for its card starves its events, as the code does too. Nothing is owed to
what may happen and need not: events, suspends, unplugging, and a `poll` that
fails, which for that reason is no step of `Loop`. That `run` may return is no
way out for the loop: a call that can fail can also succeed, and every behaviour
in which none fails has to satisfy the properties. `CHECK_DEADLOCK FALSE` there
and in `synth_safety`, as `run` may return with an error; nothing happens after
that, as it closes the stream and the client. The voices need no fairness of
their own: the loop draws samples whenever it plays. `parts` assumes weak
fairness of the iterators' `next`: the program that loops over one calls it
again, and not every call fails. Nothing is assumed of what appears and
vanishes. `CHECK_DEADLOCK FALSE` in `parts`, as `elem_list` and `poll_all`
return and a structure has a last field.

## 4. Proofs

Every theorem is about the specification TLC runs, for every value of the
constants that the module's assumption allows. Each rests on an inductive
invariant that TLC found to hold on the runs' instances first.

**The ring** (`MmapRingProofs`, from `RingAssumption`: a boundary that is a
multiple of the buffer, at least four buffers, with two buffers to spare below
half a word). Lemmas over plain numbers: what `avail` returns (`AvailPlaybackValue`,
`AvailCaptureValue`) and commit stores (`CommitToValue`), and when that is below
zero (`CommitBelowZero`); samples are frames times channels (`Samples`,
`WholeFramesBound`, `FrameAndSample`); two frames of the stream that are less
than a buffer apart have different slots (`FramesApart`), and the slots of
consecutive frames follow each other up to the end of the ring (`FrameAhead`).
The boundary is a whole number of turns of the ring (`BoundaryTurns`), so a
position and the one a boundary further are the same slot (`SameSlot`): with it
every argument about places survives the wraps. Where `data_ptr` says a region
is depends on the sign of appl_ptr (`DataPtrBelow` for the negative one).

**Playback** (`MmapPlaybackProofs`).

* Without a hypothesis: `TypeCorrect`, `Invariance`, `AvailAlwaysExact`,
  `RoomIsStable`, `RegionsStayBounded`, `RegionsStayFree`. `AvailExact` is not
  inductive: whether `avail` returns the room depends on appl_ptr being within a
  buffer of its range, on hw_ptr and appl_ptr differing by `pending` up to one
  boundary, and on the coming commit not overfilling the buffer. `IInv` says so
  (`CountersAgree`, `CallBounded`, `RunningHasFrames`). `RegionsStayBounded` is
  the other side of the first finding: a region leaves the ring in one way only,
  at its start and with an appl_ptr below zero. And even there no frame that
  waits to be played is in a region being filled (`RegionsStayFree`): the
  samples that miss the ring are lost, those that wait in it are not.
* While appl_ptr is not below zero (`Spec /\ [](applPtr >= 0)`):
  `RegionsLieInRing` and the refinement `PlaybackIsFifo`, over any number of
  wraps. The hypothesis is the code's, not the proof's: with a negative appl_ptr
  samples are written outside the ring (run `playback_region_doc`), and what is
  played is not what was written. `AboveZeroBeforeBoundary`: every stream that
  stays two buffers short of the boundary satisfies it.

  The invariant `StreamInv` needs no hypothesis. It adds to `IInv` that the
  regions follow each other from appl_ptr, within the room (`RegionsPlaced`, with
  `BeginsAt` for an appl_ptr in the ring's range and `BeginsBelow` for one below
  zero), and that what the write in progress took from its iterator is in the
  ring, sample by sample, as far as its place is (`Stored`). That `RegionsFree`
  and the queue of `FrameFifo` survive a sample being stored then comes down to
  `FramesApart`. Each action maps to a step of the FIFO (`FifoOffer`,
  `FifoPublish`, `FifoPlay`) or a stutter, in `FifoNext`.

**Capture** (`MmapCaptureProofs`, from `CaptureAssumption`, under the same
hypothesis `[](applPtr >= 0)`, here because `avail` itself is wrong without it):
`CaptureTypes`, `CaptureAvailExact`, `IterHoldsRecorded` and the refinement
`CaptureIsFifo`; `AboveZeroBeforeBoundary` again says which streams need no
hypothesis. `CaptureInv` adds to the types that hw_ptr is ahead of appl_ptr by the
unread frames, less a turn or not (`CountersAgree`), and that an open iterator's
samples, read or not, were recorded and fit the ring (`IterBounded`): a commit
then adds to appl_ptr what was read and no more. `StreamInv` says that, until an
overrun, what was recorded and not committed is all in the ring (`Recorded`), and
where in the stream the iterator's regions and its offset are (`IterPlaced`): what
`next` reads is then the sample the abstract FIFO hands out.

**IO objects** (`PcmIoProofs`, assuming `~SharedUnchecked`; `pcm_io_shared` shows
why): `FormatAlwaysMatches`, `HwNeverChangesUnderIo`, `FlagInvariance`,
`MmapAlwaysConfigured`. The invariant: the flag is set exactly when an object
lives, there is at most one, and every running closure borrows it. Without the
assumption one half is left (`FlagNeverLingers`): a set flag means that an object
lives, so calls may be let through that should panic but none panics over an
object that was dropped, and closures still borrow living objects.

**The synthesizer** (`SynthProofs`, from `LoopAssumption`, `VoicesAssumption`).
`LoopInvariance`, `EventsNeverLeftBehind`, `EndsOnlyForCause`,
`StartsWithFullBuffer`: the invariant follows a prepared stream through the loop,
empty until the commit of the pass that starts it, then full.
`SynthImplementsLoop`: the loop with its voices is the loop, so all four hold of
the whole. `VolumesNeverJump`: a voice that is not released never sounds louder
than its target; without that the step up to the target could be a fall of any
height.

In the whole a commit draws as many frames as there was room for, which
`Synth!Drawn` writes as a recursive function. The provers know such a function
as a `CHOOSE`, so the proof first shows that the recursion has a value for every
number of frames (`FramesExist`, `DrawnFrames`) and then what the voices are after
each of them (`FramesPlayed`). Both are inductions; the library's theorems of that
name take an operator, so `NatSteps` says it of a set of numbers, from the fact
that `<` is well-founded. `WholeBelowTarget` is the voices' invariant in the whole;
`WholeNeverJumps` bounds a volume's move by a step for each frame written;
`WholeReleasedFade` says that a released voice that sounds loses exactly a step
for each frame written, is given back at zero, and is touched by nothing else. It
is the safety half of `VoicesReturn`: what is left to fairness is that frames are
written.

**Events** (`SeqProofs`, from `SeqIoAssumption`).

* `FlagsAndTimeAsAsked`: the flags are those of the length, unit, mode and
  priority asked for, and no others, and `get_time` tells the real time asked for.
  `get_tick` is no part of it (section 6).
* `AlwaysSentAsSaid`, `BytesAlwaysStay`: the flag is set while an Input lives and
  there is one at most (`OneInput`); an event's bytes are its own or in the input
  buffer of a living Input, and have not been freed (`BytesOwned`); every message
  is as its event said (`AllFaithful`).
* `OrderIsKept`: what was sent, followed by what waits in the buffer, is in the
  order of the calls, those of `event_output_direct` aside; inductive with the
  fact that no message has the number of a call to come. A drain that gets rid of
  a part moves messages from one to the other, `drop_output` cuts off the end.

**Lists asked for twice** (`ListProofs`, from `PollAssumption`, `ElemsAssumption`).

* `PollInvariance`, `AlwaysOwnEvents`, `NeverBlankPolled`: an object's part of the
  descriptors holds its own and all of its own (`Parts`), though it may return
  fewer than it counted.
* `ListInvariance`, `IndexAlwaysGivesElem`, `NothingEverLost`: the ids are
  different elements of the moment of the second call, as many as there is room
  for (`AnswerOf`). That a full list is complete needs the two cardinalities.

**Iterators** (`IterProofs`, from `IterAssumption`, `ThingsAssumption`).

* `IterTypes`, `IterInOrder` of `rawmidi::Iter`: what was yielded lies behind the
  position (`YieldedPassed`), which has to be said of four fields, as a playback
  item's number is what is left of `current` after `in_count`; and a device just
  entered has something to yield, so that the position moves on (`JustEntered`).
* `IterEndsComplete`: of the devices with both directions, what lies behind the
  position was yielded (`PassedYielded`), because the counts are those of the
  device (`CountsAgree`). Where a device has one direction they are not, which is
  the finding of `rawmidi_doc`; the theorem says that it costs no other device
  anything.
* `NeverRepeat`, `PassesComplete` of the other ten: the same argument in both
  directions, with `Behind` for the position, which is a number, a place in a
  snapshot, or for subscriptions the number of older ones (`Rank`). A
  subscription that goes away lowers the others' ranks: those yielded stay behind
  (`YieldedBehind`), one that was not may get there, which is why `PassComplete`
  makes an exception of it.
* `PassesAreShort`: as a pass is in order, it yields no more items than there may
  be things, however often they come back. That its neighbours being in order
  puts all of it in order is an induction on their distance (`AllInOrder`). It is
  the safety half of `PassEnds`.

What is only model-checked: liveness, which needs fairness (`Recovers`,
`EventsHandled`, `VoicesReturn`, `PassesEnd`); the kernel's structures and
requests (`FieldsReadAsWritten`, `SizesAgree`, `KernelUnderstands`), which have no
parameters, so that TLC's run is exhaustive; and what `errno()` tells
(`ErrorPaths`), finite as well.

## 5. Plan

1. *Done*: the ring (`MmapRing`, `MmapPlayback`, `MmapCapture` and their abstract
   FIFOs), `PcmIo`, the synthesizer (`SynthLoop`, `SynthVoices`, `Synth`), the
   sequencer (`SeqIo`, `SeqStamp`), the iterators (`RawmidiIter`,
   `Enumerations`), `ElemList`, `PollAll`, `ErrorPaths`, the kernel ABI
   (`StructLayout`, `KernelStructs`, `FfiStructs`, `KernelAbi`), and the theorems
   above: every safety property of a run that has parameters is a theorem.
2. Capture with an appl_ptr below zero. The card of `MmapCapture` knows what was
   really committed; what happens after such a commit needs one that computes its
   own `avail` from the counters in the pages.
3. `PcmIo` with `MmapIO` objects, which copy the configuration when they are made.

## 6. Not modelled

* What a method does that is one call of alsa-lib (parameter setters and getters,
  mixer volumes, names, ports, queues, pools, the configuration tree, the MIDI
  coder) has no behaviour of this crate to check; neither have re-exports and
  the linear examples.
* Sample values, formats' byte layout, the sound synthesised and `cc`, which
  scales it, are data no property is about.
* The typed accessors of `ElemValue` test a type and make one call.
  `set_integer64` tests for the wrong one (`ctl_int.rs:275`); no doc says what it
  should do, and a single call shows it.
* `get_tick` looks for the flag of a real time (`seq.rs:838`) and has no tick for
  any event scheduled by ticks. `StampAsAsked` leaves it out.
* A note released before its first sample has both volumes at zero, and its voices
  are never given back (`main.rs:179`). `VoicesReturn` is about the others.
* An event passed to `control_queue` becomes a control event in C while its own
  type stays (`seq.rs:122`). `SeqIo` does not output it again (`MayOutput`).
* An element handle used after `handle_events` removed the element reads freed
  memory; that has no outcomes to choose from.
* `Status::htstamp` reads two words that the kernel may write in between; no doc
  promises that they belong together. `sync_ptr`'s flags and the mapping of the
  pages are one call each.
* The error handler writes into a thread-local output, and panics when the caller
  holds a borrow of it: no state follows.
