------------------------------ MODULE SynthLoop ------------------------------
(***************************************************************************)
(* The main loop of synth-example/src/main.rs: one thread keeps the ring   *)
(* buffer of a sound card filled, reads MIDI events from the sequencer and *)
(* sleeps in poll when there is nothing to do.  It runs against the card,  *)
(* which plays and may run dry, be suspended or be unplugged at any time,  *)
(* and against whoever sends MIDI events.                                  *)
(*                                                                         *)
(* Playback is either direct (MmapIO, see MmapPlayback, whose avail() is   *)
(* BufSize less the frames waiting) or through alsa-lib's emulation (IO).  *)
(* alsa-lib, the kernel and the card are external: they do what the loop   *)
(* relies on.  Only a running stream is suspended.  Frames the card plays  *)
(* past the last one written are not counted: prepare forgets them.        *)
(*                                                                         *)
(* run has no way to its end but `?`.  It ends in "exit" over the state of *)
(* the stream, and in "failed" over a call that fails for a reason of its  *)
(* own: whatever calls alsa-lib or the kernel may do so.                   *)
(***************************************************************************)
EXTENDS Naturals

CONSTANTS
  BufSize,      \* frames in the ring buffer
  AvailMin,     \* set_avail_min: room at which poll returns
  Timeout,      \* whether poll also returns after its 100 ms
  Burst,        \* frames the card plays at most between two steps of the loop
  MaxEvents,    \* bound: MIDI events sent
  MaxSuspends   \* bound: how often the system is suspended

ASSUME LoopAssumption ==
  /\ BufSize \in Nat \ {0} /\ AvailMin \in 1 .. BufSize
  /\ Timeout \in BOOLEAN
  /\ Burst \in Nat /\ MaxEvents \in Nat /\ MaxSuspends \in Nat

VARIABLES
  direct,    \* whether direct mode is available
  pc,        \* where the loop is
  room,      \* frames the write in progress will commit
  pos,       \* appl_ptr, as a position in the ring
  state,     \* the stream's state
  pending,   \* frames committed and not yet played
  burst,     \* frames played since the loop's last step
  kernel,    \* MIDI events in the kernel's queue of our client
  buffered,  \* MIDI events in alsa-lib's input buffer
  handled,   \* MIDI events read by the loop
  suspends   \* times the system was suspended

loop == <<direct, pc, room>>
stream == <<pos, state, pending>>
midi == <<kernel, buffered, handled>>
vars == <<loop, stream, burst, midi, suspends>>

avail == BufSize - pending

Init ==
  /\ direct \in BOOLEAN /\ pc = "write" /\ room = 0
  /\ pos = 0 /\ state = "Prepared" /\ pending = 0 /\ burst = 0
  /\ kernel = 0 /\ buffered = 0 /\ handled = 0 /\ suspends = 0

\* `?` on an error: run returns
Return(how) == pc' = how /\ UNCHANGED <<direct, room>>
Exit   == Return("exit") /\ UNCHANGED stream
Fail   == Return("failed") /\ UNCHANGED stream
Returned == pc \in {"exit", "failed"}

\* what a successful snd_pcm_prepare does to the stream
Prepared == state' = "Prepared" /\ pending' = 0 /\ pos' = 0

-----------------------------------------------------------------------------
(* Writing samples                                                         *)

\* mutant: room is taken for granted
DirectWrite_WholeBuffer ==
  /\ pc = "write" /\ direct
  /\ room' = BufSize
  /\ pc' = "commit"
  /\ UNCHANGED <<direct, stream>>

\* mutant: a frame is always left free
DirectWrite_LeavesOne ==
  /\ pc = "write" /\ direct
  /\ room' = IF avail > 0 THEN avail - 1 ELSE 0
  /\ pc' = "commit"
  /\ UNCHANGED <<direct, stream>>

\* write_samples_direct: avail, and the room write finds
DirectWrite ==
  /\ pc = "write" /\ direct
  /\ room' = avail
  /\ pc' = "commit"
  /\ UNCHANGED <<direct, stream>>

\* write_samples_io: avail_update, and the contiguous room of mmap_begin
IoWrite ==
  /\ pc \in {"write", "again"} /\ ~direct
  /\ state \in {"Prepared", "Running"}
  /\ room' = IF avail < BufSize - pos THEN avail ELSE BufSize - pos
  /\ pc' = "commit"
  /\ UNCHANGED <<direct, stream>>

\* avail_update failed, for the stream's state: recover resumes it or prepares
\* it anew
IoRecover ==
  /\ pc = "write" /\ ~direct
  /\ state \in {"XRun", "Suspended"}
  /\ \/ Prepared
     \/ state = "Suspended" /\ state' = "Running" /\ UNCHANGED <<pos, pending>>
  /\ pc' = "again"
  /\ UNCHANGED <<direct, room>>

\* The second avail_update fails too, or the mmap of a suspended stream does.
\* Every call on a card that was unplugged does, recover included.
IoFails ==
  /\ ~direct
  /\ \/ pc = "again" /\ state \in {"XRun", "Suspended", "Disconnected"}
     \/ pc = "write" /\ state = "Disconnected"
     \/ pc = "commit" /\ state \in {"Suspended", "Disconnected"} /\ room > 0
  /\ Exit

\* an error that recover cannot undo, recover's own, or one of the mmap
IoCallFails ==
  /\ ~direct
  /\ pc \in {"write", "again"} \/ (pc = "commit" /\ room > 0)
  /\ Fail

\* the synth never ends: the room is filled
Commit ==
  /\ pc = "commit"
  /\ pending' = pending + room
  /\ pos' = (pos + room) % BufSize
  /\ room' = 0 /\ pc' = "status"
  /\ UNCHANGED <<direct, state>>

-----------------------------------------------------------------------------
(* What the stream's state asks for.  A stream that is not running changes *)
(* its state only when this thread says so, or when the card is unplugged, *)
(* upon which the call that was asked for fails as well: reading the state *)
(* and acting on it is one step.                                           *)

\* mutant: the events are not looked at after a write
Running_CallsAgain ==
  /\ pc = "status" /\ state = "Running"
  /\ pc' = "write"
  /\ UNCHANGED <<direct, room, stream>>

StillRunning ==
  /\ pc = "status" /\ state = "Running"
  /\ pc' = "midi"
  /\ UNCHANGED <<direct, room, stream>>

\* start is refused while there is nothing to play
StartStream ==
  /\ pc = "status" /\ state = "Prepared"
  /\ \/ /\ pending > 0
        /\ state' = "Running" /\ pc' = "write"
        /\ UNCHANGED <<direct, room, pos, pending>>
     \/ pending = 0 /\ Exit
     \/ Fail

\* mutant: the stream is started without being filled again
PrepareStream_Starts ==
  /\ pc = "status" /\ state = "XRun" /\ direct
  /\ state' = "Prepared" /\ pending' = 0 /\ pos' = 0
  /\ pc' = "status"
  /\ UNCHANGED <<direct, room>>

\* mutant: an underrun is noted and ignored
PrepareStream_Ignored ==
  /\ pc = "status" /\ state = "XRun" /\ direct
  /\ pc' = "midi"
  /\ UNCHANGED <<direct, room, stream>>

\* direct mode: what was written since the underrun is thrown away
PrepareStream ==
  /\ pc = "status" /\ state = "XRun" /\ direct
  /\ \/ Prepared /\ pc' = "write" /\ UNCHANGED <<direct, room>>
     \/ Fail

\* direct mode: not every card can resume
ResumeStream ==
  /\ pc = "status" /\ state = "Suspended" /\ direct
  /\ \/ /\ state' = "Running" /\ pc' = "write"
        /\ UNCHANGED <<direct, room, pos, pending>>
     \/ Exit

\* "Recover from this in next round"
IoNextRound ==
  /\ pc = "status" /\ state \in {"XRun", "Suspended"} /\ ~direct
  /\ pc' = "write"
  /\ UNCHANGED <<direct, room, stream>>

\* "Unexpected pcm state"
UnexpectedState ==
  /\ pc = "status" /\ state \notin {"Running", "Prepared", "XRun", "Suspended"}
  /\ Exit

WriteSamples ==
  DirectWrite \/ IoWrite \/ IoRecover \/ IoFails \/ IoCallFails \/ Commit
  \/ StillRunning \/ StartStream \/ PrepareStream \/ ResumeStream \/ IoNextRound
  \/ UnexpectedState

-----------------------------------------------------------------------------
(* read_midi_event and poll                                                *)

\* event_input_pending(true) or event_input fails, as when the kernel's queue
\* has overrun; what it leaves in the queues is not looked at again
EventsFail == pc \in {"midi", "event"} /\ Return("failed") /\ UNCHANGED midi

\* event_input_pending(true): looks at the kernel if the buffer is empty
EventsPending ==
  /\ pc = "midi" /\ kernel + buffered > 0
  /\ IF buffered = 0 THEN buffered' = kernel /\ kernel' = 0
                     ELSE UNCHANGED <<buffered, kernel>>
  /\ pc' = "event"
  /\ UNCHANGED <<direct, room, handled>>

NoEvent ==
  /\ pc = "midi" /\ kernel + buffered = 0
  /\ pc' = "poll"
  /\ UNCHANGED <<direct, room, midi>>

\* mutant: the loop sleeps after each event
HandleEvent_Sleeps ==
  /\ pc = "event"
  /\ buffered' = buffered - 1 /\ handled' = handled + 1
  /\ pc' = "poll"
  /\ UNCHANGED <<direct, room, kernel>>

\* event_input
HandleEvent ==
  /\ pc = "event"
  /\ buffered' = buffered - 1 /\ handled' = handled + 1
  /\ pc' = "write"
  /\ UNCHANGED <<direct, room, kernel>>

ReadMidiEvent == EventsPending \/ NoEvent \/ HandleEvent \/ EventsFail

\* poll sees the kernel's queue, not the buffer, and the stream when it has
\* room or has stopped
PollReturns ==
  /\ pc = "poll"
  /\ kernel > 0 \/ avail >= AvailMin \/ state # "Running" \/ Timeout
  /\ pc' = "write"
  /\ UNCHANGED <<direct, room>>

\* a signal ends poll, or it fails otherwise: it may, at any time
PollFails ==
  /\ pc = "poll"
  /\ Return("failed")
  /\ UNCHANGED <<stream, midi, burst, suspends>>

Loop == /\ \/ WriteSamples /\ UNCHANGED midi
           \/ ReadMidiEvent /\ UNCHANGED stream
           \/ PollReturns /\ UNCHANGED <<stream, midi>>
        /\ burst' = 0
        /\ UNCHANGED suspends

-----------------------------------------------------------------------------
(* The card, the system and the senders of events, until run returns: it   *)
(* closes the stream and the client then.                                  *)

\* The card plays n frames; with none left it stops.  While the loop sleeps
\* it may play any number.
Play(n) ==
  /\ ~Returned /\ state = "Running" /\ n <= pending
  /\ pc = "poll" \/ burst + n <= Burst
  /\ burst' = IF pc = "poll" THEN burst ELSE burst + n
  /\ pending' = pending - n
  /\ state' = IF n = pending THEN "XRun" ELSE "Running"
  /\ UNCHANGED <<loop, pos, midi, suspends>>

Suspend ==
  /\ ~Returned /\ state = "Running" /\ suspends < MaxSuspends
  /\ state' = "Suspended" /\ suspends' = suspends + 1
  /\ UNCHANGED <<loop, pos, pending, burst, midi>>

Unplug ==
  /\ ~Returned /\ state # "Disconnected"
  /\ state' = "Disconnected"
  /\ UNCHANGED <<loop, pos, pending, burst, midi, suspends>>

Arrive ==
  /\ ~Returned /\ kernel + buffered + handled < MaxEvents
  /\ kernel' = kernel + 1
  /\ UNCHANGED <<loop, stream, burst, buffered, handled, suspends>>

Card == \E n \in 1 .. BufSize : Play(n)

Next == Loop \/ PollFails \/ Card \/ Suspend \/ Unplug \/ Arrive

Spec == Init /\ [][Next]_vars

\* The thread is scheduled, and a running card plays.  Nothing is owed to a
\* poll that fails, to suspends, unplugging or events.
FairSpec == Spec /\ WF_vars(Loop) /\ WF_vars(Card)

-----------------------------------------------------------------------------
(* Properties                                                              *)

\* Types of the loop's and the stream's state.
TypeOK ==
  /\ direct \in BOOLEAN
  /\ pc \in {"write", "again", "commit", "status", "midi", "event", "poll",
            "exit", "failed"}
  /\ room \in 0 .. BufSize
  /\ pos \in 0 .. BufSize - 1
  /\ state \in {"Prepared", "Running", "XRun", "Suspended", "Disconnected"}
  /\ pending \in 0 .. BufSize
  /\ burst \in Nat
  /\ kernel \in Nat /\ buffered \in Nat /\ handled \in Nat
  /\ suspends \in 0 .. MaxSuspends

\* The loop never sleeps on an event it has fetched already: poll would not
\* see it, and the note would sound only after some other wakeup.
NoEventLeftBehind == pc = "poll" => buffered = 0

\* A stream is started with its whole buffer filled, at first and after every
\* underrun, though the loop may have been anywhere when the card ran dry.
StartsFull == [][state = "Prepared" /\ state' = "Running" => pending = BufSize]_vars

\* Where no call fails of itself, what ends the program is an unplugged card, a
\* suspend that was not undone, or, in emulated mode only, a stream that ran dry
\* right after it was resumed, before the second avail_update.  An underrun
\* alone never does: it is always recovered from, no start is refused for want
\* of samples, and direct mode survives the one that follows a resume.
EndsForCause ==
  pc = "exit" => \/ state = "Disconnected"
                 \/ state = "Suspended"
                 \/ state = "XRun" /\ ~direct /\ suspends > 0

\* The inductive invariant behind these.  A prepared stream is empty until the
\* commit of the pass that starts it; a write in progress has room.
PreparedFilledOnce ==
  state = "Prepared" =>
    /\ pc \in {"write", "again", "commit", "status", "failed"}
    /\ pc \in {"write", "again", "commit"} => pending = 0 /\ pos = 0
    /\ pc = "commit" => room = BufSize
    /\ pc = "status" => pending = BufSize
RoomFits == pc = "commit" => pending + room <= BufSize
EventFetched == pc = "event" => buffered > 0
SuspendsCounted ==
  state = "Suspended" \/ (pc = "again" /\ state \notin {"Prepared", "Disconnected"})
    => suspends > 0
IInv == /\ TypeOK /\ PreparedFilledOnce /\ RoomFits /\ EventFetched
        /\ SuspendsCounted /\ NoEventLeftBehind /\ EndsForCause

\* After an underrun the stream plays again.
Recovers == state = "XRun" ~> (state = "Running" \/ Returned)

\* Every event that arrives is read unless the program ends, however often the
\* card runs dry or the system is suspended meanwhile, and without the help of
\* poll's timeout.
EventsHandled ==
  \A n \in 1 .. MaxEvents :
    kernel + buffered + handled >= n ~> (handled >= n \/ Returned)
=============================================================================
