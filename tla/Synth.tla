-------------------------------- MODULE Synth --------------------------------
(***************************************************************************)
(* The synthesizer whole (synth-example/src/main.rs): the loop of          *)
(* SynthLoop with the voices of SynthVoices.  A MIDI event that is handled *)
(* takes or releases voices, or is another event (cc); a commit is         *)
(* preceded by as many calls of Synth::next as its room has samples, two   *)
(* to a frame.                                                             *)
(***************************************************************************)
EXTENDS Naturals

CONSTANTS BufSize, AvailMin, Timeout, Burst, MaxEvents, MaxSuspends,
          Voices, Bars, Notes, Vols, Step

VARIABLES direct, pc, room, pos, state, pending, burst, kernel, buffered,
          handled, suspends, sigs, second

L == INSTANCE SynthLoop
V == INSTANCE SynthVoices

loop == <<direct, pc, room, pos, state, pending, burst, kernel, buffered, handled, suspends>>
voices == <<sigs, second>>
vars == <<loop, voices>>

Init == L!Init /\ V!VoicesInit

\* the samples of a write: as many frames as there is room
Drawn ==
  LET after[n \in 0 .. BufSize] ==
        IF n = 0 THEN sigs ELSE [v \in V!Voice |-> V!Envelope(after[n - 1][v])]
  IN  sigs' = after[room] /\ UNCHANGED second

\* read_midi_event: note on, note off, another event
Handled ==
  \/ UNCHANGED voices
  \/ \E n \in Notes : V!remove_note(n) \/ \E vol \in Vols : V!add_note(n, vol)

Loop == /\ L!Loop
        /\ IF pc = "commit" /\ pc' = "status" THEN Drawn
           ELSE IF handled' # handled THEN Handled
           ELSE UNCHANGED voices

Card == L!Card /\ UNCHANGED voices

Next == \/ Loop \/ Card
        \/ (L!PollFails \/ L!Suspend \/ L!Unplug \/ L!Arrive) /\ UNCHANGED voices

\* The fairness of SynthLoop.
Spec == Init /\ [][Next]_vars /\ WF_vars(Loop) /\ WF_vars(Card)

-----------------------------------------------------------------------------
(* Properties                                                              *)

\* After an underrun the stream plays again (see SynthLoop).
Recovers == L!Recovers

\* Every event that arrives is read (see SynthLoop).
EventsHandled == L!EventsHandled

\* A released voice that has sounded is given back, also one of a note that got
\* fewer voices than it has harmonics, whatever note follows and however often
\* the card runs dry meanwhile: samples keep being drawn.  One released before
\* its first sample is not given back: both its volumes are zero and next never
\* looks at it again.
VoicesReturn ==
  \A v \in V!Voice :
    sigs[v].targetvol = 0 /\ sigs[v].curvol > 0
      ~> (sigs[v] = V!Silent \/ L!Returned)
=============================================================================
