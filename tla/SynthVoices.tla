----------------------------- MODULE SynthVoices -----------------------------
(***************************************************************************)
(* The voices of the synthesizer (struct Synth of synth-example/src/       *)
(* main.rs): notes take voices from a fixed pool, one per harmonic, and    *)
(* give them back when their volume has faded.  MIDI events and samples    *)
(* come in any order: the loop reads several events between two samples    *)
(* when the ring buffer is full (see Synth).                               *)
(*                                                                         *)
(* Volumes count thousandths.  What is played, and cc, which scales it,    *)
(* decide nothing about the voices and are left out.                       *)
(***************************************************************************)
EXTENDS Integers, FiniteSets

CONSTANTS
  Voices,  \* the pool, numbers from 1 on (256)
  Bars,    \* harmonics of a note (9)
  Notes,
  Vols,    \* volumes of a note on
  Step     \* change of a volume per sample (0.002)

ASSUME VoicesAssumption == /\ Voices \in Nat \ {0} /\ Bars \in Nat \ {0}
                           /\ Vols \subseteq Nat \ {0} /\ Step \in Nat \ {0}

VARIABLES
  sigs,   \* the voices
  second  \* stored_sample: the frame's second sample is still to be taken

voicesVars == <<sigs, second>>

Voice == 1 .. Voices
Silent == [note |-> "none", bar |-> 0, curvol |-> 0, targetvol |-> 0]
Free == {v \in Voice : sigs[v] = Silent}

VoicesInit == sigs = [v \in Voice |-> Silent] /\ second = FALSE

\* position(is_none), as often as there are harmonics: the lowest free ones
Lowest(n) == {v \in Free : Cardinality({w \in Free : w <= v}) <= n}

\* add_note: a voice overflow leaves the harmonics that came too late out
add_note(n, vol) ==
  /\ sigs' = [v \in Voice |->
       IF v \in Lowest(Bars)
       THEN [note |-> n, bar |-> Cardinality({w \in Free : w <= v}),
             curvol |-> 0, targetvol |-> vol]
       ELSE sigs[v]]
  /\ UNCHANGED second

\* mutant: the voices of the note are silenced at once
remove_note_AtOnce(n) ==
  /\ sigs' = [v \in Voice |-> IF sigs[v].note = n THEN Silent ELSE sigs[v]]
  /\ UNCHANGED second

\* remove_note: whichever key press the voices are from
remove_note(n) ==
  /\ sigs' = [v \in Voice |-> IF sigs[v].note = n
                              THEN [sigs[v] EXCEPT !.targetvol = 0] ELSE sigs[v]]
  /\ UNCHANGED second

\* mutant: a volume that would fall below zero is zero, as any target is met
Envelope_StopsAtZero(s) ==
  IF s.curvol = s.targetvol THEN s
  ELSE IF s.targetvol = 0
  THEN [s EXCEPT !.curvol = IF @ <= Step THEN 0 ELSE @ - Step]
  ELSE [s EXCEPT !.curvol = IF @ + Step >= s.targetvol THEN s.targetvol ELSE @ + Step]

\* one sample of a voice's volume
Envelope(s) ==
  IF s.curvol = s.targetvol THEN s
  ELSE IF s.targetvol = 0
  THEN IF s.curvol <= Step THEN Silent ELSE [s EXCEPT !.curvol = @ - Step]
  ELSE [s EXCEPT !.curvol = IF @ + Step >= s.targetvol THEN s.targetvol ELSE @ + Step]

\* Iterator::next: a frame's second sample is its first again
next ==
  /\ second' = ~second
  /\ sigs' = IF second THEN sigs ELSE [v \in Voice |-> Envelope(sigs[v])]

VoicesNext ==
  \/ next
  \/ \E n \in Notes : remove_note(n) \/ \E vol \in Vols : add_note(n, vol)

VoicesSpec == VoicesInit /\ [][VoicesNext]_voicesVars

-----------------------------------------------------------------------------
(* Properties                                                              *)

\* main.rs:178, an envelope "to avoid clicks": however notes are pressed,
\* released and pressed again between two samples, no voice's volume jumps by
\* more than a step, the voice taken or given back included.
NoClicks ==
  [][\A v \in Voice : /\ sigs'[v].curvol - sigs[v].curvol \in -Step .. Step
                      /\ sigs[v] # Silent /\ sigs'[v] # Silent =>
                           sigs'[v].note = sigs[v].note /\ sigs'[v].bar = sigs[v].bar]_voicesVars
=============================================================================
