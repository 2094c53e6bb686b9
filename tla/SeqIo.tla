------------------------------- MODULE SeqIo -------------------------------
(***************************************************************************)
(* Events on their way through a sequencer handle (src/src/seq.rs).        *)
(*                                                                         *)
(* An Event keeps alsa-lib's C event beside its own copy of the type and,  *)
(* for variable-length types, of the data: bytes it owns, or bytes that it *)
(* borrows from the handle's input buffer.  The C event points to such     *)
(* bytes; the pointer is stale after a clone, a move or a copy of them and *)
(* ensure_buf sets it before alsa-lib reads the event.                     *)
(*                                                                         *)
(* The input buffer is overwritten by every event_input, so one Input may  *)
(* exist at a time, guarded by a flag of the Seq; event_input borrows it   *)
(* mutably for as long as the event lives.  What the borrow checker        *)
(* refuses is a guard here, and so is a call that panics.                  *)
(***************************************************************************)
EXTENDS Naturals, Sequences, SequencesExt

CONSTANTS
  Slots,     \* bound: the Event values of the program
  Inputs,    \* bound: the Input values of the program
  Bytes,     \* contents of events
  OutRoom,   \* bound: events that alsa-lib's output buffer holds
  MaxSent,   \* bound: events output
  No         \* no event, no buffer; freed memory

ASSUME SeqIoAssumption == /\ OutRoom \in Nat \ {0} /\ MaxSent \in Nat
                          /\ No \notin Slots \cup Inputs \cup Bytes
                          /\ "input" \notin Slots \cup {No}

VARIABLES
  hasInput,  \* Seq's Cell<bool>
  inputs,    \* the live Inputs
  ev,        \* the live Events, by slot
  mem,       \* contents of the bytes a slot owns and of the input buffer
  out,       \* alsa-lib's output buffer
  sent,      \* what the kernel was given, in order
  count      \* history: how many events have been output

vars == <<hasInput, inputs, ev, mem, out, sent, count>>

\* A variable-length type, one of fixed length, and the type of control_queue.
Types == {"Sysex", "Note", "Tempo"}
HasExt(t) == t = "Sysex"
Garbage == "garbage"  \* bytes of a pointer read as data
Value == "value"      \* control_queue's

\* get_type and get_ext or get_data: what the program sees of an event
Said(e) == <<e.type, IF HasExt(e.type) THEN mem[e.ext] ELSE e.data>>

\* what alsa-lib reads from the C event, the pointer never set or not
InC(e) ==
  <<e.ctype, IF ~HasExt(e.ctype) THEN e.data
             ELSE IF e.ptr = No THEN Garbage ELSE mem[e.ptr]>>

Free == {s \in Slots : ev[s] = No}
Live == Slots \ Free

Init == /\ hasInput = FALSE /\ inputs = {}
        /\ ev = [s \in Slots |-> No]
        /\ mem = [b \in Slots \cup {"input"} |-> No]
        /\ out = <<>> /\ sent = <<>> /\ count = 0

-----------------------------------------------------------------------------
(* Events                                                                  *)

Event(t, ext, ptr, data, from) ==
  [type |-> t, ctype |-> t, ext |-> ext, ptr |-> ptr, data |-> data, from |-> from]

\* Event::new and Event::new_ext, the latter with bytes of its own
New(s) ==
  /\ s \in Free
  /\ \E b \in Bytes :
       \/ /\ ev' = [ev EXCEPT ![s] = Event("Note", No, No, b, No)]
          /\ UNCHANGED mem
       \/ /\ ev' = [ev EXCEPT ![s] = Event("Sysex", s, No, No, No)]
          /\ mem' = [mem EXCEPT ![s] = b]
  /\ UNCHANGED <<hasInput, inputs, out, sent, count>>

\* Clone: owned bytes are copied, the C event as it is
CloneEvent(s, t) ==
  /\ s \in Live /\ t \in Free
  /\ IF ev[s].ext = s
     THEN /\ ev' = [ev EXCEPT ![t] = [ev[s] EXCEPT !.ext = t]]
          /\ mem' = [mem EXCEPT ![t] = mem[s]]
     ELSE ev' = [ev EXCEPT ![t] = ev[s]] /\ UNCHANGED mem
  /\ UNCHANGED <<hasInput, inputs, out, sent, count>>

\* into_owned
IntoOwned(s) ==
  /\ s \in Live
  /\ IF ev[s].ext = No
     THEN ev' = [ev EXCEPT ![s].from = No] /\ UNCHANGED mem
     ELSE /\ ev' = [ev EXCEPT ![s] = [@ EXCEPT !.from = No, !.ext = s]]
          /\ mem' = [mem EXCEPT ![s] = mem[ev[s].ext]]
  /\ UNCHANGED <<hasInput, inputs, out, sent, count>>

DropEvent(s) ==
  /\ s \in Live
  /\ ev' = [ev EXCEPT ![s] = No]
  /\ mem' = [mem EXCEPT ![s] = No]
  /\ UNCHANGED <<hasInput, inputs, out, sent, count>>

-----------------------------------------------------------------------------
(* Input                                                                   *)

Borrowed(i) == \E s \in Live : ev[s].from = i

\* mutant: no look at the flag
NewInput_NoCheck(i) ==
  /\ i \notin inputs
  /\ hasInput' = TRUE /\ inputs' = inputs \cup {i}
  /\ UNCHANGED <<ev, mem, out, sent, count>>

\* Seq::input, Input::new
NewInput(i) ==
  /\ i \notin inputs /\ ~hasInput
  /\ hasInput' = TRUE /\ inputs' = inputs \cup {i}
  /\ UNCHANGED <<ev, mem, out, sent, count>>

\* Drop for Input
DropInput(i) ==
  /\ i \in inputs /\ ~Borrowed(i)
  /\ hasInput' = FALSE /\ inputs' = inputs \ {i}
  /\ UNCHANGED <<ev, mem, out, sent, count>>

\* mem::forget
LeakInput(i) ==
  /\ i \in inputs /\ ~Borrowed(i)
  /\ inputs' = inputs \ {i}
  /\ UNCHANGED <<hasInput, ev, mem, out, sent, count>>

\* event_input and Event::extract: the kernel delivers an event, and a type
\* that the library does not know is an error that loses it
EventInput(i, s) ==
  /\ i \in inputs /\ ~Borrowed(i) /\ s \in Free
  /\ \E b \in Bytes :
       \/ /\ ev' = [ev EXCEPT ![s] = Event("Note", No, No, b, i)]
          /\ mem' = [mem EXCEPT !["input"] = No]
       \/ /\ ev' = [ev EXCEPT ![s] = Event("Sysex", "input", "input", No, i)]
          /\ mem' = [mem EXCEPT !["input"] = b]
       \/ /\ mem' = [mem EXCEPT !["input"] = No]
          /\ UNCHANGED ev
  /\ UNCHANGED <<hasInput, inputs, out, sent, count>>

-----------------------------------------------------------------------------
(* Output.  A message is what alsa-lib read, what the event said when it   *)
(* was output, the place of the call among all, and whether it was direct. *)

\* mutant: the pointer is left as it is
EnsureBuf_Nothing(e) == e

\* ensure_buf: written over the C event's data, whatever that is
EnsureBuf(e) ==
  IF HasExt(e.type) THEN [e EXCEPT !.ptr = e.ext, !.data = Garbage] ELSE e

\* bound; the event still is what Event::new or event_input made of it
MayOutput(s) == s \in Live /\ count < MaxSent /\ ev[s].type = ev[s].ctype

Message(e, direct) ==
  [said |-> Said(e), c |-> InC(EnsureBuf(e)), nr |-> count, direct |-> direct]

\* mutant: what is buffered goes the direct way
EventOutput_Unbuffered(s) ==
  /\ MayOutput(s)
  /\ ev' = [ev EXCEPT ![s] = EnsureBuf(@)]
  /\ IF Len(out) < OutRoom
     THEN out' = Append(out, Message(ev[s], FALSE)) /\ UNCHANGED sent
     ELSE sent' = Append(sent, Message(ev[s], FALSE)) /\ UNCHANGED out
  /\ count' = count + 1
  /\ UNCHANGED <<hasInput, inputs, mem>>

\* event_output: alsa-lib sends what it holds when there is no room.
\* event_output_buffer is the same but that it is an error then.
EventOutput(s) ==
  /\ MayOutput(s)
  /\ ev' = [ev EXCEPT ![s] = EnsureBuf(@)]
  /\ IF Len(out) < OutRoom
     THEN out' = Append(out, Message(ev[s], FALSE)) /\ UNCHANGED sent
     ELSE out' = <<Message(ev[s], FALSE)>> /\ sent' = sent \o out
  /\ count' = count + 1
  /\ UNCHANGED <<hasInput, inputs, mem>>

\* event_output_direct
EventOutputDirect(s) ==
  /\ MayOutput(s)
  /\ ev' = [ev EXCEPT ![s] = EnsureBuf(@)]
  /\ sent' = Append(sent, Message(ev[s], TRUE))
  /\ count' = count + 1
  /\ UNCHANGED <<hasInput, inputs, mem, out>>

\* drain_output: the kernel's pool may have room for some of them only
DrainOutput ==
  /\ \E k \in 1 .. Len(out) :
       /\ sent' = sent \o SubSeq(out, 1, k)
       /\ out' = SubSeq(out, k + 1, Len(out))
  /\ UNCHANGED <<hasInput, inputs, ev, mem, count>>

\* drop_output
DropOutput == /\ out # <<>> /\ out' = <<>>
              /\ UNCHANGED <<hasInput, inputs, ev, mem, sent, count>>

\* control_queue with an event: alsa-lib makes the C event a control event
\* and outputs it; the Event's own type and bytes stay
ControlQueue(s) ==
  /\ s \in Live /\ count < MaxSent /\ Len(out) < OutRoom
  /\ ev' = [ev EXCEPT ![s] = [@ EXCEPT !.ctype = "Tempo", !.data = Value, !.ptr = No]]
  /\ out' = Append(out, [said |-> <<"Tempo", Value>>, c |-> <<"Tempo", Value>>,
                         nr |-> count, direct |-> FALSE])
  /\ count' = count + 1
  /\ UNCHANGED <<hasInput, inputs, mem, sent>>

Next ==
  \/ \E s \in Slots : \/ New(s) \/ IntoOwned(s) \/ DropEvent(s)
                      \/ EventOutput(s) \/ EventOutputDirect(s) \/ ControlQueue(s)
  \/ \E s, t \in Slots : CloneEvent(s, t)
  \/ \E i \in Inputs : NewInput(i) \/ DropInput(i) \/ LeakInput(i)
  \/ \E i \in Inputs, s \in Slots : EventInput(i, s)
  \/ DrainOutput \/ DropOutput

Spec == Init /\ [][Next]_vars

-----------------------------------------------------------------------------
(* Properties                                                              *)

\* Whatever happened to an event and to the values it was cloned or taken
\* from, alsa-lib sends what get_type, get_data and get_ext say of it.  This
\* is for events that were not passed to control_queue, see MayOutput.
SentAsSaid == \A m \in ToSet(out \o sent) : m.c = m.said

\* Doc of Input, the input buffer "must not" be modified "while an `Event` is
\* alive that has been obtained from a call to `event_input`": an event's
\* bytes are never overwritten or freed while it lives.
BytesStay ==
  [][\A s \in Live : ev'[s] # No /\ ev[s].ext # No =>
       mem'[ev'[s].ext] = mem[ev[s].ext] /\ mem'[ev'[s].ext] # No]_vars

\* The messages that were not direct are in the order of their numbers.
Ordered(q) ==
  \A i, j \in DOMAIN q :
    i < j /\ ~q[i].direct /\ ~q[j].direct => q[i].nr < q[j].nr
\* Events output through the buffer reach the kernel in the order of the
\* calls, and what is left of a drain comes after what it sent.
OrderKept == Ordered(sent \o out)
=============================================================================
