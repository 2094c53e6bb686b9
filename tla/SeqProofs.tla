------------------------------ MODULE SeqProofs ------------------------------
(***************************************************************************)
(* The sequencer's events, for any number of events, inputs and messages:  *)
(* one Input at a time keeps the input buffer from changing under an       *)
(* event, ensure_buf is enough for alsa-lib to read what the event says,   *)
(* the buffer keeps the order of the calls, and a time stamp tells what    *)
(* was scheduled.                                                          *)
(***************************************************************************)
EXTENDS SeqIo, SeqStamp, SequenceTheorems, TLAPS

Data    == Bytes \cup {No, Garbage, Value}
Buffers == Slots \cup {"input"}
AnEvent == [type : Types, ctype : Types, ext : Buffers \cup {No},
            ptr : Buffers \cup {No}, data : Data, from : Inputs \cup {No}]
Contents == Types \X Data
Messages == [said : Contents, c : Contents, nr : Nat, direct : BOOLEAN]
\* the messages alsa-lib reads as the event has them
Faithful == {m \in Messages : m.c = m.said}

TypeOK == /\ hasInput \in BOOLEAN /\ inputs \in SUBSET Inputs
          /\ ev \in [Slots -> AnEvent \cup {No}]
          /\ mem \in [Buffers -> Bytes \cup {No}]
          /\ count \in Nat

\* There is one Input, and the flag is set while it exists.
OneInput == /\ inputs # {} => hasInput
            /\ \A i, j \in inputs : i = j

\* An event with bytes has them in its own memory, or in the input buffer
\* that its Input keeps for it, and they have not been freed.
BytesOwned ==
  \A s \in Live :
    /\ HasExt(ev[s].type) <=> ev[s].ext # No
    /\ ev[s].ext \in {No, s, "input"}
    /\ ev[s].ext = "input" => ev[s].from \in inputs
    /\ ev[s].ext # No => mem[ev[s].ext] # No

AllFaithful == out \in Seq(Faithful) /\ sent \in Seq(Faithful)

Inv == TypeOK /\ OneInput /\ BytesOwned /\ AllFaithful

\* What BytesStay says of a step.
Stay == \A s \in Live : ev'[s] # No /\ ev[s].ext # No =>
          mem'[ev'[s].ext] = mem[ev[s].ext] /\ mem'[ev'[s].ext] # No

\* The events and buffers of a step, for the parts it disturbs.
Events == TypeOK /\ OneInput /\ BytesOwned

\* No event, no Input and no message exist when the client is opened.
LEMMA InitInv == Init => Inv
<1> SUFFICES ASSUME Init PROVE Inv
  OBVIOUS
<1>1. TypeOK /\ OneInput /\ BytesOwned
  BY DEF Init, TypeOK, OneInput, BytesOwned, Live, Free, Buffers
<1>2. AllFaithful
  BY EmptySeq DEF Init, AllFaithful
<1> QED BY <1>1, <1>2 DEF Inv

-----------------------------------------------------------------------------
(* Steps on events and inputs, which output nothing                        *)

\* A new event's bytes are its own.
LEMMA NewStep ==
  ASSUME Events, NEW s \in Slots, New(s)
  PROVE  Events' /\ Stay
<1> USE SeqIoAssumption DEF Events, Buffers
<1>1. PICK b \in Bytes :
        \/ ev' = [ev EXCEPT ![s] = Event("Note", No, No, b, No)] /\ mem' = mem
        \/ /\ ev' = [ev EXCEPT ![s] = Event("Sysex", s, No, No, No)]
           /\ mem' = [mem EXCEPT ![s] = b]
  BY DEF New
<1>2. TypeOK'
  BY <1>1 DEF New, TypeOK, Event, AnEvent, Types, Data
<1>3. OneInput'
  BY DEF New, OneInput
<1>4. ASSUME NEW t \in Live', t # s
      PROVE  t \in Live /\ ev'[t] = ev[t] /\ (ev[t].ext # No => mem'[ev[t].ext] = mem[ev[t].ext])
  BY <1>1, <1>4 DEF Live, Free, TypeOK, BytesOwned
<1>5. s \notin Live
  BY DEF New, Live, Free
<1>6. BytesOwned'
  <2>1. ev'[s].ext # No => mem'[ev'[s].ext] # No
    BY <1>1 DEF TypeOK, Event
  <2>2. /\ HasExt(ev'[s].type) <=> ev'[s].ext # No
        /\ ev'[s].ext \in {No, s}
    BY <1>1 DEF TypeOK, Event, HasExt
  <2> QED BY <1>4, <2>1, <2>2 DEF New, BytesOwned
<1>7. Stay
  BY <1>1, <1>4, <1>5 DEF Stay, BytesOwned, Live, Free, TypeOK
<1> QED BY <1>2, <1>3, <1>6, <1>7

\* What an event owned is freed with it; nobody else's bytes were there.
LEMMA DropEventStep ==
  ASSUME Events, NEW s \in Slots, DropEvent(s)
  PROVE  Events' /\ Stay
<1> USE SeqIoAssumption DEF Events, Buffers, DropEvent
<1>1. TypeOK'
  BY DEF TypeOK
<1>2. OneInput'
  BY DEF OneInput
<1>3. ASSUME NEW t \in Live, ev'[t] # No
      PROVE  t # s /\ ev'[t] = ev[t] /\ (ev[t].ext # No => mem'[ev[t].ext] = mem[ev[t].ext])
  BY <1>3 DEF TypeOK, BytesOwned, Live, Free
<1>4. Live' \subseteq Live
  BY DEF Live, Free, TypeOK
<1> QED BY <1>1, <1>2, <1>3, <1>4 DEF BytesOwned, Stay, Live, Free

\* A clone owns a copy, or borrows from the same Input.
LEMMA CloneEventStep ==
  ASSUME Events, NEW s \in Slots, NEW t \in Slots, CloneEvent(s, t)
  PROVE  Events' /\ Stay
<1> USE SeqIoAssumption DEF Events, Buffers
<1>1. /\ s \in Live /\ t \notin Live /\ s # t
      /\ ev[s] \in AnEvent /\ ev[s] # No /\ ev[t] = No
  BY DEF CloneEvent, Live, Free, TypeOK
<1>2. CASE ev[s].ext = s
  <2>1. /\ ev' = [ev EXCEPT ![t] = [ev[s] EXCEPT !.ext = t]]
        /\ mem' = [mem EXCEPT ![t] = mem[s]]
        /\ UNCHANGED <<hasInput, inputs, count>>
    BY <1>2 DEF CloneEvent
  <2>2. TypeOK' /\ OneInput'
    BY <1>1, <2>1 DEF TypeOK, OneInput, AnEvent
  <2>3. mem[s] # No /\ HasExt(ev[s].type)
    BY <1>1, <1>2 DEF BytesOwned
  <2>4. ASSUME NEW u \in Slots, u # t
        PROVE  ev'[u] = ev[u] /\ (u \in Live /\ ev[u].ext # No => mem'[ev[u].ext] = mem[ev[u].ext])
    BY <2>1, <2>4 DEF TypeOK, BytesOwned
  <2>5. ev'[t].ext = t /\ mem'[t] # No /\ ev'[t].type = ev[s].type
    BY <1>1, <2>1, <2>3 DEF TypeOK, AnEvent
  <2>6. BytesOwned'
    BY <2>1, <2>3, <2>4, <2>5 DEF BytesOwned, Live, Free
  <2>7. Stay
    BY <1>1, <2>4 DEF Stay, BytesOwned, Live, Free
  <2> QED BY <2>2, <2>6, <2>7
<1>3. CASE ev[s].ext # s
  <2>1. ev' = [ev EXCEPT ![t] = ev[s]] /\ UNCHANGED <<mem, hasInput, inputs, count>>
    BY <1>3 DEF CloneEvent
  <2>2. TypeOK' /\ OneInput'
    BY <1>1, <2>1 DEF TypeOK, OneInput
  <2>3. ev[s].ext \in {No, "input"}
    BY <1>1, <1>3 DEF BytesOwned
  <2>4. BytesOwned'
    BY <1>1, <2>1, <2>3 DEF BytesOwned, Live, Free, TypeOK
  <2>5. Stay
    BY <1>1, <2>1 DEF Stay, BytesOwned, Live, Free, TypeOK
  <2> QED BY <2>2, <2>4, <2>5
<1> QED BY <1>2, <1>3

\* An event that is taken over has a copy of what it borrowed.
LEMMA IntoOwnedStep ==
  ASSUME Events, NEW s \in Slots, IntoOwned(s)
  PROVE  Events' /\ Stay
<1> USE SeqIoAssumption DEF Events, Buffers
<1>1. s \in Live /\ ev[s] \in AnEvent /\ ev[s] # No
  BY DEF IntoOwned, Live, Free, TypeOK
<1>2. CASE ev[s].ext = No
  <2>1. /\ ev' = [ev EXCEPT ![s].from = No]
        /\ UNCHANGED <<mem, hasInput, inputs, count>>
    BY <1>2 DEF IntoOwned
  <2>2. TypeOK' /\ OneInput'
    BY <1>1, <2>1 DEF TypeOK, OneInput, AnEvent
  <2>3. ASSUME NEW u \in Slots, u # s PROVE ev'[u] = ev[u]
    BY <2>1, <2>3 DEF TypeOK
  <2>4. ev'[s].ext = No /\ ev'[s].type = ev[s].type
    BY <1>1, <1>2, <2>1 DEF TypeOK, AnEvent
  <2> QED BY <1>1, <1>2, <2>1, <2>2, <2>3, <2>4 DEF BytesOwned, Stay, Live, Free
<1>3. CASE ev[s].ext # No
  <2>1. /\ ev' = [ev EXCEPT ![s] = [ev[s] EXCEPT !.from = No, !.ext = s]]
        /\ mem' = [mem EXCEPT ![s] = mem[ev[s].ext]]
        /\ UNCHANGED <<hasInput, inputs, count>>
    BY <1>3 DEF IntoOwned
  <2>2. mem[ev[s].ext] \in Bytes /\ ev[s].ext \in Buffers /\ HasExt(ev[s].type)
    BY <1>1, <1>3 DEF BytesOwned, TypeOK, AnEvent
  <2>3. TypeOK' /\ OneInput'
    BY <1>1, <2>1, <2>2 DEF TypeOK, OneInput, AnEvent
  <2>4. ASSUME NEW u \in Slots, u # s
        PROVE  ev'[u] = ev[u] /\ (u \in Live /\ ev[u].ext # No => mem'[ev[u].ext] = mem[ev[u].ext])
    BY <2>1, <2>4 DEF TypeOK, BytesOwned
  <2>5. ev'[s].ext = s /\ ev'[s].type = ev[s].type
    BY <1>1, <2>1 DEF TypeOK, AnEvent
  <2>6. mem'[s] = mem[ev[s].ext] /\ mem'[s] # No
    BY <2>1, <2>2 DEF TypeOK
  <2>7. BytesOwned'
    BY <2>1, <2>2, <2>4, <2>5, <2>6 DEF BytesOwned, Live, Free
  <2>8. Stay
    BY <2>4, <2>5, <2>6 DEF BytesOwned, Stay, Live, Free
  <2> QED BY <2>3, <2>7, <2>8
<1> QED BY <1>2, <1>3

\* Inputs come and go; one that lends the input buffer to an event stays.
LEMMA InputStep ==
  ASSUME Events, NEW i \in Inputs, NewInput(i) \/ DropInput(i) \/ LeakInput(i)
  PROVE  Events' /\ Stay
<1>1. UNCHANGED <<ev, mem, count>>
  BY DEF NewInput, DropInput, LeakInput
<1>2. TypeOK' /\ OneInput'
  BY DEF NewInput, DropInput, LeakInput, Events, TypeOK, OneInput
<1>3. \A s \in Live : ev[s].from \in inputs => ev[s].from \in inputs'
  BY DEF NewInput, DropInput, LeakInput, Borrowed
<1>4. BytesOwned'
  BY <1>1, <1>3 DEF Events, BytesOwned, Live, Free
<1>5. Stay
  BY <1>1 DEF Events, BytesOwned, Stay, Live, Free
<1> QED BY <1>2, <1>4, <1>5 DEF Events

\* No other event is in the input buffer when it is overwritten: its Input
\* would be this one, which lends to nobody.
LEMMA EventInputStep ==
  ASSUME Events, NEW i \in Inputs, NEW s \in Slots, EventInput(i, s)
  PROVE  Events' /\ Stay
<1> USE SeqIoAssumption DEF Events, Buffers
<1>1. \A t \in Live : ev[t].ext # "input"
  BY DEF EventInput, OneInput, BytesOwned, Borrowed
<1>2. s \notin Live /\ i \in inputs /\ UNCHANGED <<hasInput, inputs, count>>
  BY DEF EventInput, Live
<1>3. PICK b \in Bytes :
        \/ /\ ev' = [ev EXCEPT ![s] = Event("Note", No, No, b, i)]
           /\ mem' = [mem EXCEPT !["input"] = No]
        \/ /\ ev' = [ev EXCEPT ![s] = Event("Sysex", "input", "input", No, i)]
           /\ mem' = [mem EXCEPT !["input"] = b]
        \/ mem' = [mem EXCEPT !["input"] = No] /\ ev' = ev
  BY DEF EventInput
<1>4. TypeOK' /\ OneInput'
  BY <1>2, <1>3 DEF TypeOK, OneInput, Event, AnEvent, Types, Data
<1>5. ASSUME NEW t \in Slots, t # s
      PROVE  ev'[t] = ev[t] /\ (t \in Live /\ ev[t].ext # No => mem'[ev[t].ext] = mem[ev[t].ext])
  BY <1>1, <1>3, <1>5 DEF TypeOK, BytesOwned
<1>6. s \in Live' =>
        /\ HasExt(ev'[s].type) <=> ev'[s].ext # No
        /\ ev'[s].ext \in {No, s, "input"}
        /\ ev'[s].ext = "input" => ev'[s].from \in inputs'
        /\ ev'[s].ext # No => mem'[ev'[s].ext] # No
  BY <1>2, <1>3 DEF TypeOK, Event, HasExt, Live, Free
<1>7. BytesOwned'
  BY <1>2, <1>5, <1>6 DEF BytesOwned, Live, Free
<1>8. Stay
  BY <1>2, <1>5 DEF Stay, BytesOwned, Live, Free
<1> QED BY <1>4, <1>7, <1>8

-----------------------------------------------------------------------------
(* Output                                                                  *)

\* ensure_buf points the C event at the bytes that the event has.
LEMMA MessageFaithful ==
  ASSUME Events, NEW s \in Slots, NEW direct \in BOOLEAN, MayOutput(s)
  PROVE  Message(ev[s], direct) \in Faithful
<1> USE SeqIoAssumption DEF Events, Buffers
<1>1. /\ ev[s] \in AnEvent /\ ev[s].type = ev[s].ctype
      /\ HasExt(ev[s].type) <=> ev[s].ext # No
  BY DEF MayOutput, TypeOK, BytesOwned, Live, Free
<1>2. ev[s].ext # No => mem[ev[s].ext] \in Bytes
  BY DEF MayOutput, TypeOK, BytesOwned, Live, Free, AnEvent
<1>3. CASE HasExt(ev[s].type)
  <2>1. EnsureBuf(ev[s]).ctype = ev[s].ctype /\ EnsureBuf(ev[s]).ptr = ev[s].ext
    BY <1>1, <1>3 DEF EnsureBuf, AnEvent
  <2>2. InC(EnsureBuf(ev[s])) = <<ev[s].type, mem[ev[s].ext]>>
    BY <1>1, <1>3, <2>1 DEF InC
  <2>3. Said(ev[s]) = <<ev[s].type, mem[ev[s].ext]>>
    BY <1>3 DEF Said
  <2> QED BY <1>1, <1>2, <1>3, <2>2, <2>3
          DEF Message, Faithful, Messages, Contents, Data, AnEvent, TypeOK
<1>4. CASE ~HasExt(ev[s].type)
  <2>1. Said(ev[s]) = <<ev[s].type, ev[s].data>>
        /\ InC(EnsureBuf(ev[s])) = <<ev[s].type, ev[s].data>>
    BY <1>1, <1>4 DEF EnsureBuf, InC, Said
  <2> QED BY <1>1, <2>1
          DEF Message, Faithful, Messages, Contents, Data, AnEvent, TypeOK
<1> QED BY <1>3, <1>4

\* An output changes what the C event holds and nothing the event says.
LEMMA OutputStep ==
  ASSUME Events, NEW s \in Slots, s \in Live,
         ev' = [ev EXCEPT ![s] = EnsureBuf(@)], count' = count + 1,
         UNCHANGED <<hasInput, inputs, mem>>
  PROVE  Events' /\ Stay
<1> USE SeqIoAssumption DEF Events, Buffers
<1>1. ev[s] \in AnEvent
  BY DEF TypeOK, Live, Free
<1>2. /\ EnsureBuf(ev[s]) \in AnEvent
      /\ EnsureBuf(ev[s]).ext = ev[s].ext /\ EnsureBuf(ev[s]).from = ev[s].from
      /\ EnsureBuf(ev[s]).type = ev[s].type
  BY <1>1 DEF EnsureBuf, AnEvent, Data
<1>3. TypeOK' /\ OneInput'
  BY <1>2 DEF TypeOK, OneInput
<1>4. ASSUME NEW t \in Slots, t # s PROVE ev'[t] = ev[t]
  BY <1>4 DEF TypeOK
<1>5. ev'[s] = EnsureBuf(ev[s])
  BY DEF TypeOK
<1> QED BY <1>2, <1>3, <1>4, <1>5 DEF BytesOwned, Stay, Live, Free

\* control_queue overwrites the C event and leaves the bytes alone.
LEMMA ControlQueueStep ==
  ASSUME Inv, NEW s \in Slots, ControlQueue(s)
  PROVE  Inv' /\ Stay
<1> USE SeqIoAssumption DEF Events, Buffers
<1> DEFINE m == [said |-> <<"Tempo", Value>>, c |-> <<"Tempo", Value>>,
                 nr |-> count, direct |-> FALSE]
<1> DEFINE e == [ev[s] EXCEPT !.ctype = "Tempo", !.data = Value, !.ptr = No]
<1>1. /\ ev[s] \in AnEvent /\ s \in Live
      /\ ev' = [ev EXCEPT ![s] = e]
      /\ count' = count + 1 /\ out' = Append(out, m)
      /\ UNCHANGED <<hasInput, inputs, mem, sent>>
  BY DEF ControlQueue, Inv, TypeOK, Live, Free
<1>2. /\ e \in AnEvent
      /\ e.ext = ev[s].ext /\ e.from = ev[s].from /\ e.type = ev[s].type
  BY <1>1 DEF AnEvent, Types, Data
<1> HIDE DEF e
<1>3. TypeOK' /\ OneInput'
  BY <1>1, <1>2 DEF Inv, TypeOK, OneInput
<1>4. ev'[s] = e /\ \A t \in Slots \ {s} : ev'[t] = ev[t]
  BY <1>1 DEF Inv, TypeOK
<1>5. BytesOwned' /\ Stay
  BY <1>1, <1>2, <1>4 DEF Inv, BytesOwned, Stay, Live, Free
<1>6. m \in Faithful
  BY DEF Inv, TypeOK, Faithful, Messages, Contents, Types, Data
<1>7. AllFaithful'
  BY <1>1, <1>6, AppendProperties DEF Inv, AllFaithful
<1> QED BY <1>3, <1>5, <1>7 DEF Inv

\* A sequence of one message.
LEMMA OneElement ==
  ASSUME NEW S, NEW m \in S
  PROVE  <<m>> \in Seq(S)
OBVIOUS

\* The messages of an output stay faithful in the buffer and on their way.
LEMMA EventOutputStep ==
  ASSUME Inv, NEW s \in Slots, EventOutput(s) \/ EventOutputDirect(s)
  PROVE  Inv' /\ Stay
<1>1. /\ Events /\ MayOutput(s) /\ s \in Live
      /\ out \in Seq(Faithful) /\ sent \in Seq(Faithful)
  BY DEF EventOutput, EventOutputDirect, Inv, Events, AllFaithful, MayOutput
<1>2. Events' /\ Stay
  BY <1>1, OutputStep DEF EventOutput, EventOutputDirect
<1>3. CASE EventOutput(s)
  <2>1. Message(ev[s], FALSE) \in Faithful
    BY <1>1, MessageFaithful
  <2>2. ASSUME out' = Append(out, Message(ev[s], FALSE)), sent' = sent
        PROVE  AllFaithful'
    BY <1>1, <2>1, <2>2, AppendProperties DEF AllFaithful
  <2>3. ASSUME out' = <<Message(ev[s], FALSE)>>, sent' = sent \o out
        PROVE  AllFaithful'
    <3>1. sent \o out \in Seq(Faithful)
      BY <1>1, ConcatProperties
    <3>2. <<Message(ev[s], FALSE)>> \in Seq(Faithful)
      BY <2>1, OneElement
    <3> QED BY <2>3, <3>1, <3>2 DEF AllFaithful
  <2>4. AllFaithful'
    BY <1>3, <2>2, <2>3 DEF EventOutput
  <2> QED BY <1>2, <2>4 DEF Inv, Events
<1>4. CASE EventOutputDirect(s)
  <2>1. Message(ev[s], TRUE) \in Faithful
    BY <1>1, MessageFaithful
  <2>2. AllFaithful'
    BY <1>1, <1>4, <2>1, AppendProperties DEF EventOutputDirect, AllFaithful
  <2> QED BY <1>2, <2>2 DEF Inv, Events
<1> QED BY <1>3, <1>4

\* A drain moves messages, the first ones first, or they are dropped.
LEMMA BufferStep ==
  ASSUME Inv, DrainOutput \/ DropOutput
  PROVE  Inv' /\ Stay
<1>1. UNCHANGED <<hasInput, inputs, ev, mem, count>>
  BY DEF DrainOutput, DropOutput
<1>2. (TypeOK /\ OneInput /\ BytesOwned)' /\ Stay
  BY <1>1 DEF Inv, TypeOK, OneInput, BytesOwned, Stay, Live, Free
<1>3. CASE DropOutput
  BY <1>2, <1>3, EmptySeq DEF DropOutput, Inv, AllFaithful
<1>4. CASE DrainOutput
  <2>1. PICK k \in 1 .. Len(out) : /\ sent' = sent \o SubSeq(out, 1, k)
                                   /\ out' = SubSeq(out, k + 1, Len(out))
    BY <1>4 DEF DrainOutput
  <2>2. /\ Len(out) \in Nat /\ out \in Seq(Faithful) /\ sent \in Seq(Faithful)
        /\ \A i \in 1 .. Len(out) : out[i] \in Faithful
    BY ElementOfSeq, LenProperties DEF Inv, AllFaithful
  <2>3. SubSeq(out, 1, k) \in Seq(Faithful)
    BY <2>1, <2>2, SubSeqProperties
  <2>4. SubSeq(out, k + 1, Len(out)) \in Seq(Faithful)
    BY <2>1, <2>2, SubSeqProperties
  <2> QED BY <1>2, <2>1, <2>2, <2>3, <2>4, ConcatProperties DEF Inv, AllFaithful
<1> QED BY <1>3, <1>4

\* Every step keeps the invariant and the bytes of the events.
LEMMA NextInv == Inv /\ [Next]_vars => Inv' /\ [Stay]_vars
<1> SUFFICES ASSUME Inv, [Next]_vars PROVE Inv' /\ (Stay \/ UNCHANGED vars)
  OBVIOUS
<1>1. ASSUME Events' /\ Stay, UNCHANGED <<out, sent>> PROVE Inv' /\ Stay
  BY <1>1 DEF Events, Inv, AllFaithful
<1>2. Events
  BY DEF Inv, Events
<1>3. ASSUME NEW s \in Slots, New(s) \/ IntoOwned(s) \/ DropEvent(s)
      PROVE  Inv' /\ Stay
  BY <1>1, <1>2, <1>3, NewStep, IntoOwnedStep, DropEventStep
     DEF New, IntoOwned, DropEvent
<1>4. ASSUME NEW s \in Slots, NEW t \in Slots, CloneEvent(s, t) PROVE Inv' /\ Stay
  BY <1>1, <1>2, <1>4, CloneEventStep DEF CloneEvent
<1>5. ASSUME NEW i \in Inputs, NewInput(i) \/ DropInput(i) \/ LeakInput(i)
      PROVE  Inv' /\ Stay
  BY <1>1, <1>2, <1>5, InputStep DEF NewInput, DropInput, LeakInput
<1>6. ASSUME NEW i \in Inputs, NEW s \in Slots, EventInput(i, s) PROVE Inv' /\ Stay
  BY <1>1, <1>2, <1>6, EventInputStep DEF EventInput
<1>7. ASSUME NEW s \in Slots,
             EventOutput(s) \/ EventOutputDirect(s) \/ ControlQueue(s)
      PROVE  Inv' /\ Stay
  BY <1>7, EventOutputStep, ControlQueueStep
<1>8. CASE DrainOutput \/ DropOutput
  BY <1>8, BufferStep
<1>9. CASE UNCHANGED vars
  BY <1>9 DEF vars, Inv, TypeOK, OneInput, BytesOwned, AllFaithful, Live, Free
<1> QED BY <1>3, <1>4, <1>5, <1>6, <1>7, <1>8, <1>9 DEF Next

\* alsa-lib reads no stale pointer: it sends what the event says of itself,
\* for any number of events, inputs and bytes.
THEOREM AlwaysSentAsSaid == Spec => []SentAsSaid
<1>1. Inv => SentAsSaid
  <2> SUFFICES ASSUME Inv, NEW m \in ToSet(out \o sent) PROVE m.c = m.said
    BY DEF SentAsSaid
  <2>1. out \o sent \in Seq(Faithful)
    BY ConcatProperties DEF Inv, AllFaithful
  <2>2. m \in Faithful
    BY <2>1, ElementOfSeq, LenProperties DEF ToSet
  <2> QED BY <2>2 DEF Faithful
<1> QED BY InitInv, NextInv, <1>1, PTL DEF Spec

\* No living event's bytes are overwritten or freed.
THEOREM BytesAlwaysStay == Spec => BytesStay
<1>1. [Stay]_vars =>
        [\A s \in Live : ev'[s] # No /\ ev[s].ext # No =>
           mem'[ev'[s].ext] = mem[ev[s].ext] /\ mem'[ev'[s].ext] # No]_vars
  BY DEF Stay
<1> QED BY InitInv, NextInv, <1>1, PTL DEF Spec, BytesStay

-----------------------------------------------------------------------------
(* The order of what is output                                             *)

\* No message has the number of a call to come.
AllBelow(q, n) == \A k \in DOMAIN q : q[k].nr < n

OrderInv == OrderKept /\ AllBelow(sent \o out, count)

\* Brackets do not matter.
LEMMA Brackets ==
  ASSUME NEW S, NEW a \in Seq(S), NEW b \in Seq(S), NEW c \in Seq(S)
  PROVE  (a \o b) \o c = a \o (b \o c)
BY ConcatAssociative

\* The elements of two sequences in a row.
LEMMA Row ==
  ASSUME NEW S, NEW p \in Seq(S), NEW q \in Seq(S)
  PROVE  /\ p \o q \in Seq(S) /\ Len(p) \in Nat /\ Len(q) \in Nat
         /\ DOMAIN (p \o q) = 1 .. Len(p) + Len(q)
         /\ \A k \in 1 .. Len(p) : (p \o q)[k] = p[k]
         /\ \A k \in Len(p) + 1 .. Len(p) + Len(q) : (p \o q)[k] = q[k - Len(p)]
<1>1. Len(p) \in Nat /\ Len(q) \in Nat
  BY LenProperties
<1>2. p \o q \in Seq(S) /\ Len(p \o q) = Len(p) + Len(q)
  BY ConcatProperties
<1>3. DOMAIN (p \o q) = 1 .. Len(p) + Len(q)
  BY <1>2, LenProperties
<1>4. \A k \in 1 .. Len(p) + Len(q) :
        (p \o q)[k] = IF k <= Len(p) THEN p[k] ELSE q[k - Len(p)]
  BY ConcatProperties
<1> QED BY <1>1, <1>2, <1>3, <1>4

\* A message with the number of its call goes behind those before.
LEMMA AppendOrdered ==
  ASSUME NEW q \in Seq(Messages), NEW n \in Nat, Ordered(q), AllBelow(q, n),
         NEW m \in Messages, m.nr = n
  PROVE  Ordered(Append(q, m)) /\ AllBelow(Append(q, m), n + 1)
<1> DEFINE r == Append(q, m)
<1>1. /\ Len(q) \in Nat /\ DOMAIN q = 1 .. Len(q) /\ DOMAIN r = 1 .. Len(q) + 1
      /\ \A k \in 1 .. Len(q) : r[k] = q[k] /\ q[k].nr \in Nat
      /\ r[Len(q) + 1] = m
  <2>1. Len(q) \in Nat /\ DOMAIN q = 1 .. Len(q)
    BY LenProperties
  <2>2. \A k \in 1 .. Len(q) : q[k] \in Messages
    BY ElementOfSeq
  <2>3. \A k \in 1 .. Len(q) : q[k].nr \in Nat
    BY <2>2 DEF Messages
  <2>4. /\ r \in Seq(Messages) /\ Len(r) = Len(q) + 1
        /\ \A k \in 1 .. Len(q) : r[k] = q[k]
        /\ r[Len(q) + 1] = m
    BY AppendProperties
  <2>5. DOMAIN r = 1 .. Len(q) + 1
    BY <2>4, LenProperties
  <2> QED BY <2>1, <2>3, <2>4, <2>5
<1> HIDE DEF r
<1>2. Ordered(r)
  BY <1>1 DEF Ordered, AllBelow
<1>3. AllBelow(r, n + 1)
  BY <1>1 DEF AllBelow
<1> QED BY <1>2, <1>3 DEF r

\* A direct message overtakes those in the buffer and is not one of them.
LEMMA InsertOrdered ==
  ASSUME NEW p \in Seq(Messages), NEW q \in Seq(Messages), NEW n \in Nat,
         Ordered(p \o q), AllBelow(p \o q, n),
         NEW m \in Messages, m.direct, m.nr = n
  PROVE  Ordered(Append(p, m) \o q) /\ AllBelow(Append(p, m) \o q, n + 1)
<1> DEFINE r == p \o q
           t == Append(p, m) \o q
           a == Len(p)
           b == Len(q)
<1>1. /\ a \in Nat /\ b \in Nat /\ DOMAIN r = 1 .. a + b
      /\ \A k \in 1 .. a : r[k] = p[k]
      /\ \A k \in a + 1 .. a + b : r[k] = q[k - a]
  BY Row
<1>2. /\ Append(p, m) \in Seq(Messages) /\ Len(Append(p, m)) = a + 1
      /\ \A k \in 1 .. a : Append(p, m)[k] = p[k]
      /\ Append(p, m)[a + 1] = m
  BY AppendProperties
<1>3. /\ DOMAIN t = 1 .. (a + 1) + b
      /\ \A k \in 1 .. a + 1 : t[k] = Append(p, m)[k]
      /\ \A k \in (a + 1) + 1 .. (a + 1) + b : t[k] = q[k - (a + 1)]
  <2> DEFINE pm == Append(p, m)
  <2>1. pm \in Seq(Messages) /\ Len(pm) = a + 1
    BY <1>2
  <2> HIDE DEF pm
  <2>2. /\ DOMAIN (pm \o q) = 1 .. Len(pm) + Len(q)
        /\ \A k \in 1 .. Len(pm) : (pm \o q)[k] = pm[k]
        /\ \A k \in Len(pm) + 1 .. Len(pm) + Len(q) : (pm \o q)[k] = q[k - Len(pm)]
    BY <2>1, Row
  <2> QED BY <2>1, <2>2 DEF pm
<1> HIDE DEF r, t, a, b
<1>4. \A k \in DOMAIN t :
        \/ k <= a /\ k \in DOMAIN r /\ t[k] = r[k]
        \/ k = a + 1 /\ t[k] = m
        \/ k > a + 1 /\ k - 1 \in DOMAIN r /\ t[k] = r[k - 1]
  BY <1>1, <1>2, <1>3
<1>5. \A k \in DOMAIN r : r[k].nr \in Nat
  <2>1. r \in Seq(Messages)
    BY ConcatProperties DEF r
  <2>2. \A k \in DOMAIN r : r[k] \in Messages
    BY <2>1, ElementOfSeq, LenProperties
  <2> QED BY <2>2 DEF Messages
<1>6. DOMAIN t \subseteq Int /\ DOMAIN r \subseteq Int
  BY <1>1, <1>3
<1>7. Ordered(t)
  <2> SUFFICES ASSUME NEW i \in DOMAIN t, NEW j \in DOMAIN t, i < j,
                      ~t[i].direct, ~t[j].direct
               PROVE  t[i].nr < t[j].nr
    BY DEF Ordered
  <2>1. i # a + 1 /\ j # a + 1
    BY <1>1, <1>2, <1>3
  <2>2. PICK u \in DOMAIN r : t[i] = r[u] /\ u = IF i <= a THEN i ELSE i - 1
    BY <1>1, <1>4, <1>6, <2>1
  <2>3. PICK v \in DOMAIN r : t[j] = r[v] /\ v = IF j <= a THEN j ELSE j - 1
    BY <1>1, <1>4, <1>6, <2>1
  <2>4. u < v
    BY <1>1, <1>6, <2>1, <2>2, <2>3
  <2> QED BY <2>2, <2>3, <2>4 DEF Ordered, r
<1>8. AllBelow(t, n + 1)
  <2>1. \A k \in DOMAIN r : r[k].nr \in Nat /\ r[k].nr < n
    BY <1>5 DEF AllBelow, r
  <2>2. \A k \in DOMAIN r : r[k].nr < n + 1
    BY <2>1
  <2>3. m.nr < n + 1
    OBVIOUS
  <2> QED BY <1>4, <2>2, <2>3 DEF AllBelow
<1> QED BY <1>7, <1>8 DEF t

\* What is left when the buffer is dropped is in order.
LEMMA PrefixOrdered ==
  ASSUME NEW p \in Seq(Messages), NEW q \in Seq(Messages), NEW n \in Nat,
         Ordered(p \o q), AllBelow(p \o q, n)
  PROVE  Ordered(p) /\ AllBelow(p, n)
<1>1. /\ DOMAIN p = 1 .. Len(p) /\ Len(p) \in Nat /\ Len(q) \in Nat
      /\ DOMAIN (p \o q) = 1 .. Len(p) + Len(q)
      /\ \A k \in 1 .. Len(p) : (p \o q)[k] = p[k]
  BY Row, LenProperties
<1>2. \A k \in DOMAIN p : k \in DOMAIN (p \o q) /\ (p \o q)[k] = p[k]
  BY <1>1
<1> QED BY <1>2 DEF Ordered, AllBelow

\* A sequence is its first k elements and the rest.
LEMMA SplitAt ==
  ASSUME NEW S, NEW q \in Seq(S), NEW k \in 1 .. Len(q)
  PROVE  /\ SubSeq(q, 1, k) \in Seq(S) /\ SubSeq(q, k + 1, Len(q)) \in Seq(S)
         /\ SubSeq(q, 1, k) \o SubSeq(q, k + 1, Len(q)) = q
<1> DEFINE h == SubSeq(q, 1, k)
           t == SubSeq(q, k + 1, Len(q))
           l == Len(q)
<1>1. l \in Nat /\ k \in Nat /\ k <= l /\ \A i \in 1 .. l : q[i] \in S
  BY LenProperties, ElementOfSeq
<1>2. /\ h \in Seq(S) /\ Len(h) = k
      /\ \A i \in 1 .. k : h[i] = q[i]
  BY <1>1, SubSeqProperties
<1>3. /\ t \in Seq(S) /\ Len(t) = l - k
      /\ \A i \in 1 .. l - k : t[i] = q[k + i]
  <2>1. k + 1 \in Int /\ l \in Int
    BY <1>1
  <2>2. /\ t \in Seq(S) /\ Len(t) = IF k + 1 <= l THEN l - (k + 1) + 1 ELSE 0
        /\ \A i \in 1 .. l - (k + 1) + 1 : t[i] = q[(k + 1) + i - 1]
    BY <1>1, <2>1, SubSeqProperties
  <2> HIDE DEF t, l
  <2>3. \A i \in 1 .. l - k : (k + 1) + i - 1 = k + i
    BY <1>1
  <2> QED BY <1>1, <2>2, <2>3
<1> HIDE DEF h, t
<1>4. h \o t = q
  <2>1. /\ h \o t \in Seq(S) /\ Len(h \o t) = l
        /\ \A i \in 1 .. l : (h \o t)[i] = IF i <= k THEN h[i] ELSE t[i - k]
    <3>1. Len(h) + Len(t) = l
      BY <1>1, <1>2, <1>3
    <3> QED BY <1>2, <1>3, <3>1, ConcatProperties
  <2>2. ASSUME NEW i \in 1 .. l PROVE (h \o t)[i] = q[i]
    <3>1. CASE i <= k
      BY <1>1, <1>2, <2>1, <3>1
    <3>2. CASE ~(i <= k)
      <4>1. i - k \in 1 .. l - k /\ k + (i - k) = i
        BY <1>1, <3>2
      <4> QED BY <1>3, <2>1, <3>2, <4>1
    <3> QED BY <3>1, <3>2
  <2> QED BY <1>1, <2>1, <2>2, SeqEqual
<1> QED BY <1>2, <1>3, <1>4 DEF h, t

\* Every step keeps the order.
LEMMA NextOrder == Inv /\ OrderInv /\ [Next]_vars => OrderInv'
<1> SUFFICES ASSUME Inv, OrderInv, [Next]_vars PROVE OrderInv'
  OBVIOUS
<1> DEFINE all == sent \o out
<1>1. /\ out \in Seq(Messages) /\ sent \in Seq(Messages) /\ count \in Nat
      /\ all \in Seq(Messages) /\ Ordered(all) /\ AllBelow(all, count)
  <2>1. Seq(Faithful) \subseteq Seq(Messages)
    BY SeqMonotonic DEF Faithful
  <2> QED BY <2>1, ConcatProperties
          DEF Inv, TypeOK, AllFaithful, OrderInv, OrderKept
<1>2. ASSUME UNCHANGED <<out, sent, count>> PROVE OrderInv'
  BY <1>2 DEF OrderInv, OrderKept
<1>3. ASSUME NEW m \in Messages, m.nr = count, count' = count + 1,
             (sent \o out)' = Append(all, m)
      PROVE  OrderInv'
  <2>1. Ordered(Append(all, m)) /\ AllBelow(Append(all, m), count + 1)
    BY <1>1, <1>3, AppendOrdered
  <2> QED BY <1>3, <2>1 DEF OrderInv, OrderKept
<1>4. ASSUME NEW m \in Messages, m.nr = count, count' = count + 1,
             out' = Append(out, m), sent' = sent
      PROVE  OrderInv'
  <2>1. sent \o Append(out, m) = Append(all, m)
    <3>1. Append(out, m) = out \o <<m>> /\ Append(all, m) = all \o <<m>>
      BY <1>1, AppendIsConcat
    <3>2. <<m>> \in Seq(Messages)
      BY OneElement
    <3>3. (sent \o out) \o <<m>> = sent \o (out \o <<m>>)
      BY <1>1, <3>2, Brackets
    <3> QED BY <3>1, <3>3
  <2> QED BY <1>3, <1>4, <2>1
<1>5. ASSUME NEW s \in Slots, NEW direct \in BOOLEAN, MayOutput(s)
      PROVE  /\ Message(ev[s], direct) \in Messages
             /\ Message(ev[s], direct).nr = count
             /\ Message(ev[s], direct).direct = direct
  <2>1. Message(ev[s], direct) \in Faithful
    BY <1>5, MessageFaithful DEF Inv, Events
  <2> QED BY <2>1 DEF Faithful, Message
<1>6. ASSUME NEW s \in Slots, EventOutput(s) PROVE OrderInv'
  <2> DEFINE m == Message(ev[s], FALSE)
  <2>1. m \in Messages /\ m.nr = count /\ count' = count + 1
    BY <1>5, <1>6 DEF EventOutput
  <2>2. \/ out' = Append(out, m) /\ sent' = sent
        \/ out' = <<m>> /\ sent' = sent \o out
    BY <1>6 DEF EventOutput
  <2> HIDE DEF m
  <2>3. all \o <<m>> = Append(all, m)
    BY <1>1, <2>1, AppendIsConcat
  <2> QED BY <1>3, <1>4, <2>1, <2>2, <2>3
<1>7. ASSUME NEW s \in Slots, EventOutputDirect(s) PROVE OrderInv'
  <2> DEFINE m == Message(ev[s], TRUE)
  <2>1. m \in Messages /\ m.nr = count /\ m.direct
    BY <1>5, <1>7 DEF EventOutputDirect
  <2>2. count' = count + 1 /\ sent' = Append(sent, m) /\ out' = out
    BY <1>7 DEF EventOutputDirect
  <2> HIDE DEF m
  <2>3. Ordered(Append(sent, m) \o out) /\ AllBelow(Append(sent, m) \o out, count + 1)
    BY <1>1, <2>1, InsertOrdered
  <2> QED BY <2>2, <2>3 DEF OrderInv, OrderKept
<1>8. ASSUME NEW s \in Slots, ControlQueue(s) PROVE OrderInv'
  <2> DEFINE m == [said |-> <<"Tempo", Value>>, c |-> <<"Tempo", Value>>,
                   nr |-> count, direct |-> FALSE]
  <2>1. m \in Messages /\ m.nr = count
    BY <1>1 DEF Messages, Contents, Types, Data
  <2>2. count' = count + 1 /\ out' = Append(out, m) /\ sent' = sent
    BY <1>8 DEF ControlQueue
  <2> HIDE DEF m
  <2> QED BY <1>4, <2>1, <2>2
<1>9. CASE DrainOutput
  <2>1. \E h \in Seq(Messages), t \in Seq(Messages) :
          sent' = sent \o h /\ out' = t /\ h \o t = out
    <3>1. PICK k \in 1 .. Len(out) : /\ sent' = sent \o SubSeq(out, 1, k)
                                     /\ out' = SubSeq(out, k + 1, Len(out))
      BY <1>9 DEF DrainOutput
    <3> DEFINE h == SubSeq(out, 1, k)
               t == SubSeq(out, k + 1, Len(out))
    <3>2. h \in Seq(Messages) /\ t \in Seq(Messages) /\ h \o t = out
      BY <1>1, SplitAt
    <3>3. sent' = sent \o h /\ out' = t
      BY <3>1
    <3> HIDE DEF h, t
    <3> QED BY <3>2, <3>3
  <2>2. PICK h \in Seq(Messages), t \in Seq(Messages) :
          sent' = sent \o h /\ out' = t /\ h \o t = out
    BY <2>1
  <2>3. sent \in Seq(Messages)
    BY <1>1
  <2>4. (sent \o h) \o t = sent \o (h \o t)
    BY <2>3, Brackets
  <2>5. sent' \o out' = all /\ count' = count
    BY <1>9, <2>2, <2>4 DEF DrainOutput
  <2> QED BY <1>1, <2>5 DEF OrderInv, OrderKept
<1>10. CASE DropOutput
  <2>1. out' = <<>> /\ sent' = sent /\ count' = count
    BY <1>10 DEF DropOutput
  <2>2. sent \o <<>> = sent
    BY <1>1, ConcatEmptySeq
  <2>3. Ordered(sent) /\ AllBelow(sent, count)
    BY <1>1, PrefixOrdered
  <2> QED BY <2>1, <2>2, <2>3 DEF OrderInv, OrderKept
<1>11. ASSUME NEW s \in Slots, New(s) \/ IntoOwned(s) \/ DropEvent(s) PROVE OrderInv'
  BY <1>2, <1>11 DEF New, IntoOwned, DropEvent
<1>12. ASSUME NEW s \in Slots, NEW t \in Slots, CloneEvent(s, t) PROVE OrderInv'
  BY <1>2, <1>12 DEF CloneEvent
<1>13. ASSUME NEW i \in Inputs, NewInput(i) \/ DropInput(i) \/ LeakInput(i)
       PROVE  OrderInv'
  BY <1>2, <1>13 DEF NewInput, DropInput, LeakInput
<1>14. ASSUME NEW i \in Inputs, NEW s \in Slots, EventInput(i, s) PROVE OrderInv'
  BY <1>2, <1>14 DEF EventInput
<1>15. CASE UNCHANGED vars
  BY <1>2, <1>15 DEF vars
<1> QED BY <1>6, <1>7, <1>8, <1>9, <1>10, <1>11, <1>12, <1>13, <1>14, <1>15 DEF Next

\* What is output through the buffer reaches the kernel in the order of the
\* calls, however full the buffer is and however much of it a drain gets rid of.
THEOREM OrderIsKept == Spec => []OrderKept
<1>1. Init => OrderInv
  <2>1. <<>> \o <<>> = <<>>
    BY EmptySeq, ConcatEmptySeq
  <2> QED BY <2>1 DEF Init, OrderInv, OrderKept, Ordered, AllBelow
<1>2. OrderInv => OrderKept
  BY DEF OrderInv
<1> QED BY InitInv, NextInv, NextOrder, <1>1, <1>2, PTL DEF Spec

-----------------------------------------------------------------------------
(* Time stamps                                                             *)

Lengths == {{}, {"VARIABLE"}, {"VARUSR"}}

\* What the program asked for, with the second it left in a tick's bytes.
StampTypeOK ==
  asked \in [unit : {"tick", "real"}, sec : Times \cup {0}, nsec : Nanos \cup {0},
             rel : BOOLEAN, high : BOOLEAN, length : Lengths]

\* The flags are those asked for, of each kind, and no others.
FlagsAsAsked ==
  flags = asked.length \cup (IF asked.unit = "real" THEN {"REAL"} ELSE {})
                       \cup (IF asked.rel THEN {"REL"} ELSE {})
                       \cup (IF asked.high THEN {"HIGH"} ELSE {})

\* A real time has both its words; a tick's nanoseconds are left over.
WordsAsAsked ==
  asked.unit = "real" => sec = asked.sec /\ nsec = asked.nsec

StampInv == StampTypeOK /\ FlagsAsAsked /\ WordsAsAsked

\* A new event is stamped with the tick zero.
LEMMA InitStampInv == StampInit => StampInv
BY DEF StampInit, StampInv, StampTypeOK, FlagsAsAsked, WordsAsAsked, Lengths

\* Every call sets its own flags and words.
LEMMA NextStampInv == StampInv /\ [StampNext]_stampVars => StampInv'
<1> SUFFICES ASSUME StampInv, [StampNext]_stampVars PROVE StampInv'
  OBVIOUS
<1> USE DEF StampInv, StampTypeOK, FlagsAsAsked, WordsAsAsked, Lengths
<1>1. ASSUME NEW rel \in BOOLEAN, NEW s \in Times, NEW n \in Nanos,
             schedule_real(rel, s, n)
      PROVE  StampInv'
  BY <1>1 DEF schedule_real, Stamp
<1>2. ASSUME NEW rel \in BOOLEAN, NEW t \in Times, schedule_tick(rel, t)
      PROVE  StampInv'
  BY <1>2 DEF schedule_tick, Stamp
<1>3. ASSUME NEW high \in BOOLEAN, set_priority(high) PROVE StampInv'
  BY <1>3 DEF set_priority
<1>4. CASE UNCHANGED stampVars
  BY <1>4 DEF stampVars
<1> QED BY <1>1, <1>2, <1>3, <1>4 DEF StampNext

\* In whatever order an event is scheduled, in either unit, and given a priority,
\* its flags are those asked for last and get_time tells the real time, if it is
\* one.  What get_tick tells is no part of it.
THEOREM FlagsAndTimeAsAsked == StampSpec => []StampAsAsked
<1>1. StampInv => StampAsAsked
  BY DEF StampInv, StampTypeOK, FlagsAsAsked, WordsAsAsked, Lengths, StampAsAsked,
         get_time, get_relative, get_priority
<1> QED BY InitStampInv, NextStampInv, <1>1, PTL DEF StampSpec
=============================================================================
