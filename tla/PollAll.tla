------------------------------- MODULE PollAll -------------------------------
(***************************************************************************)
(* poll::poll_all (src/src/poll.rs): collects the descriptors of several   *)
(* objects in one array, polls them and asks each object what happened on  *)
(* its part of the array.                                                  *)
(*                                                                         *)
(* The objects are external: alsa-lib says how many descriptors there are, *)
(* then fills as many of them as there is room for; their number may       *)
(* change in between, and any call may fail.                               *)
(***************************************************************************)
EXTENDS Naturals, Sequences

CONSTANTS
  Objects,  \* bound: how many objects
  MaxFds    \* bound: descriptors of an object

ASSUME PollAssumption == Objects \in Nat /\ MaxFds \in Nat

VARIABLES
  has,      \* how many descriptors each object has
  ready,    \* the descriptors something happened on
  pc,       \* where poll_all is
  room,     \* what count said of the object whose turn it is
  pollfds,  \* the array: the descriptor of each entry, or Blank
  indices,  \* each object's part of the array, begin and end
  revents,  \* the entries poll has marked
  res       \* the objects it returns

objects == <<has, ready>>
pollVars == <<objects, pc, room, pollfds, indices, revents, res>>

Object == 1 .. Objects
Fd == Object \X (1 .. MaxFds)  \* the object and which of its descriptors
Blank == <<0, 0>>              \* descriptor 0 of the process, no events

PollInit ==
  /\ has \in [Object -> 0 .. MaxFds] /\ ready = {}
  /\ pc = "count" /\ room = 0 /\ pollfds = <<>> /\ indices = <<>>
  /\ revents = {} /\ res = {}

\* `?` on an error: what was found out so far is dropped
Fail == /\ pc' = "failed"
        /\ UNCHANGED <<objects, room, pollfds, indices, revents, res>>

turn == Len(indices) + 1

\* get: an array of as many blank entries as count says
Count ==
  /\ pc = "count" /\ turn <= Objects
  /\ pc' = "fill" /\ room' = has[turn]
  /\ UNCHANGED <<objects, pollfds, indices, revents, res>>

Filled == [k \in 1 .. room |-> IF k <= has[turn] THEN <<turn, k>> ELSE Blank]

\* mutant: the part of the array that follows is the object's
Part_After == <<Len(pollfds) + room, Len(pollfds) + 2 * room>>

Part == <<Len(pollfds), Len(pollfds) + room>>

\* mutant: what fill says is not looked at
Fill_AnyNumber ==
  /\ pc = "fill"
  /\ pc' = "count" /\ pollfds' = pollfds \o Filled /\ indices' = Append(indices, Part)
  /\ UNCHANGED <<objects, room, revents, res>>

\* get: an error unless fill filled them all
Fill ==
  \/ /\ pc = "fill" /\ has[turn] >= room
     /\ pc' = "count" /\ pollfds' = pollfds \o Filled /\ indices' = Append(indices, Part)
     /\ UNCHANGED <<objects, room, revents, res>>
  \/ pc = "fill" /\ Fail

\* the C library's poll returns, after its time or for an event, or fails
Poll ==
  \/ /\ pc = "count" /\ turn > Objects
     /\ pc' = "revents" /\ revents' = {k \in DOMAIN pollfds : pollfds[k] \in ready}
     /\ UNCHANGED <<objects, room, pollfds, indices, res>>
  \/ pc = "count" /\ turn > Objects /\ Fail

Marked(o) == \E k \in revents : indices[o][1] < k /\ k <= indices[o][2]

\* each object's revents, with its part of the array
Revents ==
  \/ /\ pc = "revents"
     /\ pc' = "done" /\ res' = {o \in Object : Marked(o)}
     /\ UNCHANGED <<objects, room, pollfds, indices, revents>>
  \/ pc = "revents" /\ Fail

Running == pc \notin {"done", "failed"}

\* an object opens or closes a descriptor
Change(o) ==
  /\ Running
  /\ \E n \in 0 .. MaxFds : has' = [has EXCEPT ![o] = n]
  /\ UNCHANGED <<ready, pc, room, pollfds, indices, revents, res>>

Happen(fd) ==
  /\ Running /\ ready' = ready \cup {fd}
  /\ UNCHANGED <<has, pc, room, pollfds, indices, revents, res>>

PollNext == \/ Count \/ Fill \/ Poll \/ Revents
            \/ \E o \in Object : Change(o)
            \/ \E fd \in Fd : Happen(fd)

PollSpec == PollInit /\ [][PollNext]_pollVars

-----------------------------------------------------------------------------
(* Properties                                                              *)

\* Doc of poll_all, it "returns the poll descriptors which have non-zero
\* revents": an object is returned when poll marked a descriptor of its own
\* and not for another's, however many descriptors each of them has.
OwnEvents ==
  pc = "done" => \A o \in Object :
    o \in res <=> (\E k \in revents : pollfds[k][1] = o)

\* Every entry that is polled was filled by its object, never left blank,
\* though the number of descriptors changes between count and fill.
NoBlankPolled == pc \in {"revents", "done"} => \A k \in DOMAIN pollfds : pollfds[k] # Blank
=============================================================================
