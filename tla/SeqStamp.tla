------------------------------ MODULE SeqStamp ------------------------------
(***************************************************************************)
(* The time stamp of a sequencer Event (src/src/seq.rs): flags that say    *)
(* whether it is a real time or a tick, relative or absolute, and a union  *)
(* in which the tick lies over the seconds.  The same byte of flags holds  *)
(* the length kind and the priority.                                       *)
(***************************************************************************)
EXTENDS Naturals

CONSTANTS
  Times,  \* seconds and ticks that are scheduled, below 2^32
  Nanos   \* nanoseconds that are scheduled

VARIABLES
  flags,  \* the C event's flags that are set
  sec,    \* time.time.tv_sec and, in the same bytes, time.tick
  nsec,   \* time.time.tv_nsec
  asked   \* history: what the program asked for last

stampVars == <<flags, sec, nsec, asked>>

StampInit ==
  /\ flags \in {{}, {"VARIABLE"}, {"VARUSR"}}  \* get_length_flag
  /\ sec = 0 /\ nsec = 0
  /\ asked = [unit |-> "tick", sec |-> 0, nsec |-> 0, rel |-> FALSE,
              high |-> FALSE, length |-> flags]

Stamp == {"REAL", "REL"}  \* TIME_STAMP_MASK and TIME_MODE_MASK

schedule_real(rel, s, n) ==
  /\ flags' = (flags \ Stamp) \cup {"REAL"} \cup (IF rel THEN {"REL"} ELSE {})
  /\ sec' = s /\ nsec' = n
  /\ asked' = [asked EXCEPT !.unit = "real", !.sec = s, !.nsec = n, !.rel = rel]

\* mutant: the flags of the stamp before are not cleared
schedule_tick_NoClear(rel, t) ==
  /\ flags' = flags \cup (IF rel THEN {"REL"} ELSE {})
  /\ sec' = t /\ UNCHANGED nsec
  /\ asked' = [asked EXCEPT !.unit = "tick", !.sec = t, !.rel = rel]

schedule_tick(rel, t) ==
  /\ flags' = (flags \ Stamp) \cup (IF rel THEN {"REL"} ELSE {})
  /\ sec' = t /\ UNCHANGED nsec
  /\ asked' = [asked EXCEPT !.unit = "tick", !.sec = t, !.rel = rel]

set_priority(high) ==
  /\ flags' = IF high THEN flags \cup {"HIGH"} ELSE flags \ {"HIGH"}
  /\ asked' = [asked EXCEPT !.high = high]
  /\ UNCHANGED <<sec, nsec>>

NoStamp == <<>>
get_time     == IF "REAL" \in flags THEN <<sec, nsec>> ELSE NoStamp
get_tick     == IF "REAL" \in flags THEN <<sec>> ELSE NoStamp
get_relative == "REL" \in flags
get_priority == "HIGH" \in flags

StampNext ==
  \/ \E rel \in BOOLEAN, s \in Times, n \in Nanos : schedule_real(rel, s, n)
  \/ \E rel \in BOOLEAN, t \in Times : schedule_tick(rel, t)
  \/ \E high \in BOOLEAN : set_priority(high)

StampSpec == StampInit /\ [][StampNext]_stampVars

-----------------------------------------------------------------------------
(* Properties                                                              *)

\* In whatever order an event is scheduled, rescheduled in the other unit and
\* given a priority, get_time tells the real time asked for last, and nothing
\* for a tick that lies in the same bytes; the mode, the priority and the
\* length kind are those asked for.  get_tick is left out: it looks for the
\* flag of a real time, so it has no tick for any event scheduled by ticks.
StampAsAsked ==
  /\ get_time = IF asked.unit = "real" THEN <<asked.sec, asked.nsec>> ELSE NoStamp
  /\ get_relative = asked.rel /\ get_priority = asked.high
  /\ flags \cap {"VARIABLE", "VARUSR"} = asked.length
=============================================================================
