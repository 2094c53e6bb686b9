----------------------------- MODULE ErrorPaths -----------------------------
(***************************************************************************)
(* How the number of an error reaches the program (src/src/error.rs and    *)
(* its callers): alsa-lib returns it negated, the C library returns -1 and *)
(* leaves it in errno, the crate makes up two of its own.  The program     *)
(* compares the number it is told with a constant, prints its description  *)
(* or passes it to PCM::recover.                                           *)
(***************************************************************************)
EXTENDS Integers

ENOENT  == 2
EPIPE   == 32
EILSEQ  == 84
ENOTSUP == 95
Codes == {ENOENT, EPIPE}  \* bound: errors of the system

VARIABLES
  way,    \* the kind of call that fails
  code,   \* the number of the error, as the C headers have it
  r,      \* what the C function returned
  told,   \* the number in the Error or the io::Error
  heard   \* the code alsa-lib's recover goes by

vars == <<way, code, r, told, heard>>

\* what returns its error negated, what returns -1, and what only the crate
\* finds wrong
Alsa == {"acheck", "from_code", "io_read", "io_write"}
Libc == {"poll", "last"}
Own  == {"invalid_str", "unsupported"}

NoNumber == 0

Init == /\ way \in Alsa \cup Libc \cup Own
        /\ code = NoNumber /\ r = NoNumber /\ told = NoNumber /\ heard = NoNumber

\* a call fails
CallFails ==
  /\ code = NoNumber
  /\ \/ way \in Alsa /\ code' \in Codes /\ r' = -code'
     \/ way \in Libc /\ code' \in Codes /\ r' = -1
     \/ way = "invalid_str" /\ code' = EILSEQ /\ UNCHANGED r
     \/ way = "unsupported" /\ code' = ENOTSUP /\ UNCHANGED r
  /\ UNCHANGED <<way, told, heard>>

\* errno of the thread: no call comes between the failure and the look at it
errno == code

acheck         == -r
from_code(res) == res
poll           == from_code(-errno)
last           == errno
read           == -r  \* PCM's; that of the others is as write
write          == r

Convert ==
  /\ code # NoNumber /\ told = NoNumber
  /\ told' = CASE way = "acheck"      -> acheck
               [] way = "from_code"   -> from_code(r)
               [] way = "poll"        -> poll
               [] way = "last"        -> last
               [] way = "io_read"     -> read
               [] way = "io_write"    -> write
               [] way = "invalid_str" -> EILSEQ
               [] way = "unsupported" -> ENOTSUP
  /\ UNCHANGED <<way, code, r, heard>>

\* the numbers desc knows; any other is an "Unknown errno"
Described == {ENOENT, ENOTSUP}
desc == told \in Described

\* try_recover: snd_pcm_recover takes the number with either sign
try_recover ==
  /\ told # NoNumber /\ way \notin {"io_read", "io_write"}
  /\ heard' = IF told < 0 THEN -told ELSE told
  /\ UNCHANGED <<way, code, r, told>>

Next == CallFails \/ Convert \/ try_recover

Spec == Init /\ [][Next]_vars

-----------------------------------------------------------------------------
(* Properties                                                              *)

\* Doc of errno, error.rs:97: the underlying error, to be matched against the
\* constants of the nix crate, as the test at error.rs:231 does; then desc
\* describes every error of the system that it knows.
ErrnoIsErrno ==
  told # NoNumber /\ way \notin {"io_read", "io_write"} =>
    told = code /\ (code \in Described => desc)
=============================================================================
