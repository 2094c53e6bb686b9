------------------------------ MODULE ElemList ------------------------------
(***************************************************************************)
(* Ctl::elem_list (src/src/ctl_int.rs): asks the kernel how many elements  *)
(* there are, makes room for as many ids and asks again for the ids.  The  *)
(* driver may add and remove elements between the two calls, and after     *)
(* them, while the program reads the list.                                 *)
(*                                                                         *)
(* The kernel is external: it fills what room there is with the first ids, *)
(* says how many it filled and how many there are.                         *)
(***************************************************************************)
EXTENDS Integers, Sequences, FiniteSets

CONSTANT Elems  \* bound: the ids there may be, numbers in the kernel's order

ASSUME ElemsAssumption == Elems \subseteq Nat \ {0} /\ IsFiniteSet(Elems)

VARIABLES
  elems,   \* the card's elements
  step,    \* where elem_list is
  space,   \* ids there is room for
  count,   \* the list's count: elements there were
  ids,     \* the list's ids; used is their number
  got,     \* what the last get_* of an index returned
  listed   \* history: the card's elements at the second call

listVars == <<elems, step, space, count, ids, got, listed>>

NoId == -22  \* EINVAL
Wild == 0    \* whatever lies past the ids
used == Len(ids)

ListInit ==
  /\ elems \in SUBSET Elems /\ step = "count" /\ listed = {}
  /\ space = 0 /\ count = 0 /\ ids = <<>> /\ got = NoId

\* the first n elements in their order
First(n) == {s \in [1 .. n -> elems] :
               /\ \A i, j \in 1 .. n : i < j => s[i] < s[j]
               /\ \A i \in 1 .. n, e \in elems : e < s[i] => \E j \in 1 .. n : s[j] = e}

\* snd_ctl_elem_list
Ask == /\ count' = Cardinality(elems)
       /\ ids' \in First(IF space < count' THEN space ELSE count')
       /\ UNCHANGED <<elems, got>>

ListFails == step' = "failed" /\ UNCHANGED <<elems, space, count, ids, got, listed>>

\* the first call; no room is made for no elements
CountElems ==
  /\ step = "count"
  /\ \/ Ask /\ step' = "alloc" /\ UNCHANGED <<space, listed>>
     \/ ListFails
AllocSpace ==
  /\ step = "alloc"
  /\ \/ /\ step' = "list" /\ space' = count
        /\ UNCHANGED <<elems, count, ids, got, listed>>
     \/ count > 0 /\ ListFails
\* mutant: the ids are not asked for again
ListElems_Skipped ==
  /\ step = "list" /\ step' = "done" /\ listed' = elems
  /\ UNCHANGED <<elems, space, count, ids, got>>

ListElems ==
  /\ step = "list"
  /\ \/ Ask /\ step' = "done" /\ listed' = elems /\ UNCHANGED space
     \/ ListFails

\* mutant: what there is, not what was listed
ensure_valid_index_Count(index) == index < count

ensure_valid_index(index) == index < used

\* get_id, get_numid, get_interface, get_name and the rest
Get(index) ==
  /\ step = "done"
  /\ got' = IF ~ensure_valid_index(index) THEN NoId
            ELSE IF index < used THEN ids[index + 1] ELSE Wild
  /\ UNCHANGED <<elems, step, space, count, ids, listed>>

Add(e) == /\ e \notin elems /\ elems' = elems \cup {e}
             /\ UNCHANGED <<step, space, count, ids, got, listed>>
TakeAway(e) == /\ e \in elems /\ elems' = elems \ {e}
             /\ UNCHANGED <<step, space, count, ids, got, listed>>

ListNext == \/ CountElems \/ AllocSpace \/ ListElems
            \/ \E index \in 0 .. Cardinality(Elems) : Get(index)
            \/ \E e \in Elems : Add(e) \/ TakeAway(e)

ListSpec == ListInit /\ [][ListNext]_listVars

-----------------------------------------------------------------------------
(* Properties                                                              *)

\* An index that is accepted gives the id of an element that existed when the
\* list was made, each index another one, and never reads past the ids that
\* are there, whatever came or went between the two calls.
IndexGivesElem ==
  /\ got # NoId => got \in listed
  /\ step = "done" => used <= space /\ \A i, j \in 1 .. used : ids[i] = ids[j] => i = j

\* The list is complete when nothing was added between the two calls.
NothingLost == step = "done" /\ Cardinality(listed) <= space => listed = {ids[i] : i \in 1 .. used}
=============================================================================
