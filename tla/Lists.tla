------------------------------- MODULE Lists -------------------------------
(***************************************************************************)
(* The kernel's doubly linked lists (rtservice.h) as sequences.  The node  *)
(* of a thread is on a list once at most, so the sequence is injective.    *)
(***************************************************************************)
EXTENDS Integers, Sequences, SequencesExt

\* The list q without t: rt_list_remove of a node that may be on the list.
Unlink(q, t) ==
  IF Contains(q, t)
  THEN RemoveAt(q, CHOOSE i \in 1 .. Len(q) : q[i] = t)
  ELSE q

\* The position of the first element of q with a larger key than t.
FirstLater(q, t, key) ==
  CHOOSE i \in 1 .. Len(q) :
    key[t] < key[q[i]] /\ \A j \in 1 .. i - 1 : ~(key[t] < key[q[j]])

\* t before the first element of q with a larger key, at the end if there is none.
InsertSorted(q, t, key) ==
  IF \E i \in 1 .. Len(q) : key[t] < key[q[i]]
  THEN InsertAt(q, FirstLater(q, t, key), t)
  ELSE Append(q, t)
=============================================================================
