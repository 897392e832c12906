------------------------------- MODULE PriList -------------------------------
(***************************************************************************)
(* list_insert_ordered() and list_sort() of the kernel's list library, as  *)
(* project2 calls them: with a comparison that puts the greater key first; *)
(* and a loop that takes elements off a list.  All are total functions;    *)
(* each is written as the set that holds its one result, so that what a    *)
(* result is need not be chosen from anything.                             *)
(***************************************************************************)
EXTENDS Integers, Sequences, FiniteSets, SequencesExt

\* list_insert_ordered (l, x): before the first element with a smaller key.
Inserted(l, x, key) ==
  {InsertAt(l, p, x) : p \in
     {q \in 1 .. Len(l) + 1 :
        /\ \A i \in 1 .. q - 1 : key[l[i]] >= key[x]
        /\ q <= Len(l) => key[l[q]] < key[x]}}

\* list_sort (l), a merge sort, which is stable: the reordering of positions
\* that puts greater keys first and keeps the order of equal ones.
Sorted(l, key) ==
  {[i \in DOMAIN l |-> l[p[i]]] : p \in
     {q \in Bijection(DOMAIN l, DOMAIN l) :
        \A i, j \in DOMAIN l :
          i < j => \/ key[l[q[i]]] > key[l[q[j]]]
                   \/ key[l[q[i]]] = key[l[q[j]]] /\ q[i] < q[j]}}

\* list_remove() of each element of l that is in G; the others keep their order.
Without(l, G) ==
  LET kept == {i \in DOMAIN l : l[i] \notin G} IN
  {[k \in 1 .. Cardinality(kept) |-> l[p[k]]] : p \in
     {q \in Bijection(1 .. Cardinality(kept), kept) :
        \A i, j \in 1 .. Cardinality(kept) : i < j => q[i] < q[j]}}
=============================================================================
