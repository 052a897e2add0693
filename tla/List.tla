---------------------------------- MODULE List ----------------------------------
(***************************************************************************)
(* The doubly linked ring of list.c: the head and the entries point at     *)
(* each other.  The other modules write a list as the sequence of its      *)
(* entries; here is what the assignments to next and prev do, one at a     *)
(* time, because some walks over a list do not take its lock.              *)
(***************************************************************************)
EXTENDS Naturals, Sequences

CONSTANTS Entry, ListHead

Node == Entry \cup {ListHead}
Pointers == [Node -> Node]
Rings == [next : Pointers, prev : Pointers]

SetNext(r, n, to) == [next |-> [r.next EXCEPT ![n] = to], prev |-> r.prev]
SetPrev(r, n, to) == [next |-> r.next, prev |-> [r.prev EXCEPT ![n] = to]]

(* list_init *)
ListInit(r) == SetPrev(SetNext(r, ListHead, ListHead), ListHead, ListHead)

(* list_insert_before: after none, one, two, three or all of its writes. *)
InsertBefore1(r, next, le) == SetNext(r, le, next)
InsertBefore2(r, next, le) ==
  LET q == InsertBefore1(r, next, le) IN SetPrev(q, le, q.prev[next])
InsertBefore3(r, next, le) ==
  LET q == InsertBefore2(r, next, le) IN SetNext(q, q.prev[next], le)
InsertBefore(r, next, le) == SetPrev(InsertBefore3(r, next, le), next, le)

AddTail(r, le) == InsertBefore(r, ListHead, le)

(* list_remove: after one and after both of its writes. *)
Remove1(r, le) == SetPrev(r, r.next[le], r.prev[le])
Remove(r, le) == LET q == Remove1(r, le) IN SetNext(q, q.prev[le], q.next[le])

IsEmpty(r) == r.next[ListHead] = ListHead

-----------------------------------------------------------------------------
(* A ring as a sequence: position 0 and the one behind the last are the    *)
(* head.                                                                   *)
At(s, k) == IF k \in 1..Len(s) THEN s[k] ELSE ListHead

Sequence(s) ==
  s \in Seq(Entry) /\ \A i, j \in 1..Len(s) : s[i] = s[j] => i = j

(* What list_for_each sees: it follows next alone. *)
Forward(r, s) == \A k \in 0..Len(s) : r.next[At(s, k)] = At(s, k + 1)
Backward(r, s) == \A k \in 0..Len(s) : r.prev[At(s, k + 1)] = At(s, k)

Represents(r, s) == r \in Rings /\ Sequence(s) /\ Forward(r, s) /\ Backward(r, s)

Fresh(e, s) == e \in Entry /\ \A i \in 1..Len(s) : s[i] # e

Without(s, k) == SubSeq(s, 1, k - 1) \o SubSeq(s, k + 1, Len(s))

===============================================================================
