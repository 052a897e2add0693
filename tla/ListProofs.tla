------------------------------- MODULE ListProofs -------------------------------
(***************************************************************************)
(* The ring operations of list.c do to the sequence of entries what the    *)
(* other modules say they do, and a walk along next that takes no lock     *)
(* sees, after each single write, the list before or the list after.       *)
(***************************************************************************)
EXTENDS List, TLAPS

(* A list of distinct entries and its head: each node has one position.    *)
LEMMA Positions ==
  ASSUME ListHead \notin Entry, NEW s, Sequence(s)
  PROVE  /\ Len(s) \in Nat
         /\ At(s, 0) = ListHead /\ At(s, Len(s) + 1) = ListHead
         /\ \A k \in 1..Len(s) : At(s, k) = s[k] /\ s[k] \in Entry
         /\ \A k \in 0..(Len(s) + 1) : At(s, k) \in Node
         /\ \A i, j \in 0..Len(s) : At(s, i) = At(s, j) => i = j
         /\ \A i, j \in 1..(Len(s) + 1) : At(s, i) = At(s, j) => i = j
<1>1. s \in Seq(Entry) /\ Len(s) \in Nat
  BY DEF Sequence
<1>2. \A k \in 1..Len(s) : At(s, k) = s[k] /\ s[k] \in Entry
  BY <1>1 DEF At
<1>3. At(s, 0) = ListHead /\ At(s, Len(s) + 1) = ListHead
  BY <1>1 DEF At
<1>4. \A k \in 0..(Len(s) + 1) : k \in 1..Len(s) \/ k = 0 \/ k = Len(s) + 1
  BY <1>1
<1>5. \A k \in 0..(Len(s) + 1) : At(s, k) \in Node
  BY <1>2, <1>3, <1>4 DEF Node
<1>6. ASSUME NEW i \in 0..Len(s), NEW j \in 0..Len(s), At(s, i) = At(s, j)
      PROVE  i = j
  BY <1>1, <1>2, <1>3, <1>6 DEF Sequence
<1>7. ASSUME NEW i \in 1..(Len(s) + 1), NEW j \in 1..(Len(s) + 1), At(s, i) = At(s, j)
      PROVE  i = j
  BY <1>1, <1>2, <1>3, <1>7 DEF Sequence
<1> QED
  BY <1>1, <1>2, <1>3, <1>5, <1>6, <1>7

(* A new list is empty, whatever the memory held (list.c:17-32). *)
THEOREM InitIsEmpty ==
  ASSUME ListHead \notin Entry, NEW r \in Rings
  PROVE  Represents(ListInit(r), <<>>)
<1>1. Sequence(<<>>) /\ Len(<<>>) = 0
  BY DEF Sequence
<1>2. At(<<>>, 0) = ListHead /\ At(<<>>, 1) = ListHead
  BY <1>1 DEF At
<1>3. ListInit(r) \in Rings
  BY DEF ListInit, SetNext, SetPrev, Rings, Pointers, Node
<1>4. ListInit(r).next[ListHead] = ListHead /\ ListInit(r).prev[ListHead] = ListHead
  BY DEF ListInit, SetNext, SetPrev, Rings, Pointers, Node
<1> QED
  BY <1>1, <1>2, <1>3, <1>4 DEF Represents, Forward, Backward

(* list_is_empty looks at one pointer and is right (list.c:136-145).       *)
THEOREM EmptyIsEmpty ==
  ASSUME ListHead \notin Entry, NEW r, NEW s, Represents(r, s)
  PROVE  IsEmpty(r) <=> s = <<>>
<1>1. Sequence(s) /\ s \in Seq(Entry) /\ Len(s) \in Nat
  BY DEF Represents, Sequence
<1>2. r.next[ListHead] = At(s, 1)
  <2>1. At(s, 0) = ListHead
    BY <1>1, Positions
  <2>2. r.next[At(s, 0)] = At(s, 0 + 1)
    BY <1>1 DEF Represents, Forward
  <2> QED
    BY <2>1, <2>2
<1>3. s = <<>> => At(s, 1) = ListHead
  BY DEF At
<1>4. s # <<>> => At(s, 1) # ListHead
  <2>1. s # <<>> => 1 \in 1..Len(s)
    BY <1>1
  <2> QED
    BY <1>1, <2>1, Positions
<1> QED
  BY <1>2, <1>3, <1>4 DEF IsEmpty

(* The sequence after a new entry at its end, position by position. *)
LEMMA AppendPositions ==
  ASSUME ListHead \notin Entry, NEW s, Sequence(s), NEW e, Fresh(e, s)
  PROVE  /\ Sequence(Append(s, e)) /\ Len(Append(s, e)) = Len(s) + 1
         /\ \A k \in 0..Len(s) : At(Append(s, e), k) = At(s, k)
         /\ At(Append(s, e), Len(s) + 1) = e
         /\ At(Append(s, e), Len(s) + 2) = ListHead
         /\ e \in Node /\ e # ListHead /\ \A k \in 0..(Len(s) + 1) : At(s, k) # e
<1>1. s \in Seq(Entry) /\ Len(s) \in Nat /\ e \in Entry
  BY DEF Sequence, Fresh
<1>2. Append(s, e) \in Seq(Entry) /\ Len(Append(s, e)) = Len(s) + 1
  BY <1>1
<1>3. \A k \in 1..Len(s) : Append(s, e)[k] = s[k]
  BY <1>1
<1>4. Append(s, e)[Len(s) + 1] = e
  BY <1>1
<1>5. Sequence(Append(s, e))
  <2> SUFFICES ASSUME NEW i \in 1..(Len(s) + 1), NEW j \in 1..(Len(s) + 1),
                      Append(s, e)[i] = Append(s, e)[j]
               PROVE  i = j
    BY <1>2 DEF Sequence
  <2>1. i \in 1..Len(s) \/ i = Len(s) + 1
    BY <1>1
  <2>2. j \in 1..Len(s) \/ j = Len(s) + 1
    BY <1>1
  <2> QED
    BY <2>1, <2>2, <1>3, <1>4 DEF Sequence, Fresh
<1>6. \A k \in 0..Len(s) : At(Append(s, e), k) = At(s, k)
  BY <1>1, <1>2, <1>3 DEF At
<1>7. At(Append(s, e), Len(s) + 1) = e /\ At(Append(s, e), Len(s) + 2) = ListHead
  BY <1>1, <1>2, <1>4 DEF At
<1>8. e \in Node /\ e # ListHead
  BY <1>1 DEF Node
<1>9. \A k \in 0..(Len(s) + 1) : At(s, k) # e
  BY <1>8 DEF At, Fresh
<1> QED
  BY <1>2, <1>5, <1>6, <1>7, <1>8, <1>9

(* Adding at the tail, after each of its four writes (list.c:34-47).       *)
THEOREM AddTailAppends ==
  ASSUME ListHead \notin Entry, NEW r, NEW s, NEW e, Represents(r, s), Fresh(e, s)
  PROVE  /\ Forward(InsertBefore1(r, ListHead, e), s)
         /\ Forward(InsertBefore2(r, ListHead, e), s)
         /\ Forward(InsertBefore3(r, ListHead, e), Append(s, e))
         /\ Represents(AddTail(r, e), Append(s, e))
<1> DEFINE last == At(s, Len(s))
           n1 == [r.next EXCEPT ![e] = ListHead]
           p2 == [r.prev EXCEPT ![e] = last]
           n3 == [n1 EXCEPT ![last] = e]
           p4 == [p2 EXCEPT ![ListHead] = e]
<1>1. Sequence(s) /\ r.next \in [Node -> Node] /\ r.prev \in [Node -> Node]
  BY DEF Represents, Rings, Pointers
<1>2. /\ Len(s) \in Nat /\ last \in Node /\ last # e /\ ListHead \in Node
      /\ r.prev[ListHead] = last
  <2>1. Len(s) \in Nat /\ At(s, Len(s) + 1) = ListHead
    BY <1>1, Positions
  <2>2. Len(s) \in 0..(Len(s) + 1)
    BY <2>1
  <2>3. last \in Node /\ last # e
    BY <1>1, <2>2, Positions, AppendPositions
  <2>4. r.prev[At(s, Len(s) + 1)] = At(s, Len(s))
    BY <2>1 DEF Represents, Backward
  <2> QED
    BY <2>1, <2>3, <2>4 DEF Node
<1>3. e \in Node /\ e # ListHead
  BY <1>1, AppendPositions
<1>4. /\ InsertBefore1(r, ListHead, e) = [next |-> n1, prev |-> r.prev]
      /\ InsertBefore2(r, ListHead, e) = [next |-> n1, prev |-> p2]
  BY <1>2 DEF InsertBefore1, InsertBefore2, SetNext, SetPrev
<1>5. p2[ListHead] = last
  BY <1>1, <1>2, <1>3
<1>6. InsertBefore3(r, ListHead, e) = [next |-> n3, prev |-> p2]
  BY <1>4, <1>5 DEF InsertBefore3, SetNext
<1>7. AddTail(r, e) = [next |-> n3, prev |-> p4]
  BY <1>6 DEF AddTail, InsertBefore, SetPrev
<1>8. n1 \in [Node -> Node] /\ n3 \in [Node -> Node] /\ p4 \in [Node -> Node]
  BY <1>1, <1>2, <1>3
<1>9. \A k \in 0..Len(s) : n1[At(s, k)] = At(s, k + 1)
  <2>1. \A k \in 0..Len(s) : At(s, k) # e /\ At(s, k) \in Node
    <3>1. \A k \in 0..Len(s) : k \in 0..(Len(s) + 1)
      BY <1>2
    <3> QED
      BY <1>1, <3>1, Positions, AppendPositions
  <2>2. \A k \in 0..Len(s) : r.next[At(s, k)] = At(s, k + 1)
    BY DEF Represents, Forward
  <2> QED
    BY <1>1, <2>1, <2>2
<1>10. \A k \in 0..(Len(s) + 1) : n3[At(Append(s, e), k)] = At(Append(s, e), k + 1)
  <2> TAKE k \in 0..(Len(s) + 1)
  <2>1. CASE k = Len(s) + 1
    <3>1. At(Append(s, e), k) = e /\ At(Append(s, e), k + 1) = ListHead
      BY <1>1, <1>2, <2>1, AppendPositions
    <3>2. n3[e] = ListHead
      BY <1>1, <1>2, <1>3
    <3> QED
      BY <3>1, <3>2
  <2>2. CASE k = Len(s)
    <3>1. At(Append(s, e), k) = last /\ At(Append(s, e), k + 1) = e
      BY <1>1, <1>2, <2>2, AppendPositions
    <3>2. n3[last] = e
      BY <1>1, <1>2
    <3> QED
      BY <3>1, <3>2
  <2>3. CASE k < Len(s)
    <3>1. k \in 0..Len(s) /\ k + 1 \in 0..Len(s) /\ Len(s) \in 0..Len(s)
      BY <1>2, <2>3
    <3>2. At(Append(s, e), k) = At(s, k) /\ At(Append(s, e), k + 1) = At(s, k + 1)
      BY <1>1, <3>1, AppendPositions
    <3>3. At(s, k) # last /\ At(s, k) \in Node
      BY <1>1, <1>2, <2>3, <3>1, Positions
    <3>4. n3[At(s, k)] = n1[At(s, k)]
      BY <1>8, <3>3
    <3> QED
      BY <1>9, <3>1, <3>2, <3>4
  <2> QED
    BY <1>2, <2>1, <2>2, <2>3
<1>11. \A k \in 0..(Len(s) + 1) : p4[At(Append(s, e), k + 1)] = At(Append(s, e), k)
  <2> TAKE k \in 0..(Len(s) + 1)
  <2>1. CASE k = Len(s) + 1
    <3>1. At(Append(s, e), k) = e /\ At(Append(s, e), k + 1) = ListHead
      BY <1>1, <1>2, <2>1, AppendPositions
    <3>2. p4[ListHead] = e
      BY <1>1, <1>2
    <3> QED
      BY <3>1, <3>2
  <2>2. CASE k = Len(s)
    <3>1. At(Append(s, e), k) = last /\ At(Append(s, e), k + 1) = e
      BY <1>1, <1>2, <2>2, AppendPositions
    <3>2. p4[e] = last
      BY <1>1, <1>2, <1>3
    <3> QED
      BY <3>1, <3>2
  <2>3. CASE k < Len(s)
    <3>1. k \in 0..Len(s) /\ k + 1 \in 1..Len(s) /\ k + 1 \in 0..Len(s)
      BY <1>2, <2>3
    <3>2. At(Append(s, e), k) = At(s, k) /\ At(Append(s, e), k + 1) = At(s, k + 1)
      BY <1>1, <3>1, AppendPositions
    <3>3. At(s, k + 1) \in Entry /\ At(s, k + 1) # e
      BY <1>1, <1>2, <3>1, Positions DEF Fresh
    <3>4. p4[At(s, k + 1)] = r.prev[At(s, k + 1)]
      BY <1>1, <3>3 DEF Node
    <3> QED
      BY <3>1, <3>2, <3>4 DEF Represents, Backward
  <2> QED
    BY <1>2, <2>1, <2>2, <2>3
<1>12. Sequence(Append(s, e)) /\ Len(Append(s, e)) = Len(s) + 1
  BY <1>1, AppendPositions
<1> HIDE DEF n1, p2, n3, p4
<1> QED
  BY <1>4, <1>6, <1>7, <1>8, <1>9, <1>10, <1>11, <1>12
  DEF Represents, Forward, Backward, Rings, Pointers

(* The sequence less its k-th entry, position by position. *)
LEMMA WithoutPositions ==
  ASSUME ListHead \notin Entry, NEW s, Sequence(s), NEW k \in 1..Len(s)
  PROVE  /\ Sequence(Without(s, k)) /\ Len(Without(s, k)) = Len(s) - 1
         /\ \A i \in 0..(k - 1) : At(Without(s, k), i) = At(s, i)
         /\ \A i \in k..Len(s) : At(Without(s, k), i) = At(s, i + 1)
<1> DEFINE w == Without(s, k)
<1>1. s \in Seq(Entry) /\ Len(s) \in Nat /\ k \in Nat /\ 1 <= k /\ k <= Len(s)
  BY DEF Sequence
<1>2. /\ SubSeq(s, 1, k - 1) \in Seq(Entry) /\ Len(SubSeq(s, 1, k - 1)) = k - 1
      /\ \A i \in 1..(k - 1) : SubSeq(s, 1, k - 1)[i] = s[i]
  BY <1>1
<1>3. /\ SubSeq(s, k + 1, Len(s)) \in Seq(Entry)
      /\ Len(SubSeq(s, k + 1, Len(s))) = Len(s) - k
      /\ \A i \in 1..(Len(s) - k) : SubSeq(s, k + 1, Len(s))[i] = s[k + i]
  BY <1>1
<1>4. PICK a \in Seq(Entry), b \in Seq(Entry) :
        a = SubSeq(s, 1, k - 1) /\ b = SubSeq(s, k + 1, Len(s))
  BY <1>2, <1>3
<1> HIDE DEF w
<1>5. w = a \o b
  BY <1>4 DEF w, Without
<1>6. w \in Seq(Entry) /\ Len(w) = Len(s) - 1
  <2>1. Len(a) = k - 1 /\ Len(b) = Len(s) - k
    BY <1>2, <1>3, <1>4
  <2> QED
    BY <1>1, <1>5, <2>1
<1>7. \A i \in 1..(k - 1) : w[i] = s[i]
  <2>1. Len(a) = k - 1 /\ \A i \in 1..(k - 1) : a[i] = s[i]
    BY <1>2, <1>4
  <2> QED
    BY <1>1, <1>5, <2>1
<1>8. \A i \in k..(Len(s) - 1) : w[i] = s[i + 1]
  <2>1. Len(a) = k - 1 /\ Len(b) = Len(s) - k /\ \A i \in 1..(Len(s) - k) : b[i] = s[k + i]
    BY <1>2, <1>3, <1>4
  <2> TAKE i \in k..(Len(s) - 1)
  <2>2. /\ i \in Nat /\ i > Len(a) /\ i <= Len(a) + Len(b) /\ i - Len(a) \in 1..(Len(s) - k)
        /\ k + (i - Len(a)) = i + 1
    BY <1>1, <2>1
  <2>3. w[i] = b[i - Len(a)]
    <3>1. \A j \in 1..(Len(a) + Len(b)) : (a \o b)[j] = IF j <= Len(a) THEN a[j] ELSE b[j - Len(a)]
      OBVIOUS
    <3>2. i \in 1..(Len(a) + Len(b)) /\ ~(i <= Len(a))
      BY <1>1, <2>1, <2>2
    <3> QED
      BY <1>5, <3>1, <3>2
  <2> QED
    BY <2>1, <2>2, <2>3
<1>9. \A i \in 1..(Len(s) - 1) : i \in 1..(k - 1) \/ i \in k..(Len(s) - 1)
  BY <1>1, <1>6
<1>10. Sequence(w)
  <2> SUFFICES ASSUME NEW i \in 1..(Len(s) - 1), NEW j \in 1..(Len(s) - 1), w[i] = w[j]
               PROVE  i = j
    BY <1>6 DEF Sequence
  <2> DEFINE old(x) == IF x < k THEN x ELSE x + 1
  <2>0. ASSUME NEW x \in 1..(Len(s) - 1) PROVE old(x) \in 1..Len(s) /\ w[x] = s[old(x)]
    <3>1. CASE x \in 1..(k - 1)
      <4>1. x < k /\ x \in 1..Len(s)
        BY <1>1, <3>1
      <4> QED
        BY <1>7, <3>1, <4>1
    <3>2. CASE x \in k..(Len(s) - 1)
      <4>1. ~(x < k) /\ x + 1 \in 1..Len(s)
        BY <1>1, <3>2
      <4> QED
        BY <1>8, <3>2, <4>1
    <3> QED
      BY <1>9, <3>1, <3>2
  <2>1. PICK m \in 1..Len(s) : w[i] = s[m] /\ m = old(i)
    BY <2>0
  <2>2. PICK n \in 1..Len(s) : w[j] = s[n] /\ n = old(j)
    BY <2>0
  <2>3. m = n
    BY <2>1, <2>2 DEF Sequence
  <2>4. old(i) = old(j)
    BY <2>1, <2>2, <2>3
  <2>5. i \in Nat /\ j \in Nat
    BY <1>1
  <2> QED
    BY <1>1, <2>4, <2>5
<1>11. \A i \in 0..(k - 1) : At(w, i) = At(s, i)
  BY <1>1, <1>6, <1>7 DEF At
<1>12. \A i \in k..Len(s) : At(w, i) = At(s, i + 1)
  BY <1>1, <1>6, <1>8 DEF At
<1> QED
  BY <1>6, <1>10, <1>11, <1>12 DEF w

(* Removing an entry, after each of its two writes (list.c:82-90).         *)
THEOREM RemoveRemoves ==
  ASSUME ListHead \notin Entry, NEW r, NEW s, Represents(r, s), NEW k \in 1..Len(s)
  PROVE  /\ Forward(Remove1(r, s[k]), s)
         /\ Represents(Remove(r, s[k]), Without(s, k))
<1> DEFINE before == At(s, k - 1)
           after == At(s, k + 1)
           p == [r.prev EXCEPT ![after] = before]
           n == [r.next EXCEPT ![before] = after]
           w == Without(s, k)
<1>1. Sequence(s) /\ r.next \in [Node -> Node] /\ r.prev \in [Node -> Node]
  BY DEF Represents, Rings, Pointers
<1>2. /\ Len(s) \in Nat /\ k - 1 \in 0..Len(s) /\ k + 1 \in 1..(Len(s) + 1)
      /\ k \in 0..Len(s) /\ k \in 1..(Len(s) + 1)
  BY <1>1, Positions
<1>3. At(s, k) = s[k] /\ s[k] \in Node /\ before \in Node /\ after \in Node
  <2>1. k - 1 \in 0..(Len(s) + 1) /\ k + 1 \in 0..(Len(s) + 1)
    BY <1>2
  <2> QED
    BY <1>1, <2>1, Positions DEF Node
<1>4. before # s[k] /\ after # s[k]
  <2>1. k - 1 # k /\ k + 1 # k
    BY <1>2
  <2> QED
    BY <1>1, <1>2, <1>3, <2>1, Positions
<1>5. r.next[s[k]] = after /\ r.prev[s[k]] = before
  <2>1. r.next[At(s, k)] = At(s, k + 1)
    BY <1>2 DEF Represents, Forward
  <2>2. r.prev[At(s, (k - 1) + 1)] = At(s, k - 1)
    BY <1>2 DEF Represents, Backward
  <2>3. (k - 1) + 1 = k
    BY <1>2
  <2> QED
    BY <1>3, <2>1, <2>2, <2>3
<1>6. Remove1(r, s[k]) = [next |-> r.next, prev |-> p]
  BY <1>5 DEF Remove1, SetPrev
<1>7. p[s[k]] = before
  BY <1>1, <1>3, <1>4, <1>5
<1>8. Remove(r, s[k]) = [next |-> n, prev |-> p]
  BY <1>5, <1>6, <1>7 DEF Remove, SetNext
<1>9. n \in [Node -> Node] /\ p \in [Node -> Node]
  BY <1>1, <1>3
<1>10. Sequence(w) /\ Len(w) = Len(s) - 1
  BY <1>1, WithoutPositions
<1>11. \A i \in 0..Len(w) : n[At(w, i)] = At(w, i + 1)
  <2> TAKE i \in 0..Len(w)
  <2>1. CASE i < k - 1
    <3>1. i \in 0..(k - 1) /\ i + 1 \in 0..(k - 1) /\ i \in 0..Len(s)
      BY <1>2, <1>10, <2>1
    <3>2. At(w, i) = At(s, i) /\ At(w, i + 1) = At(s, i + 1)
      BY <1>1, <3>1, WithoutPositions
    <3>3. At(s, i) # before /\ At(s, i) \in Node
      BY <1>1, <1>2, <2>1, <3>1, Positions DEF Node
    <3> QED
      BY <1>1, <3>1, <3>2, <3>3 DEF Represents, Forward
  <2>2. CASE i = k - 1
    <3>1. i \in 0..(k - 1) /\ i + 1 = k /\ k \in k..Len(s)
      BY <1>2, <2>2
    <3>2. At(w, i) = before /\ At(w, i + 1) = after
      BY <1>1, <2>2, <3>1, WithoutPositions
    <3> QED
      BY <1>1, <1>3, <3>2
  <2>3. CASE i >= k
    <3>1. i \in k..Len(s) /\ i + 1 \in k..Len(s) /\ i + 1 \in 0..Len(s)
      BY <1>2, <1>10, <2>3
    <3>2. At(w, i) = At(s, i + 1) /\ At(w, i + 1) = At(s, (i + 1) + 1)
      BY <1>1, <3>1, WithoutPositions
    <3>3. At(s, i + 1) # before /\ At(s, i + 1) \in Node
      BY <1>1, <1>2, <2>3, <3>1, Positions DEF Node
    <3> QED
      BY <1>1, <3>1, <3>2, <3>3 DEF Represents, Forward
  <2> QED
    BY <1>2, <1>10, <2>1, <2>2, <2>3
<1>12. \A i \in 0..Len(w) : p[At(w, i + 1)] = At(w, i)
  <2> TAKE i \in 0..Len(w)
  <2>1. CASE i < k - 1
    <3>1. i \in 0..(k - 1) /\ i + 1 \in 0..(k - 1) /\ i \in 0..Len(s) /\ i + 1 \in 1..(Len(s) + 1)
      BY <1>2, <1>10, <2>1
    <3>2. At(w, i) = At(s, i) /\ At(w, i + 1) = At(s, i + 1)
      BY <1>1, <3>1, WithoutPositions
    <3>3. At(s, i + 1) # after /\ At(s, i + 1) \in Node
      BY <1>1, <1>2, <2>1, <3>1, Positions DEF Node
    <3> QED
      BY <1>1, <3>1, <3>2, <3>3 DEF Represents, Backward
  <2>2. CASE i = k - 1
    <3>1. i \in 0..(k - 1) /\ i + 1 = k /\ k \in k..Len(s)
      BY <1>2, <2>2
    <3>2. At(w, i) = before /\ At(w, i + 1) = after
      BY <1>1, <2>2, <3>1, WithoutPositions
    <3> QED
      BY <1>1, <1>3, <3>2
  <2>3. CASE i >= k
    <3>1. /\ i \in k..Len(s) /\ i + 1 \in k..Len(s) /\ i + 1 \in 0..Len(s)
          /\ (i + 1) + 1 \in 1..(Len(s) + 1)
      BY <1>2, <1>10, <2>3
    <3>2. At(w, i) = At(s, i + 1) /\ At(w, i + 1) = At(s, (i + 1) + 1)
      BY <1>1, <3>1, WithoutPositions
    <3>3. At(s, (i + 1) + 1) # after /\ At(s, (i + 1) + 1) \in Node
      BY <1>1, <1>2, <2>3, <3>1, Positions DEF Node
    <3> QED
      BY <1>1, <3>1, <3>2, <3>3 DEF Represents, Backward
  <2> QED
    BY <1>2, <1>10, <2>1, <2>2, <2>3
<1> HIDE DEF p, n, w
<1>13. Forward(Remove1(r, s[k]), s)
  BY <1>6 DEF Represents, Forward
<1>14. Represents(Remove(r, s[k]), w)
  BY <1>8, <1>9, <1>10, <1>11, <1>12 DEF Represents, Forward, Backward, Rings, Pointers
<1> QED
  BY <1>13, <1>14 DEF w

===============================================================================
