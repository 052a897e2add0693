--------------------------- MODULE WorkQueueProofs ---------------------------
(***************************************************************************)
(* Theorems of module WorkQueue, for any number of threads and items.      *)
(***************************************************************************)
EXTENDS WorkQueue, DataLemmas, SequenceTheorems

-----------------------------------------------------------------------------
(* The inductive invariant: the properties of WorkQueue and what they need. *)

Exiting == {"exitQueue", "posting", "join", "deleted"}
Dead == {"failed", "aborted", "crashed"}

(* An entry is linked at most once, and only while its memory is live. *)
ReadyInv ==
  /\ IsInjective(ready)
  /\ \A i \in Linked : heap[i] = "live"

(* Whose item is where: a thread that has unlinked its item has it alone,  *)
(* only find callbacks owe a post, only main at its producing stages does. *)
HandInv ==
  /\ \A w \in Worker : pc[w] \in {"freeing", "finishing", "unlocking"} =>
       item[w] \notin Linked
  /\ \A w \in Worker : pc[w] \in {"finishing", "unlocking"} => item[w] \in CompareItem
  /\ \A w \in Worker : pc[w] = "freeing" => item[w] \in FindItem
  /\ \A w \in Worker : item[w] # None => heap[item[w]] # "unborn"
  /\ \A w \in Worker : pc[w] \in {"running", "freeing", "finishing"} =>
       heap[item[w]] = "live"
  /\ \A w \in Worker : adding[w] # None => pc[w] = "running" /\ item[w] \in FindItem
  /\ adding[Main] # None => mpc \in {"find", "compare"} \cup Dead

(* How the exit flags follow main. *)
ExitInv ==
  /\ mpc \in Exiting => tpExit
  /\ tpExit => mpc \in Exiting \cup Dead
  /\ wqExit => tpExit
  /\ mpc \in {"posting", "join", "deleted"} => wqExit
  /\ tpExit /\ ~wqExit => sem = 0 /\ \A w \in Worker : pc[w] # "woken"

(* Nothing happens before the lists are initialised. *)
SpawnInv ==
  mpc = "spawn" =>
    /\ ready = <<>> /\ done = <<>>
    /\ \A w \in Worker : pc[w] \in {"absent", "created", "loop", "wait"}

(* What main walks over: entries that are off the ready list, on the done  *)
(* list once, in no callback's hands, and live until the walk reaches them.*)
DoneInv ==
  /\ IsInjective(done)
  /\ \A i \in ToSet(done) : i \notin Linked /\ heap[i] # "unborn"
  /\ \A w \in Worker : pc[w] \in {"running", "freeing", "finishing"} =>
       item[w] \notin ToSet(done)
  /\ mpc \notin Shutdown \cup Dead => \A i \in ToSet(done) : heap[i] = "live"
  /\ mpc = "walk" /\ cursor # 0 =>
       /\ cursor <= Len(done)
       /\ ahead # 0 => ahead = cursor + 1 /\ ahead <= Len(done)
       /\ \A k \in cursor..Len(done) : heap[done[k]] = "live"

IInv ==
  /\ TypeOK
  /\ ReadyInv
  /\ OwnedOnce
  /\ HandInv
  /\ ExitInv
  /\ SpawnInv
  /\ DoneInv
  /\ TokensMatchWork
  /\ NoWorkAfterExit
  /\ StaysQuiet
  /\ NoLateFind

-----------------------------------------------------------------------------
(* Lists. *)

(* What list_remove does: one entry goes, the rest stay in order.          *)
LEMMA RemoveFirstElements ==
  ASSUME NEW S, NEW s \in Seq(S), NEW e \in ToSet(s), IsInjective(s)
  PROVE  /\ RemoveFirst(s, e) \in Seq(S)
         /\ ToSet(RemoveFirst(s, e)) = ToSet(s) \ {e}
         /\ IsInjective(RemoveFirst(s, e))
<1>1. PICK k \in 1..Len(s) : s[k] = e
  BY DEF ToSet
<1>2. {i \in 1..Len(s) : s[i] = e} = {k}
  BY <1>1 DEF IsInjective
<1>3. SelectInSeq(s, LAMBDA v : v = e) = k
  BY <1>1, <1>2 DEF SelectInSeq, Min
<1>4. RemoveFirst(s, e) = RemoveAt(s, k)
  BY <1>1, <1>3 DEF RemoveFirst
<1>5. /\ Len(s) \in Nat /\ DOMAIN s = 1..Len(s)
      /\ k \in Nat /\ 1 <= k /\ k <= Len(s)
  BY <1>1, LenProperties
<1> DEFINE r == RemoveAt(s, k)
           Old(i) == IF i < k THEN i ELSE i + 1
<1>6. /\ r \in Seq(S)
      /\ Len(r) = Len(s) - 1
      /\ \A i \in 1..(Len(s) - 1) : r[i] = s[Old(i)]
  <2> DEFINE a == SubSeq(s, 1, k - 1)
             b == SubSeq(s, k + 1, Len(s))
  <2>1. /\ a \in Seq(S) /\ Len(a) = k - 1
        /\ \A i \in 1..(k - 1) : a[i] = s[i]
    BY <1>5, SubSeqProperties
  <2>2. /\ b \in Seq(S) /\ Len(b) = Len(s) - k
        /\ \A i \in 1..(Len(s) - k) : b[i] = s[k + i]
    <3>1. \A i \in (k + 1)..Len(s) : s[i] \in S
      BY <1>5
    <3>2. /\ b \in Seq(S)
          /\ Len(b) = IF k + 1 <= Len(s) THEN Len(s) - (k + 1) + 1 ELSE 0
          /\ \A i \in 1..(Len(s) - (k + 1) + 1) : b[i] = s[(k + 1) + i - 1]
      BY <1>5, <3>1, SubSeqProperties
    <3>3. Len(s) - (k + 1) + 1 = Len(s) - k
      BY <1>5
    <3> HIDE DEF b
    <3>4. Len(b) = Len(s) - k
      <4>1. Len(b) = IF k + 1 <= Len(s) THEN Len(s) - (k + 1) + 1 ELSE 0
        BY <3>2
      <4>2. Len(s) \in Nat /\ k \in Nat /\ 1 <= k /\ k <= Len(s)
        BY <1>5
      <4> QED BY <4>1, <4>2
    <3>5. ASSUME NEW i \in 1..(Len(s) - k) PROVE b[i] = s[k + i]
      <4>1. (k + 1) + i - 1 = k + i
        BY <1>5
      <4> QED BY <3>2, <3>3, <4>1
    <3> QED BY <3>2, <3>4, <3>5
  <2>3. r = a \o b
    BY DEF RemoveAt
  <2> HIDE DEF a, b, r
  <2>4. /\ a \o b \in Seq(S)
        /\ Len(a \o b) = Len(a) + Len(b)
        /\ \A i \in 1..(Len(a) + Len(b)) :
             (a \o b)[i] = IF i <= Len(a) THEN a[i] ELSE b[i - Len(a)]
    BY <2>1, <2>2, ConcatProperties
  <2>5. Len(r) = Len(s) - 1
    BY <1>5, <2>1, <2>2, <2>3, <2>4
  <2>6. ASSUME NEW i \in 1..(Len(s) - 1) PROVE r[i] = s[Old(i)]
    <3>1. CASE i < k
      BY <1>5, <2>1, <2>2, <2>3, <2>4, <3>1
    <3>2. CASE i >= k
      <4>1. r[i] = b[i - (k - 1)]
        BY <1>5, <2>1, <2>2, <2>3, <2>4, <3>2
      <4>2. i - (k - 1) \in 1..(Len(s) - k) /\ k + (i - (k - 1)) = i + 1
        BY <1>5, <3>2
      <4> QED BY <1>5, <2>2, <3>2, <4>1, <4>2
    <3> QED BY <1>5, <3>1, <3>2
  <2> QED BY <2>3, <2>4, <2>5, <2>6
<1> HIDE DEF r
<1>7. DOMAIN r = 1..(Len(s) - 1)
  BY <1>6, LenProperties
<1>8. \A i \in 1..(Len(s) - 1) : Old(i) \in 1..Len(s) /\ Old(i) # k
  BY <1>5
<1>9. ToSet(r) = ToSet(s) \ {e}
  <2>1. ASSUME NEW x \in ToSet(r) PROVE x \in ToSet(s) \ {e}
    <3>1. PICK i \in 1..(Len(s) - 1) : x = s[Old(i)]
      BY <1>6, <1>7 DEF ToSet
    <3> HIDE DEF Old
    <3> QED BY <1>1, <1>5, <1>8, <3>1 DEF ToSet, IsInjective
  <2>2. ASSUME NEW x \in ToSet(s) \ {e} PROVE x \in ToSet(r)
    <3>1. PICK j \in 1..Len(s) : s[j] = x
      BY <1>5 DEF ToSet
    <3>2. j # k
      BY <1>1, <3>1
    <3>3. PICK i \in 1..(Len(s) - 1) : Old(i) = j
      <4>1. CASE j < k
        BY <1>5, <4>1
      <4>2. CASE j > k
        <5>1. j - 1 \in 1..(Len(s) - 1) /\ Old(j - 1) = j
          BY <1>5, <4>2
        <5> QED BY <5>1
      <4> QED BY <1>5, <3>2, <4>1, <4>2
    <3> QED BY <1>6, <1>7, <3>1, <3>3 DEF ToSet
  <2> QED BY <2>1, <2>2
<1>10. IsInjective(r)
  <2>1. \A i, j \in 1..(Len(s) - 1) : Old(i) = Old(j) => i = j
    BY <1>5
  <2> HIDE DEF Old
  <2> QED BY <1>5, <1>6, <1>7, <1>8, <2>1 DEF IsInjective
<1> QED BY <1>4, <1>6, <1>9, <1>10 DEF r

-----------------------------------------------------------------------------
(* Preservation, one lemma per part of the invariant. *)

USE DEF Item, Proc

(* The invariant holds before the first thread is started.                 *)
LEMMA InitIInv == Init => IInv
<1> SUFFICES ASSUME Init PROVE IInv
  OBVIOUS
<1>1. TypeOK
  <2>1. <<>> \in Seq(Item) /\ <<>> \in Seq(CompareItem)
    BY EmptySeq
  <2> QED BY <2>1 DEF Init, TypeOK, WorkerPc, MainPc
<1>2. Linked = {} /\ Unclaimed = {} /\ ToSet(done) = {} /\ Holding = {} /\ Posting = {}
  BY DEF Init, Linked, Unclaimed, ToSet, Holding, Posting
<1>3. Cardinality({}) = 0
  BY FS_EmptySet
<1>4. ReadyInv /\ OwnedOnce /\ HandInv /\ ExitInv /\ SpawnInv /\ DoneInv
  BY <1>2, WorkQueueAssumption DEF Init, ReadyInv, OwnedOnce, HandInv, ExitInv,
     SpawnInv, DoneInv, InHand, Exiting, IsInjective
<1>5. TokensMatchWork /\ NoWorkAfterExit /\ StaysQuiet /\ NoLateFind
  BY <1>2, <1>3 DEF Init, TokensMatchWork, NoWorkAfterExit, StaysQuiet,
     NoLateFind, Shutdown
<1> QED BY <1>1, <1>4, <1>5 DEF IInv

(* A thread with an item in hand has an item; a running one is linked.     *)
LEMMA ItemInHand ==
  ASSUME IInv, NEW w \in Worker, pc[w] \in InHand
  PROVE  /\ item[w] \in Item
         /\ pc[w] = "running" => item[w] \in ToSet(ready) /\ item[w] \in inUse
<1>1. item[w] \in Item
  BY DEF IInv, OwnedOnce, TypeOK
<1>2. CASE pc[w] = "running"
  BY <1>1, <1>2 DEF IInv, OwnedOnce, Linked
<1> QED BY <1>1, <1>2

(* main's ready'=<<>> steps find the list empty. *)
LEMMA EmptyBefore ==
  ASSUME IInv, InitLists \/ EmptyReadyList
  PROVE  ready = <<>>
BY DEF IInv, SpawnInv, StaysQuiet, InitLists, EmptyReadyList, MainGoes

(* What mem_alloc and mem_free do is used throughout. *)
USE DEF MemAlloc, MemFree

(* Every step keeps the types.                                             *)
LEMMA TypeStep == ASSUME IInv, [Next]_vars PROVE TypeOK'
<1> USE DEF IInv, TypeOK, WorkerPc, MainPc, WorkerGoes, MainGoes, listVars,
    poolVars, walkVars
<1>1. ASSUME NEW w \in Worker, Spawn(w) PROVE TypeOK'
  BY <1>1 DEF Spawn
<1>2. ASSUME NEW p \in Proc, NEW i \in Item, LinkReady(p, i) PROVE TypeOK'
  BY <1>2, AppendElements DEF LinkReady
<1>3. ASSUME NEW p \in Proc, PostReady(p) PROVE TypeOK'
  BY <1>3 DEF PostReady
<1>4. ASSUME NEW w \in Worker, StartThread(w) PROVE TypeOK'
  BY <1>4 DEF StartThread
<1>5. ASSUME NEW w \in Worker, LoopTest(w) PROVE TypeOK'
  BY <1>5 DEF LoopTest
<1>6. ASSUME NEW w \in Worker, SemWait(w) PROVE TypeOK'
  BY <1>6 DEF SemWait
<1>7. ASSUME NEW w \in Worker, ExitTest(w) PROVE TypeOK'
  BY <1>7 DEF ExitTest
<1>8. ASSUME NEW w \in Worker, GetFirst(w) PROVE TypeOK'
  <2>1. UNCHANGED <<ready, done, heap, sem, tpExit, wqExit, posts, adding, cursor,
                    ahead>>
    BY <1>8 DEF GetFirst
  <2>2. CASE Unclaimed # {}
    <3>1. PICK k \in DOMAIN ready :
            /\ inUse' = inUse \cup {ready[k]}
            /\ item' = [item EXCEPT ![w] = ready[k]]
            /\ pc' = [pc EXCEPT ![w] = "running"]
            /\ mpc' = mpc
      BY <1>8, <2>2 DEF GetFirst
    <3>2. ready[k] \in Item
      OBVIOUS
    <3> QED BY <2>1, <3>1, <3>2
  <2>3. CASE Unclaimed = {}
    <3>1. /\ pc' = [pc EXCEPT ![w] = "loop"]
          /\ mpc' \in {"aborted", mpc}
          /\ UNCHANGED <<inUse, item>>
      BY <1>8, <2>3 DEF GetFirst
    <3> QED BY <2>1, <3>1
  <2> QED BY <2>2, <2>3
<1>9. ASSUME NEW w \in Worker, FreeItem(w) PROVE TypeOK'
  BY <1>9 DEF FreeItem
<1>10. ASSUME NEW w \in Worker, UnlockDone(w) PROVE TypeOK'
  BY <1>10 DEF UnlockDone
<1>11. ASSUME NEW w \in Worker, Crash(w) PROVE TypeOK'
  BY <1>11 DEF Crash
<1>12. ASSUME NEW w \in Worker, CallbackExits(w) PROVE TypeOK'
  BY <1>12 DEF CallbackExits
<1>13. ASSUME NEW w \in Worker, Unlink(w) PROVE TypeOK'
  <2>1. item[w] \in ToSet(ready) /\ IsInjective(ready)
    BY <1>13, ItemInHand DEF Unlink, InHand, ReadyInv
  <2>2. ready' \in Seq(Item)
    BY <1>13, <2>1, RemoveFirstElements DEF Unlink
  <2> QED BY <1>13, <2>2 DEF Unlink
<1>14. ASSUME NEW w \in Worker, LinkDone(w) PROVE TypeOK'
  BY <1>14, AppendElements DEF LinkDone, HandInv
<1>15. ASSUME InitLists PROVE TypeOK'
  BY <1>15 DEF InitLists
<1>16. ASSUME Produced PROVE TypeOK'
  BY <1>16 DEF Produced
<1>17. ASSUME FindFailed PROVE TypeOK'
  BY <1>17 DEF FindFailed
<1>18. ASSUME Poll PROVE TypeOK'
  BY <1>18 DEF Poll
<1>19. ASSUME StartCompare PROVE TypeOK'
  BY <1>19 DEF StartCompare
<1>20. ASSUME EmptyReadyList PROVE TypeOK'
  BY <1>20 DEF EmptyReadyList
<1>21. ASSUME Succeeded PROVE TypeOK'
  BY <1>21 DEF Succeeded
<1>22. ASSUME CleanChecks PROVE TypeOK'
  BY <1>22 DEF CleanChecks
<1>23. ASSUME CleanFrees PROVE TypeOK'
  <2>1. done[cursor] \in Item
    BY <1>23 DEF DoneInv, CleanFrees
  <2>2. heap' \in [Item -> {"unborn", "live", "freed"}]
    BY <1>23, <2>1 DEF CleanFrees
  <2> QED BY <1>23, <2>2 DEF CleanFrees
<1>24. ASSUME CleanEnds PROVE TypeOK'
  BY <1>24 DEF CleanEnds
<1>25. ASSUME PoolExit PROVE TypeOK'
  BY <1>25 DEF PoolExit
<1>26. ASSUME QueueExit PROVE TypeOK'
  BY <1>26 DEF QueueExit
<1>27. ASSUME PostExit PROVE TypeOK'
  BY <1>27 DEF PostExit
<1>28. ASSUME PostsDone PROVE TypeOK'
  BY <1>28 DEF PostsDone
<1>29. ASSUME JoinAll PROVE TypeOK'
  BY <1>29 DEF JoinAll
<1>30. ASSUME MainExits PROVE TypeOK'
  BY <1>30 DEF MainExits
<1>31. ASSUME UNCHANGED vars PROVE TypeOK'
  BY <1>31 DEF vars
<1> QED BY <1>1, <1>2, <1>3, <1>4, <1>5, <1>6, <1>7, <1>8, <1>9, <1>10,
      <1>11, <1>12, <1>13, <1>14, <1>15, <1>16, <1>17, <1>18, <1>19,
      <1>20, <1>21, <1>22, <1>23, <1>24, <1>25, <1>26, <1>27, <1>28,
      <1>29, <1>30, <1>31
  DEF Next, MainStep, WorkerStep, Failure, MainQueues, CallbackQueues, Ended

(* Every step keeps the ready list free of duplicates and of freed entries. *)
LEMMA ReadyStep == ASSUME IInv, [Next]_vars PROVE ReadyInv'
<1> USE DEF IInv
<1>1. ASSUME NEW p \in Proc, NEW i \in Item, LinkReady(p, i) PROVE ReadyInv'
  <2>1. i \notin ToSet(ready)
    BY <1>1 DEF LinkReady, ReadyInv, Linked
  <2>2. ToSet(ready') = ToSet(ready) \cup {i} /\ IsInjective(ready')
    BY <1>1, <2>1, AppendElements DEF LinkReady, TypeOK, ReadyInv
  <2> QED BY <1>1, <2>2 DEF LinkReady, ReadyInv, Linked, TypeOK
<1>2. ASSUME NEW w \in Worker, Unlink(w) PROVE ReadyInv'
  <2>1. item[w] \in ToSet(ready)
    BY <1>2, ItemInHand DEF Unlink, WorkerGoes, InHand
  <2>2. ToSet(ready') \subseteq ToSet(ready) /\ IsInjective(ready')
    BY <1>2, <2>1, RemoveFirstElements DEF Unlink, TypeOK, ReadyInv
  <2> QED BY <1>2, <2>2 DEF Unlink, ReadyInv, Linked
<1>3. ASSUME NEW w \in Worker, FreeItem(w) PROVE ReadyInv'
  BY <1>3 DEF FreeItem, WorkerGoes, ReadyInv, Linked, HandInv, TypeOK
<1>4. ASSUME ready' = <<>> PROVE ReadyInv'
  BY <1>4 DEF ReadyInv, Linked, IsInjective, ToSet
<1>5. ASSUME CleanFrees PROVE ReadyInv'
  <2>1. done[cursor] \in ToSet(done) \cap Item
    BY <1>5 DEF TypeOK, DoneInv, CleanFrees, ToSet
  <2> QED BY <1>5, <2>1 DEF CleanFrees, ReadyInv, Linked, TypeOK, DoneInv
<1>6. ASSUME UNCHANGED <<ready, heap>> PROVE ReadyInv'
  BY <1>6 DEF ReadyInv, Linked
<1> QED BY <1>1, <1>2, <1>3, <1>4, <1>5, <1>6
  DEF Next, MainStep, WorkerStep, Failure, Ended, vars, listVars, MainQueues,
      CallbackQueues, Spawn, InitLists, PostReady, StartThread, LoopTest,
      SemWait, ExitTest, GetFirst, LinkDone, UnlockDone, Crash, CallbackExits,
      Produced, FindFailed, Poll, StartCompare, EmptyReadyList, Succeeded,
      CleanChecks, CleanEnds, PoolExit, QueueExit, PostExit, PostsDone,
      JoinAll, MainExits

(* Every step keeps an item in one thread's hands at most.                 *)
LEMMA OwnedStep == ASSUME IInv, [Next]_vars PROVE OwnedOnce'
<1> USE DEF IInv
<1>1. ASSUME NEW p \in Proc, NEW i \in Item, LinkReady(p, i) PROVE OwnedOnce'
  <2>1. i \notin Linked /\ \A w \in Worker : item[w] # i
    BY <1>1, WorkQueueAssumption DEF LinkReady, ReadyInv, HandInv
  <2>2. Linked' = Linked \cup {i}
    BY <1>1, AppendElements DEF LinkReady, TypeOK, Linked
  <2>3. Linked' \cap inUse' = Linked \cap inUse
    BY <1>1, <2>1, <2>2 DEF LinkReady
  <2>4. UNCHANGED <<pc, item>>
    BY <1>1 DEF LinkReady
  <2> QED BY <2>3, <2>4 DEF OwnedOnce
<1>2. ASSUME NEW w \in Worker, GetFirst(w) PROVE OwnedOnce'
  <2>1. CASE UNCHANGED <<ready, inUse, item>> /\ pc' = [pc EXCEPT ![w] = "loop"]
    BY <1>2, <2>1 DEF GetFirst, OwnedOnce, TypeOK, InHand, Linked
  <2>2. ASSUME NEW k \in DOMAIN ready, ready[k] \notin inUse, UNCHANGED ready,
               inUse' = inUse \cup {ready[k]},
               item' = [item EXCEPT ![w] = ready[k]],
               pc' = [pc EXCEPT ![w] = "running"]
        PROVE  OwnedOnce'
    <3> DEFINE i == ready[k]
    <3>1. i \in Linked /\ i \in Item /\ i # None
      BY WorkQueueAssumption DEF Linked, ToSet, TypeOK
    <3>2. \A v \in Worker : item[v] # i
      BY <2>2, <3>1 DEF OwnedOnce, HandInv, InHand
    <3>3. pc[w] = "first" /\ item[w] = None
      BY <1>2 DEF GetFirst, OwnedOnce, InHand
    <3>4. Linked' = Linked
      BY <2>2 DEF Linked
    <3> HIDE DEF i
    <3>5. \A v \in Worker : pc'[v] \in InHand <=> item'[v] # None
      BY <2>2, <3>1 DEF OwnedOnce, TypeOK, InHand, i
    <3>6. \A u, v \in Worker : item'[u] # None /\ item'[u] = item'[v] => u = v
      BY <2>2, <3>2 DEF OwnedOnce, TypeOK, i
    <3>7. ASSUME NEW j \in Item
          PROVE  (j \in Linked' \cap inUse') <=>
                 (\E v \in Worker : pc'[v] = "running" /\ item'[v] = j)
      <4>1. CASE j = i
        BY <2>2, <3>1, <3>4, <4>1 DEF TypeOK, i
      <4>2. CASE j # i
        <5>1. j \in Linked' \cap inUse' <=> j \in Linked \cap inUse
          BY <2>2, <3>4, <4>2 DEF i
        <5>2. \A v \in Worker : (pc'[v] = "running" /\ item'[v] = j) <=>
                                (pc[v] = "running" /\ item[v] = j)
          BY <2>2, <3>3, <4>2 DEF TypeOK, i
        <5> QED BY <5>1, <5>2 DEF OwnedOnce
      <4> QED BY <4>1, <4>2
    <3> QED BY <3>5, <3>6, <3>7 DEF OwnedOnce
  <2> QED BY <1>2, <2>1, <2>2 DEF GetFirst, FirstUnclaimed
<1>3. ASSUME NEW w \in Worker, Unlink(w) PROVE OwnedOnce'
  <2>1. item[w] \in ToSet(ready) /\ item[w] \in Item /\ pc[w] = "running"
    BY <1>3, ItemInHand DEF Unlink, WorkerGoes, InHand
  <2>2. Linked' = Linked \ {item[w]}
    BY <1>3, <2>1, RemoveFirstElements DEF Unlink, TypeOK, ReadyInv, Linked
  <2>3. UNCHANGED <<item, inUse>> /\ \E x \in {"freeing", "finishing"} : pc' = [pc EXCEPT ![w] = x]
    BY <1>3 DEF Unlink, WorkerGoes
  <2>4. \A v \in Worker : pc'[v] \in InHand <=> pc[v] \in InHand
    BY <2>1, <2>3 DEF TypeOK, InHand
  <2>5. \A v \in Worker : pc'[v] = "running" <=> pc[v] = "running" /\ v # w
    BY <2>1, <2>3 DEF TypeOK
  <2>6. \A v \in Worker : v # w => item[v] # item[w]
    BY <2>1, WorkQueueAssumption DEF OwnedOnce
  <2>7. \A i \in Item : (i \in Linked' \cap inUse') <=>
                        (\E v \in Worker : pc'[v] = "running" /\ item'[v] = i)
    BY <2>1, <2>2, <2>3, <2>5, <2>6 DEF OwnedOnce
  <2> QED BY <2>3, <2>4, <2>7 DEF OwnedOnce
<1>4. ASSUME NEW w \in Worker, FreeItem(w) \/ UnlockDone(w) PROVE OwnedOnce'
  <2>1. /\ pc[w] # "running"
        /\ pc' = [pc EXCEPT ![w] = "loop"]
        /\ item' = [item EXCEPT ![w] = None]
        /\ UNCHANGED <<ready, inUse>>
    BY <1>4 DEF FreeItem, UnlockDone, WorkerGoes, listVars
  <2>2. \A v \in Worker : pc'[v] = "running" <=> pc[v] = "running"
    BY <2>1 DEF TypeOK
  <2>3. \A v \in Worker : pc[v] = "running" => item'[v] = item[v]
    BY <2>1 DEF TypeOK
  <2>4. \A v \in Worker : pc'[v] \in InHand <=> item'[v] # None
    BY <2>1 DEF OwnedOnce, TypeOK, InHand
  <2>5. \A u, v \in Worker : item'[u] # None /\ item'[u] = item'[v] => u = v
    BY <2>1 DEF OwnedOnce, TypeOK
  <2> QED BY <2>1, <2>2, <2>3, <2>4, <2>5 DEF OwnedOnce, Linked
<1>5. ASSUME NEW w \in Worker, LinkDone(w) PROVE OwnedOnce'
  <2>1. /\ pc[w] = "finishing"
        /\ pc' = [pc EXCEPT ![w] = "unlocking"]
        /\ inUse' = inUse \ {item[w]}
        /\ UNCHANGED <<ready, item>>
    BY <1>5 DEF LinkDone, WorkerGoes
  <2>2. Linked' \cap inUse' = Linked \cap inUse
    BY <2>1 DEF HandInv, Linked
  <2>3. \A v \in Worker : pc'[v] = "running" <=> pc[v] = "running"
    BY <2>1 DEF TypeOK
  <2>4. \A v \in Worker : pc'[v] \in InHand <=> pc[v] \in InHand
    BY <2>1 DEF TypeOK, InHand
  <2> QED BY <2>1, <2>2, <2>3, <2>4 DEF OwnedOnce
<1>6. ASSUME NEW w \in Worker,
             Spawn(w) \/ StartThread(w) \/ LoopTest(w) \/ SemWait(w) \/ ExitTest(w)
      PROVE  OwnedOnce'
  <2>1. /\ pc[w] \notin InHand
        /\ \E x \in WorkerPc \ InHand : pc' = [pc EXCEPT ![w] = x]
        /\ UNCHANGED <<ready, inUse, item>>
    BY <1>6 DEF Spawn, StartThread, LoopTest, SemWait, ExitTest, WorkerGoes,
       WorkerPc, InHand, listVars
  <2>2. \A v \in Worker : (pc'[v] \in InHand <=> pc[v] \in InHand)
                         /\ (pc'[v] = "running" <=> pc[v] = "running")
    BY <2>1 DEF TypeOK, InHand
  <2> QED BY <2>1, <2>2 DEF OwnedOnce, Linked
<1>7. ASSUME InitLists \/ EmptyReadyList PROVE OwnedOnce'
  <2>1. UNCHANGED <<ready, inUse, item, pc>>
    BY <1>7, EmptyBefore DEF InitLists, EmptyReadyList
  <2> QED BY <2>1 DEF OwnedOnce, Linked
<1>8. ASSUME UNCHANGED <<ready, inUse, item, pc>> PROVE OwnedOnce'
  BY <1>8 DEF OwnedOnce, Linked
<1> QED BY <1>1, <1>2, <1>3, <1>4, <1>5, <1>6, <1>7, <1>8
  DEF Next, MainStep, WorkerStep, Failure, Ended, vars, listVars, poolVars, walkVars,
      MainQueues, CallbackQueues, PostReady, Crash, CallbackExits,
      Produced, FindFailed, Poll, StartCompare, Succeeded, CleanChecks,
      CleanFrees, CleanEnds, PoolExit, QueueExit, PostExit, PostsDone,
      JoinAll, MainExits

(* Tokens are what is left of unclaimed entries: none of these, none of    *)
(* those.                                                                  *)
LEMMA EmptyIsQuiet ==
  ASSUME IInv, ~tpExit, Unclaimed = {}
  PROVE  /\ sem = 0 /\ Posting = {}
         /\ \A w \in Worker : pc[w] \notin {"woken", "first"}
         /\ ready = <<>> => \A w \in Worker : pc[w] # "running"
<1>1. IsFiniteSet(Holding) /\ IsFiniteSet(Posting)
  <2>1. IsFiniteSet(Worker) /\ IsFiniteSet(Proc)
    BY WorkQueueAssumption, FS_AddElement
  <2>2. Holding \subseteq Worker /\ Posting \subseteq Proc
    BY DEF Holding, Posting
  <2> QED BY <2>1, <2>2, FS_Subset
<1>2. Cardinality(Holding) \in Nat /\ Cardinality(Posting) \in Nat
  BY <1>1, FS_CardinalityType
<1>3. sem + Cardinality(Holding) + Cardinality(Posting) = 0
  BY FS_EmptySet DEF IInv, TokensMatchWork
<1>4. sem = 0 /\ Cardinality(Holding) = 0 /\ Cardinality(Posting) = 0
  BY <1>2, <1>3 DEF IInv, TypeOK
<1>5. Holding = {} /\ Posting = {}
  BY <1>1, <1>4, FS_EmptySet
<1>6. ASSUME ready = <<>>, NEW w \in Worker PROVE pc[w] # "running"
  BY <1>6, ItemInHand DEF InHand, ToSet
<1> QED BY <1>4, <1>5, <1>6 DEF Holding

(* Every step keeps tokens and unclaimed entries in balance.               *)
LEMMA TokensStep == ASSUME IInv, [Next]_vars PROVE TokensMatchWork'
<1> USE DEF IInv
<1> SUFFICES ASSUME ~tpExit' PROVE
      sem' + Cardinality(Holding') + Cardinality(Posting') = Cardinality(Unclaimed')
  BY DEF TokensMatchWork
<1> DEFINE Balance ==
      sem' + Cardinality(Holding') + Cardinality(Posting') = Cardinality(Unclaimed')
<1>a. /\ IsFiniteSet(Holding) /\ IsFiniteSet(Posting) /\ IsFiniteSet(Unclaimed)
  <2>1. IsFiniteSet(Worker) /\ IsFiniteSet(Proc) /\ IsFiniteSet(Item)
    BY WorkQueueAssumption, FS_AddElement, FS_Union
  <2>2. Holding \subseteq Worker /\ Posting \subseteq Proc /\ Unclaimed \subseteq Item
    BY DEF Holding, Posting, Unclaimed, Linked, ToSet, TypeOK
  <2> QED BY <2>1, <2>2, FS_Subset
<1>b. /\ Cardinality(Holding) \in Nat /\ Cardinality(Posting) \in Nat
      /\ Cardinality(Unclaimed) \in Nat /\ sem \in Nat
  BY <1>a, FS_CardinalityType DEF TypeOK
<1>c. ~tpExit =>
        sem + Cardinality(Holding) + Cardinality(Posting) = Cardinality(Unclaimed)
  BY DEF TokensMatchWork
<1>1. ASSUME NEW p \in Proc, NEW i \in Item, LinkReady(p, i) PROVE Balance
  <2>1. i \notin Linked
    BY <1>1 DEF LinkReady, ReadyInv
  <2>2. Unclaimed' = Unclaimed \cup {i} /\ i \notin Unclaimed
    BY <1>1, <2>1, AppendElements DEF LinkReady, TypeOK, Unclaimed, Linked
  <2>3. Posting' = Posting \cup {p} /\ p \notin Posting
    BY <1>1, WorkQueueAssumption DEF LinkReady, TypeOK, Posting
  <2>4. UNCHANGED <<Holding, sem, tpExit>>
    BY <1>1 DEF LinkReady, Holding, poolVars
  <2>5. /\ Cardinality(Unclaimed') = Cardinality(Unclaimed) + 1
        /\ Cardinality(Posting') = Cardinality(Posting) + 1
    BY <1>a, <2>2, <2>3, FS_AddElement
  <2> QED BY <1>b, <1>c, <2>4, <2>5
<1>2. ASSUME NEW p \in Proc, PostReady(p) PROVE Balance
  <2>1. Posting' = Posting \ {p} /\ p \in Posting
    BY <1>2 DEF PostReady, TypeOK, Posting
  <2>2. Cardinality(Posting') = Cardinality(Posting) - 1
    BY <1>a, <2>1, FS_RemoveElement
  <2>3. UNCHANGED <<Holding, Unclaimed, tpExit>> /\ sem' = sem + 1
    BY <1>2 DEF PostReady, Holding, Unclaimed, Linked, listVars, poolVars
  <2> QED BY <1>b, <1>c, <2>2, <2>3
<1>3. ASSUME NEW w \in Worker, SemWait(w) PROVE Balance
  <2>1. Holding' = Holding \cup {w} /\ w \notin Holding
    BY <1>3 DEF SemWait, WorkerGoes, TypeOK, Holding
  <2>2. Cardinality(Holding') = Cardinality(Holding) + 1
    BY <1>a, <2>1, FS_AddElement
  <2>3. UNCHANGED <<Posting, Unclaimed, tpExit>> /\ sem' = sem - 1
    BY <1>3 DEF SemWait, Posting, Unclaimed, Linked, listVars, poolVars
  <2> QED BY <1>b, <1>c, <2>2, <2>3
<1>4. ASSUME NEW w \in Worker, GetFirst(w) PROVE Balance
  <2>1. ~tpExit /\ w \in Holding /\ Unclaimed # {}
    BY <1>4, EmptyIsQuiet DEF GetFirst, NoWorkAfterExit, Holding
  <2>2. PICK k \in DOMAIN ready :
          /\ ready[k] \notin inUse
          /\ inUse' = inUse \cup {ready[k]}
          /\ pc' = [pc EXCEPT ![w] = "running"]
    BY <1>4, <2>1 DEF GetFirst, FirstUnclaimed
  <2>3. Holding' = Holding \ {w}
    BY <2>2 DEF Holding, TypeOK
  <2>4. ready[k] \in Unclaimed /\ Unclaimed' = Unclaimed \ {ready[k]}
    BY <1>4, <2>2 DEF GetFirst, Unclaimed, Linked, ToSet
  <2>5. /\ Cardinality(Holding') = Cardinality(Holding) - 1
        /\ Cardinality(Unclaimed') = Cardinality(Unclaimed) - 1
    BY <1>a, <2>1, <2>3, <2>4, FS_RemoveElement
  <2>6. UNCHANGED <<Posting, sem>>
    BY <1>4 DEF GetFirst, Posting
  <2> QED BY <1>b, <1>c, <2>1, <2>5, <2>6
<1>5. ASSUME NEW w \in Worker, Unlink(w) PROVE Balance
  <2>1. item[w] \in ToSet(ready) /\ item[w] \in inUse
    BY <1>5, ItemInHand DEF Unlink, WorkerGoes, InHand
  <2>2. Linked' = Linked \ {item[w]}
    BY <1>5, <2>1, RemoveFirstElements DEF Unlink, TypeOK, ReadyInv, Linked
  <2>3. Unclaimed' = Unclaimed
    BY <1>5, <2>1, <2>2 DEF Unlink, Unclaimed
  <2>4. Holding' = Holding
    BY <1>5 DEF Unlink, WorkerGoes, Holding, TypeOK
  <2>5. UNCHANGED <<Posting, sem, tpExit>>
    BY <1>5 DEF Unlink, Posting, poolVars
  <2> QED BY <1>c, <2>3, <2>4, <2>5
<1>6. ASSUME NEW w \in Worker, LinkDone(w) PROVE Balance
  <2>1. Unclaimed' = Unclaimed
    BY <1>6 DEF LinkDone, WorkerGoes, HandInv, Unclaimed, Linked
  <2>2. Holding' = Holding
    BY <1>6 DEF LinkDone, WorkerGoes, Holding, TypeOK
  <2>3. UNCHANGED <<Posting, sem, tpExit>>
    BY <1>6 DEF LinkDone, Posting, poolVars
  <2> QED BY <1>c, <2>1, <2>2, <2>3
<1>7. ASSUME NEW w \in Worker,
             \/ Spawn(w) \/ StartThread(w) \/ LoopTest(w) \/ ExitTest(w)
             \/ FreeItem(w) \/ UnlockDone(w)
      PROVE  Balance
  <2>1. UNCHANGED <<ready, inUse, sem, adding, tpExit>>
    BY <1>7 DEF Spawn, StartThread, LoopTest, ExitTest, FreeItem, UnlockDone,
       listVars, poolVars
  <2>2. Holding' = Holding
    <3>1. ~wqExit
      BY <2>1 DEF ExitInv
    <3>2. CASE ExitTest(w)
      BY <3>1, <3>2 DEF ExitTest, WorkerGoes, Holding, TypeOK
    <3>3. CASE Spawn(w) \/ StartThread(w) \/ LoopTest(w) \/ FreeItem(w) \/ UnlockDone(w)
      BY <3>3 DEF Spawn, StartThread, LoopTest, FreeItem, UnlockDone,
         WorkerGoes, Holding, TypeOK
    <3> QED BY <1>7, <3>2, <3>3
  <2> QED BY <1>c, <2>1, <2>2 DEF Posting, Unclaimed, Linked
<1>8. ASSUME InitLists \/ EmptyReadyList PROVE Balance
  <2>1. UNCHANGED <<ready, inUse, sem, pc, adding, tpExit>>
    BY <1>8, EmptyBefore DEF InitLists, EmptyReadyList, poolVars
  <2> QED BY <1>c, <2>1 DEF Holding, Posting, Unclaimed, Linked
<1>9. ASSUME PostExit PROVE FALSE
  BY <1>9 DEF PostExit, ExitInv, Exiting
<1>10. ASSUME UNCHANGED <<ready, inUse, sem, pc, adding, tpExit>> PROVE Balance
  BY <1>c, <1>10 DEF Holding, Posting, Unclaimed, Linked
<1> QED BY <1>1, <1>2, <1>3, <1>4, <1>5, <1>6, <1>7, <1>8, <1>9, <1>10
  DEF Next, MainStep, WorkerStep, Failure, Ended, vars, listVars, poolVars, walkVars,
      MainQueues, CallbackQueues, Crash, CallbackExits, Produced,
      FindFailed, Poll, StartCompare, Succeeded, CleanChecks, CleanFrees,
      CleanEnds, PoolExit, QueueExit, PostsDone, JoinAll, MainExits

(* Every step after an empty ready list was seen leaves the queue quiet.   *)
LEMMA QuietStep == ASSUME IInv, [Next]_vars PROVE StaysQuiet'
<1> USE DEF IInv
<1> DEFINE Stage == {"findDone", "compareDone"} \cup Shutdown
           Quiet == /\ ready = <<>>
                    /\ \A w \in Worker : pc[w] \notin {"first", "running"}
                    /\ Posting = {}
<1> SUFFICES ASSUME mpc' \in Stage PROVE Quiet'
  BY DEF StaysQuiet
<1>1. CASE Poll \/ CleanChecks
  <2>1. ~tpExit /\ ready = <<>> /\ UNCHANGED <<ready, pc, adding>>
    BY <1>1 DEF Poll, CleanChecks, MainGoes, ExitInv, Exiting, Dead, Shutdown, listVars
  <2>2. Unclaimed = {}
    BY <2>1 DEF Unclaimed, Linked, ToSet
  <2> QED BY <2>1, <2>2, EmptyIsQuiet DEF Posting
<1>2. CASE mpc \in Stage
  <2>a. Quiet
    BY <1>2 DEF StaysQuiet
  <2>b. \A w \in Worker : pc[w] = "woken" => wqExit
    <3>1. CASE ~tpExit
      <4>1. Unclaimed = {}
        BY <2>a DEF Unclaimed, Linked, ToSet
      <4> QED BY <3>1, <4>1, EmptyIsQuiet
    <3>2. CASE tpExit
      BY <3>2 DEF ExitInv
    <3> QED BY <3>1, <3>2
  <2>1. ASSUME NEW p \in Proc, PostReady(p) PROVE FALSE
    BY <2>a, <2>1 DEF PostReady, Posting
  <2>2. ASSUME NEW i \in Item, MainQueues(i) PROVE FALSE
    BY <1>2, <2>2 DEF MainQueues, Shutdown
  <2>3. ASSUME NEW w \in Worker,
               \/ \E i \in Item : CallbackQueues(w, i)
               \/ GetFirst(w) \/ Unlink(w)
        PROVE  FALSE
    BY <2>a, <2>3 DEF CallbackQueues, GetFirst, Unlink, WorkerGoes
  <2>4. ASSUME NEW w \in Worker, ExitTest(w) PROVE Quiet'
    BY <2>a, <2>b, <2>4 DEF ExitTest, WorkerGoes, TypeOK, Posting, listVars
  <2>5. ASSUME NEW w \in Worker,
               \/ Spawn(w) \/ StartThread(w) \/ LoopTest(w) \/ SemWait(w)
               \/ FreeItem(w) \/ LinkDone(w) \/ UnlockDone(w)
        PROVE  Quiet'
    BY <2>a, <2>5 DEF Spawn, StartThread, LoopTest, SemWait, FreeItem, LinkDone,
       UnlockDone, WorkerGoes, TypeOK, Posting, listVars
  <2>6. CASE InitLists \/ EmptyReadyList
    BY <2>a, <2>6 DEF InitLists, EmptyReadyList, Posting
  <2>7. CASE UNCHANGED <<ready, pc, adding>>
    BY <2>a, <2>7 DEF Posting
  <2> HIDE DEF Quiet, Stage
  <2> QED BY <2>1, <2>2, <2>3, <2>4, <2>5, <2>6, <2>7
    DEF Next, MainStep, WorkerStep, Failure, Ended, vars, listVars, Crash,
        CallbackExits, Produced, FindFailed, Poll, StartCompare, Succeeded,
        CleanChecks, CleanFrees, CleanEnds, PoolExit, QueueExit, PostExit,
        PostsDone, JoinAll, MainExits
<1>3. CASE mpc \notin Stage /\ mpc' = mpc
  BY <1>3
<1>4. CASE \E w \in Worker : GetFirst(w) \/ Crash(w) \/ CallbackExits(w)
  BY <1>4, <1>3, <1>2 DEF GetFirst, Crash, CallbackExits, Shutdown
<1> QED BY <1>1, <1>2, <1>3, <1>4
  DEF Next, MainStep, WorkerStep, Failure, Ended, vars, listVars, poolVars, walkVars,
      MainQueues, CallbackQueues, Spawn, InitLists, PostReady,
      StartThread, LoopTest, SemWait, ExitTest, Unlink, FreeItem,
      LinkDone, UnlockDone, Produced, FindFailed, StartCompare,
      EmptyReadyList, Succeeded, CleanFrees, CleanEnds, PoolExit,
      QueueExit, PostExit, PostsDone, JoinAll, MainExits, LinkReady,
      MainGoes, WorkerGoes, Shutdown

(* Every step after the exit flags leaves the ready list empty.            *)
LEMMA NoWorkStep == ASSUME IInv, [Next]_vars PROVE NoWorkAfterExit'
<1> USE DEF IInv
<1> SUFFICES ASSUME tpExit'
             PROVE  ready' = <<>> /\ \A w \in Worker : pc'[w] # "first"
  BY DEF NoWorkAfterExit
<1>1. CASE PoolExit
  BY <1>1 DEF PoolExit, MainGoes, StaysQuiet, Shutdown, listVars
<1>2. CASE ~PoolExit
  <2>1. tpExit
    BY <1>2 DEF Next, MainStep, WorkerStep, Failure, Ended, vars, poolVars, Spawn,
       InitLists, MainQueues, CallbackQueues, LinkReady, PostReady,
       StartThread, LoopTest, SemWait, ExitTest, GetFirst, Unlink, FreeItem,
       LinkDone, UnlockDone, Crash, CallbackExits, Produced, FindFailed, Poll,
       StartCompare, EmptyReadyList, Succeeded, CleanChecks, CleanFrees,
       CleanEnds, QueueExit, PostExit, PostsDone, JoinAll, MainExits
  <2>2. ready = <<>> /\ \A w \in Worker : pc[w] # "first"
    BY <2>1 DEF NoWorkAfterExit
  <2>3. mpc \in Exiting \cup Dead
    BY <2>1 DEF ExitInv
  <2>4. Alive => \A w \in Worker : pc[w] # "running"
    BY <2>3 DEF StaysQuiet, Alive, Exiting, Dead, Shutdown
  <2>5. ASSUME NEW p \in Proc, NEW i \in Item, MainQueues(i) PROVE FALSE
    BY <2>3, <2>5 DEF MainQueues, Exiting, Dead
  <2>6. ASSUME NEW w \in Worker,
               \/ \E i \in Item : CallbackQueues(w, i)
               \/ GetFirst(w) \/ Unlink(w)
        PROVE  FALSE
    BY <2>2, <2>4, <2>6 DEF CallbackQueues, GetFirst, Unlink, WorkerGoes
  <2>7. ASSUME NEW w \in Worker, ExitTest(w)
        PROVE  ready' = <<>> /\ \A v \in Worker : pc'[v] # "first"
    BY <2>1, <2>2, <2>7 DEF ExitTest, WorkerGoes, ExitInv, TypeOK, listVars
  <2>8. ASSUME NEW w \in Worker,
               \/ Spawn(w) \/ StartThread(w) \/ LoopTest(w) \/ SemWait(w)
               \/ FreeItem(w) \/ LinkDone(w) \/ UnlockDone(w)
        PROVE  ready' = <<>> /\ \A v \in Worker : pc'[v] # "first"
    BY <2>2, <2>8 DEF Spawn, StartThread, LoopTest, SemWait, FreeItem, LinkDone,
       UnlockDone, WorkerGoes, TypeOK, listVars
  <2>9. CASE InitLists \/ EmptyReadyList
    BY <2>2, <2>9 DEF InitLists, EmptyReadyList
  <2>10. CASE UNCHANGED <<ready, pc>>
    BY <2>2, <2>10
  <2> QED BY <2>5, <2>6, <2>7, <2>8, <2>9, <2>10, WorkQueueAssumption
    DEF Next, MainStep, WorkerStep, Failure, Ended, vars, listVars, PostReady, Crash,
        CallbackExits, Produced, FindFailed, Poll, StartCompare, Succeeded,
        CleanChecks, CleanFrees, CleanEnds, PoolExit, QueueExit, PostExit,
        PostsDone, JoinAll, MainExits
<1> QED BY <1>1, <1>2

(* Every step of the compare stage keeps find items out of it.             *)
LEMMA LateStep == ASSUME IInv, [Next]_vars PROVE NoLateFind'
<1> USE DEF IInv
<1> DEFINE Stage == {"compare", "comparePoll", "compareDone"}
           NoFind == /\ Linked \cap FindItem = {}
                     /\ \A w \in Worker : pc[w] = "running" => item[w] \in CompareItem
<1> SUFFICES ASSUME mpc' \in Stage PROVE NoFind'
  BY DEF NoLateFind
<1>1. CASE StartCompare
  BY <1>1 DEF StartCompare, MainGoes, StaysQuiet, Linked, ToSet, listVars
<1>2. CASE mpc \in Stage
  <2>a. NoFind
    BY <1>2 DEF NoLateFind
  <2>1. ASSUME NEW i \in Item, MainQueues(i) PROVE NoFind'
    <3>1. i \in CompareItem /\ LinkReady(Main, i)
      BY <1>2, <2>1 DEF MainQueues
    <3>2. Linked' = Linked \cup {i} /\ UNCHANGED <<pc, item>>
      BY <3>1, AppendElements DEF LinkReady, TypeOK, Linked
    <3> QED BY <2>a, <3>1, <3>2, WorkQueueAssumption
  <2>2. ASSUME NEW w \in Worker, NEW i \in Item, CallbackQueues(w, i) PROVE FALSE
    BY <2>a, <2>2, WorkQueueAssumption DEF CallbackQueues
  <2>3. ASSUME NEW w \in Worker, GetFirst(w) PROVE NoFind'
    <3>1. CASE UNCHANGED item /\ pc' = [pc EXCEPT ![w] = "loop"]
      BY <2>a, <2>3, <3>1 DEF GetFirst, TypeOK, Linked
    <3>2. ASSUME NEW k \in DOMAIN ready,
                 item' = [item EXCEPT ![w] = ready[k]],
                 pc' = [pc EXCEPT ![w] = "running"]
          PROVE  NoFind'
      <4>1. ready[k] \in CompareItem
        BY <2>a DEF Linked, ToSet, TypeOK
      <4> QED BY <2>a, <2>3, <3>2, <4>1 DEF GetFirst, TypeOK, Linked
    <3> QED BY <2>3, <3>1, <3>2 DEF GetFirst
  <2>4. ASSUME NEW w \in Worker, Unlink(w) PROVE NoFind'
    <3>1. item[w] \in ToSet(ready)
      BY <2>4, ItemInHand DEF Unlink, WorkerGoes, InHand
    <3>2. Linked' \subseteq Linked
      BY <2>4, <3>1, RemoveFirstElements DEF Unlink, TypeOK, ReadyInv, Linked
    <3>3. \A v \in Worker : pc'[v] = "running" => pc[v] = "running" /\ item'[v] = item[v]
      BY <2>4 DEF Unlink, WorkerGoes, TypeOK
    <3> QED BY <2>a, <3>2, <3>3
  <2>5. ASSUME NEW w \in Worker,
               \/ Spawn(w) \/ StartThread(w) \/ LoopTest(w) \/ SemWait(w)
               \/ ExitTest(w) \/ FreeItem(w) \/ LinkDone(w) \/ UnlockDone(w)
        PROVE  NoFind'
    <3>1. ready' = ready
      BY <2>5 DEF Spawn, StartThread, LoopTest, SemWait, ExitTest, FreeItem,
         LinkDone, UnlockDone, listVars
    <3>2. \A v \in Worker : pc'[v] = "running" => pc[v] = "running" /\ item'[v] = item[v]
      BY <2>5 DEF Spawn, StartThread, LoopTest, SemWait, ExitTest, FreeItem,
         LinkDone, UnlockDone, WorkerGoes, TypeOK
    <3> QED BY <2>a, <3>1, <3>2 DEF Linked
  <2>6. CASE InitLists \/ EmptyReadyList
    BY <2>a, <2>6, EmptyBefore DEF InitLists, EmptyReadyList, Linked
  <2>7. CASE UNCHANGED <<ready, pc, item>>
    BY <2>a, <2>7 DEF Linked
  <2> HIDE DEF NoFind, Stage
  <2> QED BY <2>1, <2>2, <2>3, <2>4, <2>5, <2>6, <2>7
    DEF Next, MainStep, WorkerStep, Failure, Ended, vars, listVars, PostReady, Crash,
        CallbackExits, Produced, FindFailed, Poll, StartCompare, Succeeded,
        CleanChecks, CleanFrees, CleanEnds, PoolExit, QueueExit, PostExit,
        PostsDone, JoinAll, MainExits
<1>3. CASE mpc \notin Stage /\ mpc' = mpc
  BY <1>3
<1>4. CASE \E w \in Worker : GetFirst(w) \/ Crash(w) \/ CallbackExits(w)
  BY <1>4, <1>3, <1>2 DEF GetFirst, Crash, CallbackExits
<1> QED BY <1>1, <1>2, <1>3, <1>4
  DEF Next, MainStep, WorkerStep, Failure, Ended, vars, listVars, poolVars, walkVars,
      MainQueues, CallbackQueues, Spawn, InitLists, PostReady,
      StartThread, LoopTest, SemWait, ExitTest, Unlink, FreeItem,
      LinkDone, UnlockDone, Produced, FindFailed, Poll, EmptyReadyList,
      Succeeded, CleanChecks, CleanFrees, CleanEnds, PoolExit, QueueExit,
      PostExit, PostsDone, JoinAll, MainExits, LinkReady, MainGoes,
      WorkerGoes

(* Every step before work_queue_init returns leaves the lists empty.       *)
LEMMA SpawnStep == ASSUME IInv, [Next]_vars PROVE SpawnInv'
<1> USE DEF IInv
<1> DEFINE Quiet == /\ ready = <<>> /\ done = <<>>
                    /\ \A w \in Worker : pc[w] \in {"absent", "created", "loop", "wait"}
<1> SUFFICES ASSUME mpc' = "spawn" PROVE Quiet'
  BY DEF SpawnInv
<1>1. mpc = "spawn"
  BY DEF Next, MainStep, WorkerStep, Failure, Ended, vars, MainGoes, Spawn, InitLists,
     MainQueues, CallbackQueues, LinkReady, PostReady, StartThread, LoopTest,
     SemWait, ExitTest, GetFirst, Unlink, FreeItem, LinkDone, UnlockDone,
     Crash, CallbackExits, Produced, FindFailed, Poll, StartCompare,
     EmptyReadyList, Succeeded, CleanChecks, CleanFrees, CleanEnds, PoolExit,
     QueueExit, PostExit, PostsDone, JoinAll, MainExits
<1>2. Quiet /\ ~tpExit
  BY <1>1 DEF SpawnInv, ExitInv, Exiting, Dead
<1>3. sem = 0 /\ Posting = {}
  BY <1>2, EmptyIsQuiet DEF Unclaimed, Linked, ToSet
<1>4. ASSUME NEW w \in Worker,
             Spawn(w) \/ StartThread(w) \/ LoopTest(w)
      PROVE  Quiet'
  BY <1>2, <1>4 DEF Spawn, StartThread, LoopTest, WorkerGoes, TypeOK, listVars
<1>5. ASSUME NEW w \in Worker,
             \/ SemWait(w) \/ ExitTest(w) \/ GetFirst(w) \/ Unlink(w)
             \/ FreeItem(w) \/ LinkDone(w) \/ UnlockDone(w) \/ Crash(w)
             \/ CallbackExits(w) \/ \E i \in Item : CallbackQueues(w, i)
      PROVE  FALSE
  BY <1>2, <1>3, <1>5 DEF SemWait, ExitTest, GetFirst, Unlink, FreeItem, LinkDone,
     UnlockDone, Crash, TouchesFreed, CallbackExits, CallbackQueues, WorkerGoes, TypeOK
<1>6. ASSUME NEW p \in Proc, PostReady(p) PROVE FALSE
  BY <1>3, <1>6 DEF PostReady, Posting
<1>7. CASE UNCHANGED <<ready, done, pc>>
  BY <1>2, <1>7
<1> HIDE DEF Quiet
<1> QED BY <1>1, <1>4, <1>5, <1>6, <1>7
  DEF Next, MainStep, WorkerStep, Failure, Ended, vars, MainGoes, InitLists, MainQueues,
      Produced, FindFailed, Poll, StartCompare, EmptyReadyList, Succeeded,
      CleanChecks, CleanFrees, CleanEnds, PoolExit, QueueExit, PostExit,
      PostsDone, JoinAll, MainExits

(* Every step keeps the exit flags in line with main.                      *)
LEMMA ExitStep == ASSUME IInv, [Next]_vars PROVE ExitInv'
<1> USE DEF IInv
<1>1. CASE PoolExit
  <2>1. ~tpExit /\ ready = <<>>
    BY <1>1 DEF PoolExit, MainGoes, ExitInv, Exiting, Dead, StaysQuiet, Shutdown
  <2>2. sem = 0 /\ \A w \in Worker : pc[w] # "woken"
    BY <2>1, EmptyIsQuiet DEF Unclaimed, Linked, ToSet
  <2> QED BY <1>1, <2>2 DEF PoolExit, MainGoes, ExitInv, Exiting, Dead
<1>2. CASE QueueExit \/ PostExit
  BY <1>2 DEF QueueExit, PostExit, MainGoes, ExitInv, Exiting, Dead, poolVars
<1>3. ASSUME NEW p \in Proc, PostReady(p) PROVE ExitInv'
  <2>1. mpc \notin Shutdown /\ Alive
    BY <1>3 DEF PostReady, StaysQuiet, Posting
  <2>2. ~tpExit
    BY <2>1 DEF ExitInv, Alive, Exiting, Dead, Shutdown
  <2> QED BY <1>3, <2>2 DEF PostReady, ExitInv, poolVars
<1>4. ASSUME NEW w \in Worker,
             \/ Spawn(w) \/ StartThread(w) \/ LoopTest(w) \/ SemWait(w)
             \/ ExitTest(w) \/ Unlink(w) \/ FreeItem(w) \/ LinkDone(w)
             \/ UnlockDone(w)
      PROVE  ExitInv'
  <2>1. UNCHANGED <<mpc, tpExit, wqExit>>
    BY <1>4 DEF Spawn, StartThread, LoopTest, SemWait, ExitTest, Unlink,
       FreeItem, LinkDone, UnlockDone, poolVars
  <2>2. ASSUME tpExit, ~wqExit
        PROVE  sem' = 0 /\ \A v \in Worker : pc'[v] # "woken"
    <3>1. ~SemWait(w)
      BY <2>2 DEF SemWait, ExitInv
    <3> QED BY <1>4, <2>2, <3>1 DEF Spawn, StartThread, LoopTest, ExitTest,
         Unlink, FreeItem, LinkDone, UnlockDone, WorkerGoes, ExitInv, TypeOK
  <2> QED BY <2>1, <2>2 DEF ExitInv
<1>5. ASSUME NEW w \in Worker, GetFirst(w) PROVE ExitInv'
  <2>1. ~tpExit
    BY <1>5 DEF GetFirst, NoWorkAfterExit
  <2> QED BY <1>5, <2>1 DEF GetFirst, ExitInv, Exiting, Dead, poolVars
<1>6. CASE /\ UNCHANGED <<sem, pc, tpExit, wqExit>>
           /\ \/ mpc' = mpc
              \/ mpc' \in Dead
              \/ mpc \notin Exiting \cup Dead /\ mpc' \notin Exiting
              \/ mpc = "posting" /\ mpc' = "join"
              \/ mpc = "join" /\ mpc' = "deleted"
  BY <1>6 DEF ExitInv, Exiting, Dead
<1> QED BY <1>1, <1>2, <1>3, <1>4, <1>5, <1>6
  DEF Next, MainStep, WorkerStep, Failure, Ended, vars, poolVars, MainGoes, InitLists,
      MainQueues, CallbackQueues, LinkReady, Crash, CallbackExits, Produced,
      FindFailed, Poll, StartCompare, EmptyReadyList, Succeeded, CleanChecks,
      CleanFrees, CleanEnds, PostsDone, JoinAll, MainExits, Exiting, Dead

(* Every step keeps what a thread has in hand live and its own.            *)
LEMMA HandStep == ASSUME IInv, [Next]_vars PROVE HandInv'
<1> USE DEF IInv
<1> DEFINE Hands ==
      \A w \in Worker :
        /\ pc[w] \in {"freeing", "finishing", "unlocking"} => item[w] \notin Linked
        /\ pc[w] \in {"finishing", "unlocking"} => item[w] \in CompareItem
        /\ pc[w] = "freeing" => item[w] \in FindItem
        /\ item[w] # None => heap[item[w]] # "unborn"
        /\ pc[w] \in {"running", "freeing", "finishing"} => heap[item[w]] = "live"
        /\ adding[w] # None => pc[w] = "running" /\ item[w] \in FindItem
    MainPosts == adding[Main] # None => mpc \in {"find", "compare"} \cup Dead
<1>a. Hands /\ MainPosts
  BY DEF HandInv
<1>b. \A w \in Worker : pc[w] \in InHand <=> item[w] # None
  BY DEF OwnedOnce
<1>c. \A v, w \in Worker : item[v] # None /\ item[v] = item[w] => v = w
  BY DEF OwnedOnce
<1>1. Hands'
  <2>1. ASSUME NEW p \in Proc, NEW i \in Item, LinkReady(p, i),
               p \in Worker => pc[p] = "running" /\ item[p] \in FindItem
        PROVE  Hands'
    <3>1. \A w \in Worker : item[w] # i
      BY <1>a, <2>1, WorkQueueAssumption DEF LinkReady
    <3>2. Linked' = Linked \cup {i}
      BY <2>1, AppendElements DEF LinkReady, TypeOK, Linked
    <3>3. UNCHANGED <<pc, item>> /\ heap' = [heap EXCEPT ![i] = "live"]
          /\ adding' = [adding EXCEPT ![p] = i]
      BY <2>1 DEF LinkReady
    <3>4. \A w \in Worker : item[w] # None => heap'[item[w]] = heap[item[w]]
      BY <3>1, <3>3 DEF TypeOK
    <3>5. \A w \in Worker : adding'[w] # None => pc[w] = "running" /\ item[w] \in FindItem
      BY <1>a, <2>1, <3>3 DEF TypeOK
    <3> QED BY <1>a, <1>b, <3>1, <3>2, <3>3, <3>4, <3>5 DEF InHand
  <2>2. ASSUME NEW p \in Proc, PostReady(p) PROVE Hands'
    <3>1. UNCHANGED <<ready, heap, pc, item>>
      BY <2>2 DEF PostReady, listVars
    <3>2. \A w \in Worker : adding'[w] # None => adding[w] # None
      BY <2>2 DEF PostReady, TypeOK
    <3> QED BY <1>a, <3>1, <3>2 DEF Linked
  <2>3. ASSUME NEW w \in Worker, GetFirst(w) PROVE Hands'
    <3>1. UNCHANGED <<ready, heap, adding>> /\ pc[w] = "first" /\ adding[w] = None
      BY <1>a, <2>3 DEF GetFirst
    <3>2. CASE UNCHANGED item /\ pc' = [pc EXCEPT ![w] = "loop"]
      BY <1>a, <3>1, <3>2 DEF Linked, TypeOK
    <3>3. ASSUME NEW k \in DOMAIN ready,
                 item' = [item EXCEPT ![w] = ready[k]],
                 pc' = [pc EXCEPT ![w] = "running"]
          PROVE  Hands'
      <4>1. ready[k] \in Linked /\ heap[ready[k]] = "live"
        BY DEF Linked, ToSet, ReadyInv
      <4> QED BY <1>a, <3>1, <3>3, <4>1 DEF Linked, TypeOK
    <3> QED BY <2>3, <3>2, <3>3 DEF GetFirst
  <2>4. ASSUME NEW w \in Worker, Unlink(w) PROVE Hands'
    <3>1. item[w] \in ToSet(ready) /\ item[w] \in Item
      BY <2>4, ItemInHand DEF Unlink, WorkerGoes, InHand
    <3>2. Linked' = Linked \ {item[w]}
      BY <2>4, <3>1, RemoveFirstElements DEF Unlink, TypeOK, ReadyInv, Linked
    <3>3. /\ UNCHANGED <<heap, item, adding>> /\ adding[w] = None /\ pc[w] = "running"
          /\ pc' = [pc EXCEPT ![w] =
                      IF item[w] \in FindItem THEN "freeing" ELSE "finishing"]
      BY <2>4 DEF Unlink, WorkerGoes
    <3> QED BY <1>a, <3>1, <3>2, <3>3 DEF TypeOK
  <2>5. ASSUME NEW w \in Worker, FreeItem(w) PROVE Hands'
    <3>1. /\ pc[w] = "freeing" /\ adding[w] = None /\ item[w] \in Item
          /\ UNCHANGED <<ready, adding>>
          /\ pc' = [pc EXCEPT ![w] = "loop"]
          /\ item' = [item EXCEPT ![w] = None]
          /\ heap' = [heap EXCEPT ![item[w]] = "freed"]
      BY <1>a, <2>5 DEF FreeItem, WorkerGoes
    <3>2. ASSUME NEW v \in Worker, item'[v] # None
          PROVE  v # w /\ item'[v] = item[v] /\ heap'[item[v]] = heap[item[v]]
      <4>1. v # w /\ item'[v] = item[v]
        BY <3>1, <3>2 DEF TypeOK
      <4>2. item[v] # item[w]
        BY <1>c, <3>2, <4>1
      <4> QED BY <3>1, <4>1, <4>2 DEF TypeOK
    <3>3. \A v \in Worker : v # w => pc'[v] = pc[v] /\ item'[v] = item[v]
      BY <3>1 DEF TypeOK
    <3>4. pc'[w] = "loop" /\ item'[w] = None
      BY <3>1 DEF TypeOK
    <3>5. Linked' = Linked
      BY <3>1 DEF Linked
    <3> QED BY <1>a, <1>b, <3>1, <3>2, <3>3, <3>4, <3>5 DEF InHand
  <2>6. ASSUME NEW w \in Worker, LinkDone(w) PROVE Hands'
    BY <1>a, <2>6 DEF LinkDone, WorkerGoes, Linked, TypeOK
  <2>7. ASSUME NEW w \in Worker, UnlockDone(w) PROVE Hands'
    BY <1>a, <2>7 DEF UnlockDone, WorkerGoes, Linked, TypeOK, listVars
  <2>8. ASSUME NEW w \in Worker,
               Spawn(w) \/ StartThread(w) \/ LoopTest(w) \/ SemWait(w) \/ ExitTest(w)
        PROVE  Hands'
    <3>1. /\ UNCHANGED <<ready, heap, item, adding>> /\ adding[w] = None
          /\ \E x \in {"created", "loop", "left", "wait", "woken", "first"} :
               pc' = [pc EXCEPT ![w] = x]
      BY <1>a, <2>8 DEF Spawn, StartThread, LoopTest, SemWait, ExitTest,
         WorkerGoes, listVars
    <3> QED BY <1>a, <3>1 DEF Linked, TypeOK
  <2>9. ASSUME CleanFrees PROVE Hands'
    <3>1. done[cursor] \in ToSet(done) \cap Item
      BY <2>9 DEF CleanFrees, DoneInv, TypeOK, ToSet
    <3>2. /\ UNCHANGED <<ready, pc, item, adding>>
          /\ heap' = [heap EXCEPT ![done[cursor]] = "freed"]
      BY <2>9 DEF CleanFrees
    <3>3. \A w \in Worker : pc[w] \in {"running", "freeing", "finishing"} =>
            item[w] # done[cursor] /\ item[w] \in Item
      BY <1>b, <3>1 DEF DoneInv, TypeOK, InHand
    <3>4. \A w \in Worker : pc[w] \in {"running", "freeing", "finishing"} =>
            heap'[item[w]] = heap[item[w]]
      BY <3>2, <3>3 DEF TypeOK
    <3>5. \A w \in Worker : item[w] # None => heap'[item[w]] # "unborn"
      BY <1>a, <3>2 DEF TypeOK
    <3>6. Linked' = Linked
      BY <3>2 DEF Linked
    <3> QED BY <1>a, <3>2, <3>4, <3>5, <3>6
  <2>10. ASSUME InitLists \/ EmptyReadyList PROVE Hands'
    <3>1. ready = <<>> /\ Linked = {}
      BY <2>10, EmptyBefore DEF Linked, ToSet
    <3>2. UNCHANGED <<ready, heap, pc, item, adding>>
      BY <2>10, <3>1 DEF InitLists, EmptyReadyList, TypeOK
    <3> QED BY <1>a, <3>2 DEF Linked
  <2>11. CASE UNCHANGED <<ready, heap, pc, item, adding>>
    BY <1>a, <2>11 DEF Linked
  <2>12. ASSUME NEW i \in Item, MainQueues(i) PROVE Hands'
    BY <2>1, <2>12, WorkQueueAssumption DEF MainQueues
  <2>13. ASSUME NEW w \in Worker, NEW i \in Item, CallbackQueues(w, i) PROVE Hands'
    BY <2>1, <2>13 DEF CallbackQueues
  <2> HIDE DEF Hands
  <2> QED BY <2>2, <2>3, <2>4, <2>5, <2>6, <2>7, <2>8, <2>9, <2>10, <2>11, <2>12, <2>13
    DEF Next, MainStep, WorkerStep, Failure, Ended, vars, listVars, Crash,
        CallbackExits, Produced, FindFailed, Poll, StartCompare, Succeeded,
        CleanChecks, CleanEnds, PoolExit, QueueExit, PostExit, PostsDone,
        JoinAll, MainExits
<1>2. MainPosts'
  <2>1. ASSUME NEW i \in Item, MainQueues(i) PROVE MainPosts'
    BY <2>1 DEF MainQueues, LinkReady
  <2>2. ASSUME NEW w \in Worker, NEW i \in Item, CallbackQueues(w, i) PROVE MainPosts'
    BY <1>a, <2>2, WorkQueueAssumption DEF CallbackQueues, LinkReady, TypeOK
  <2>3. ASSUME NEW p \in Proc, PostReady(p) PROVE MainPosts'
    BY <1>a, <2>3, WorkQueueAssumption DEF PostReady, TypeOK
  <2>4. CASE UNCHANGED adding /\ (mpc' = mpc \/ mpc' \in Dead)
    BY <1>a, <2>4
  <2>5. CASE /\ UNCHANGED adding
             /\ mpc \notin {"find", "compare"} \cup Dead \/ adding[Main] = None
    BY <1>a, <2>5
  <2> HIDE DEF MainPosts
  <2> QED BY <2>1, <2>2, <2>3, <2>4, <2>5, WorkQueueAssumption
    DEF Next, MainStep, WorkerStep, Failure, Ended, vars, MainGoes, Spawn, InitLists,
        StartThread, LoopTest, SemWait, ExitTest, GetFirst, Unlink, FreeItem,
        LinkDone, UnlockDone, Crash, CallbackExits, Produced, FindFailed, Poll,
        StartCompare, EmptyReadyList, Succeeded, CleanChecks, CleanFrees,
        CleanEnds, PoolExit, QueueExit, PostExit, PostsDone, JoinAll,
        MainExits, Dead
<1> QED BY <1>1, <1>2 DEF HandInv

(* Every step keeps the done list fit for main's walk.                     *)
LEMMA DoneStep == ASSUME IInv, [Next]_vars PROVE DoneInv'
<1> USE DEF IInv
<1> DEFINE
    Once == IsInjective(done)
    Off == \A i \in ToSet(done) : i \notin Linked /\ heap[i] # "unborn"
    Given == \A w \in Worker : pc[w] \in {"running", "freeing", "finishing"} =>
               item[w] \notin ToSet(done)
    Kept == mpc \notin Shutdown \cup Dead => \A i \in ToSet(done) : heap[i] = "live"
    Walk == mpc = "walk" /\ cursor # 0 =>
              /\ cursor <= Len(done)
              /\ ahead # 0 => ahead = cursor + 1 /\ ahead <= Len(done)
              /\ \A k \in cursor..Len(done) : heap[done[k]] = "live"
    Parts == Once /\ Off /\ Given /\ Kept /\ Walk
<1>a. Once /\ Off /\ Given /\ Kept /\ Walk
  BY DEF DoneInv
<1>b. done \in Seq(CompareItem) /\ \A k \in 1..Len(done) : done[k] \in ToSet(done)
  BY DEF TypeOK, ToSet
<1>1. ASSUME NEW p \in Proc, NEW i \in Item, LinkReady(p, i) PROVE Parts'
  <2>1. i \notin ToSet(done) /\ \A j \in ToSet(done) : j \in Item /\ heap'[j] = heap[j]
    BY <1>a, <1>1 DEF LinkReady, TypeOK, ToSet
  <2>2. Linked' = Linked \cup {i}
    BY <1>1, AppendElements DEF LinkReady, TypeOK, Linked
  <2>3. UNCHANGED <<done, pc, item, mpc, cursor, ahead>>
    BY <1>1 DEF LinkReady, walkVars
  <2>4. \A k \in cursor..Len(done) : cursor # 0 => done[k] \in ToSet(done)
    BY <1>b DEF TypeOK
  <2> QED BY <1>a, <2>1, <2>2, <2>3, <2>4
<1>2. ASSUME NEW w \in Worker, GetFirst(w) PROVE Parts'
  <2>1. UNCHANGED <<ready, done, heap, cursor, ahead>> /\ (mpc' = mpc \/ mpc' = "aborted")
    BY <1>2 DEF GetFirst, walkVars
  <2>2. Given'
    <3>1. CASE UNCHANGED item /\ pc' = [pc EXCEPT ![w] = "loop"]
      BY <1>a, <2>1, <3>1 DEF TypeOK
    <3>2. ASSUME NEW k \in DOMAIN ready,
                 item' = [item EXCEPT ![w] = ready[k]],
                 pc' = [pc EXCEPT ![w] = "running"]
          PROVE  Given'
      <4>1. ready[k] \notin ToSet(done)
        BY <1>a DEF Linked, ToSet
      <4> QED BY <1>a, <2>1, <3>2, <4>1 DEF TypeOK
    <3> QED BY <1>2, <3>1, <3>2 DEF GetFirst
  <2> QED BY <1>a, <2>1, <2>2 DEF Linked, Dead
<1>3. ASSUME NEW w \in Worker, Unlink(w) PROVE Parts'
  <2>1. item[w] \in ToSet(ready)
    BY <1>3, ItemInHand DEF Unlink, WorkerGoes, InHand
  <2>2. Linked' \subseteq Linked
    BY <1>3, <2>1, RemoveFirstElements DEF Unlink, TypeOK, ReadyInv, Linked
  <2>3. UNCHANGED <<done, heap, item, mpc, cursor, ahead>>
    BY <1>3 DEF Unlink, walkVars
  <2>4. Given'
    BY <1>a, <1>3 DEF Unlink, WorkerGoes, TypeOK
  <2> QED BY <1>a, <2>2, <2>3, <2>4
<1>4. ASSUME NEW w \in Worker, FreeItem(w) PROVE Parts'
  <2>1. /\ item[w] \notin ToSet(done)
        /\ UNCHANGED <<ready, done, mpc, cursor, ahead>>
        /\ heap' = [heap EXCEPT ![item[w]] = "freed"]
    BY <1>a, <1>4 DEF FreeItem, WorkerGoes, walkVars
  <2>2. \A j \in ToSet(done) : heap'[j] = heap[j]
    BY <2>1 DEF TypeOK, ToSet
  <2>3. Given'
    BY <1>a, <1>4 DEF FreeItem, WorkerGoes, TypeOK
  <2>4. \A k \in cursor..Len(done) : cursor # 0 => done[k] \in ToSet(done)
    BY <1>b DEF TypeOK
  <2> QED BY <1>a, <2>1, <2>2, <2>3, <2>4 DEF Linked
<1>5. ASSUME NEW w \in Worker, LinkDone(w) PROVE Parts'
  <2>1. /\ pc[w] = "finishing" /\ pc' = [pc EXCEPT ![w] = "unlocking"]
        /\ done' = Append(done, item[w])
        /\ UNCHANGED <<ready, heap, item, mpc, cursor, ahead>>
    BY <1>5 DEF LinkDone, WorkerGoes, walkVars
  <2>2. /\ item[w] \in CompareItem /\ item[w] \notin ToSet(done)
        /\ item[w] \notin Linked /\ heap[item[w]] = "live"
    BY <1>a, <2>1 DEF HandInv
  <2>3. ToSet(done') = ToSet(done) \cup {item[w]} /\ Once'
    BY <1>a, <2>1, <2>2, AppendElements DEF TypeOK
  <2>4. Off' /\ Kept'
    BY <1>a, <2>1, <2>2, <2>3 DEF Linked
  <2>5. Given'
    <3>1. \A v \in Worker : v # w => pc'[v] = pc[v]
      BY <2>1 DEF TypeOK
    <3>2. pc'[w] = "unlocking"
      BY <2>1 DEF TypeOK
    <3>3. \A v \in Worker : v # w => item[v] # item[w]
      BY <2>2, WorkQueueAssumption DEF OwnedOnce
    <3> QED BY <1>a, <2>1, <2>3, <3>1, <3>2, <3>3
  <2>6. Walk'
    <3>1. /\ Len(done') = Len(done) + 1 /\ done'[Len(done) + 1] = item[w]
          /\ \A k \in 1..Len(done) : done'[k] = done[k]
      BY <2>1, <2>2 DEF TypeOK
    <3>2. Len(done) \in Nat
      BY <1>b
    <3>3. ASSUME NEW k \in cursor..Len(done'), mpc = "walk", cursor # 0
          PROVE  heap[done'[k]] = "live"
      <4>1. CASE k = Len(done) + 1
        BY <2>2, <3>1, <4>1
      <4>2. CASE k # Len(done) + 1
        <5>1. k \in cursor..Len(done) /\ k \in 1..Len(done)
          BY <3>1, <3>2, <3>3, <4>2 DEF TypeOK
        <5> QED BY <1>a, <3>1, <3>3, <5>1
      <4> QED BY <4>1, <4>2
    <3>4. mpc = "walk" /\ cursor # 0 =>
             cursor <= Len(done') /\ (ahead # 0 => ahead = cursor + 1 /\ ahead <= Len(done'))
      BY <1>a, <3>1, <3>2 DEF TypeOK
    <3> QED BY <2>1, <3>3, <3>4
  <2> QED BY <2>3, <2>4, <2>5, <2>6
<1>6. ASSUME NEW w \in Worker,
             \/ Spawn(w) \/ StartThread(w) \/ LoopTest(w) \/ SemWait(w)
             \/ ExitTest(w) \/ UnlockDone(w)
      PROVE  Parts'
  <2>1. UNCHANGED <<ready, done, heap, mpc, cursor, ahead>>
    BY <1>6 DEF Spawn, StartThread, LoopTest, SemWait, ExitTest, UnlockDone,
       listVars, walkVars
  <2>2. Given'
    BY <1>a, <1>6 DEF Spawn, StartThread, LoopTest, SemWait, ExitTest,
       UnlockDone, WorkerGoes, listVars, TypeOK
  <2> QED BY <1>a, <2>1, <2>2 DEF Linked
<1>7. ASSUME CleanChecks PROVE Parts'
  <2>1. ASSUME mpc' = "walk", cursor' # 0
        PROVE  /\ cursor' = 1 /\ done # <<>>
               /\ ahead' = IF Len(done) > 1 THEN 2 ELSE 0
    BY <1>7, <2>1 DEF CleanChecks, MainGoes
  <2>2. mpc = "clean" /\ (mpc' = "walk" \/ mpc' = "aborted")
        /\ UNCHANGED <<ready, done, heap, pc, item>>
    BY <1>7 DEF CleanChecks, MainGoes, listVars
  <2>3. \A i \in ToSet(done) : heap[i] = "live"
    BY <1>a, <2>2 DEF Shutdown, Dead
  <2>4. Walk'
    <3>1. Len(done) \in Nat /\ (done # <<>> => Len(done) >= 1)
      BY <1>b
    <3>2. \A k \in 1..Len(done) : heap[done[k]] = "live"
      BY <1>b, <2>3
    <3> QED BY <2>1, <2>2, <3>1, <3>2
  <2> QED BY <1>a, <2>2, <2>4 DEF Linked, Shutdown, Dead
<1>8. ASSUME CleanFrees PROVE Parts'
  <2>1. /\ mpc = "walk" /\ mpc' = "walk" /\ cursor # 0 /\ cursor' = ahead
        /\ ahead' = IF ahead # 0 /\ ahead < Len(done) THEN ahead + 1 ELSE 0
        /\ heap' = [heap EXCEPT ![done[cursor]] = "freed"]
        /\ UNCHANGED <<ready, done, pc, item>>
    BY <1>8 DEF CleanFrees
  <2>2. cursor \in 1..Len(done) /\ Len(done) \in Nat
    BY <1>a, <1>b, <2>1 DEF TypeOK
  <2>3. done[cursor] \in Item
    BY <1>b, <2>2
  <2>4. Off'
    BY <1>a, <2>1, <2>3 DEF Linked, TypeOK
  <2>5. Walk'
    <3>1. CASE ahead = 0
      BY <2>1, <3>1
    <3>2. CASE ahead # 0
      <4>1. ahead = cursor + 1 /\ ahead <= Len(done)
        BY <1>a, <2>1, <3>2
      <4>2. ahead' # 0 => ahead' = ahead + 1 /\ ahead' <= Len(done)
        BY <2>1, <2>2, <4>1
      <4>3. ASSUME NEW k \in ahead..Len(done) PROVE heap'[done[k]] = "live"
        <5>1. k \in cursor..Len(done) /\ k \in 1..Len(done) /\ k # cursor
          BY <2>2, <4>1
        <5>2. heap[done[k]] = "live" /\ done[k] \in Item
          BY <1>a, <1>b, <2>1, <5>1
        <5>3. done[k] # done[cursor]
          BY <1>a, <1>b, <2>2, <5>1 DEF IsInjective
        <5> QED BY <2>1, <5>2, <5>3 DEF TypeOK
      <4> QED BY <2>1, <4>1, <4>2, <4>3
    <3> QED BY <3>1, <3>2
  <2> QED BY <1>a, <2>1, <2>4, <2>5 DEF Shutdown
<1>9. ASSUME InitLists \/ EmptyReadyList PROVE Parts'
  <2>1. ready = <<>> /\ Linked = {}
    BY <1>9, EmptyBefore DEF Linked, ToSet
  <2>2. UNCHANGED <<ready, done, heap, pc, item>>
    BY <1>9, <2>1 DEF InitLists, EmptyReadyList, SpawnInv, MainGoes, TypeOK
  <2>3. mpc \notin Shutdown \cup Dead /\ mpc' # "walk"
    BY <1>9 DEF InitLists, EmptyReadyList, MainGoes, Shutdown, Dead
  <2> QED BY <1>a, <2>2, <2>3 DEF Linked
<1>10. ASSUME UNCHANGED <<ready, done, heap, pc, item>>,
              \/ mpc' = mpc /\ UNCHANGED <<cursor, ahead>>
              \/ mpc' # "walk" /\ (mpc \in Shutdown \cup Dead => mpc' \in Shutdown \cup Dead)
       PROVE  Parts'
  BY <1>a, <1>10 DEF Linked
<1> HIDE DEF Parts
<1>11. Parts'
  BY <1>1, <1>2, <1>3, <1>4, <1>5, <1>6, <1>7, <1>8, <1>9, <1>10, WorkQueueAssumption
  DEF Next, MainStep, WorkerStep, Failure, Ended, vars, listVars, walkVars, MainGoes,
      MainQueues, CallbackQueues, PostReady, Crash, CallbackExits, Produced,
      FindFailed, Poll, StartCompare, Succeeded, CleanEnds, PoolExit,
      QueueExit, PostExit, PostsDone, JoinAll, MainExits, Shutdown, Dead
<1> QED BY <1>11 DEF DoneInv, Parts

(* The invariant is inductive.                                             *)
LEMMA Inductive == ASSUME IInv, [Next]_vars PROVE IInv'
BY TypeStep, ReadyStep, OwnedStep, HandStep, ExitStep, SpawnStep, DoneStep,
   TokensStep, NoWorkStep, QuietStep, LateStep DEF IInv

-----------------------------------------------------------------------------
(* The theorems. *)

(* The invariant that carries the others holds in every run of the queue.  *)
THEOREM Invariant == Spec => []IInv
<1>1. Init => IInv
  BY InitIInv
<1>2. IInv /\ [Next]_vars => IInv'
  BY Inductive
<1> QED BY <1>1, <1>2, PTL DEF Spec

(* Every variable keeps its type, whatever the threads and main do.        *)
THEOREM TypeCorrect == Spec => []TypeOK
<1>1. IInv => TypeOK
  BY DEF IInv
<1> QED BY <1>1, Invariant, PTL

(* Each token of the semaphore stands for one linked and unclaimed entry,  *)
(* so a thread that wakes finds work (work-queue.c:94-128).                *)
THEOREM TokensAreExact == Spec => []TokensMatchWork
<1>1. IInv => TokensMatchWork
  BY DEF IInv
<1> QED BY <1>1, Invariant, PTL

(* No thread looks for work after the exit flags are set, so shutdown      *)
(* never meets on_error("ready_list empty.") (work-queue.c:114-123).       *)
THEOREM ExitIsClean == Spec => []NoWorkAfterExit
<1>1. IInv => NoWorkAfterExit
  BY DEF IInv
<1> QED BY <1>1, Invariant, PTL

(* No item is ever in the hands of two threads (list.c:92-118).            *)
THEOREM Exclusive == Spec => []OwnedOnce
<1>1. IInv => OwnedOnce
  BY DEF IInv
<1> QED BY <1>1, Invariant, PTL

(* No item is freed twice and none that is freed is worked on, up to its   *)
(* hand-over to the done list (find.c:155-157, find-dupes.c:363-378).      *)
THEOREM FreedOnce == Spec => []FreesOnce
<1>1. IInv => FreesOnce
  <2> SUFFICES ASSUME IInv, mpc = "walk", cursor # 0 PROVE heap[done[cursor]] = "live"
    BY DEF IInv, HandInv, FreesOnce
  <2> QED BY DEF IInv, DoneInv, TypeOK
<1> QED BY <1>1, Invariant, PTL

(* The ready list main has seen empty stays empty and nobody adds to it    *)
(* but main (find-dupes.c:511-528, 576-597).                               *)
THEOREM QuietOnceEmpty == Spec => []StaysQuiet
<1>1. IInv => StaysQuiet
  BY DEF IInv
<1> QED BY <1>1, Invariant, PTL

(* While compare items run no find callback does (find-dupes.c:512, 574).  *)
THEOREM FindBeforeCompare == Spec => []NoLateFind
<1>1. IInv => NoLateFind
  BY DEF IInv
<1> QED BY <1>1, Invariant, PTL

-----------------------------------------------------------------------------
(* The queue implements the abstract task pool, fairness left aside.       *)

(* Once compare_files has returned, every bucket has been queued.          *)
AllQueued ==
  mpc \in {"comparePoll", "compareDone"} => \A i \in CompareItem : heap[i] # "unborn"

(* Every step keeps AllQueued.                                             *)
LEMMA QueuedStep == ASSUME IInv, AllQueued, [Next]_vars PROVE AllQueued'
<1> USE DEF IInv
<1>1. \A i \in Item : heap[i] # "unborn" => heap'[i] # "unborn"
  BY WorkQueueAssumption
  DEF TypeOK, Next, MainStep, WorkerStep, Failure, Ended, vars, listVars, Spawn,
     InitLists,
      MainQueues, CallbackQueues, LinkReady, PostReady, StartThread, LoopTest,
      SemWait, ExitTest, GetFirst, Unlink, FreeItem, LinkDone, UnlockDone,
      Crash, CallbackExits, Produced, FindFailed, Poll, StartCompare,
      EmptyReadyList, Succeeded, CleanChecks, CleanFrees, CleanEnds, PoolExit,
      QueueExit, PostExit, PostsDone, JoinAll, MainExits
<1>2. CASE Produced
  BY <1>2 DEF Produced, MainGoes, AllQueued, listVars
<1>3. CASE mpc' \in {"comparePoll", "compareDone"} => mpc \in {"comparePoll", "compareDone"}
  BY <1>1, <1>3 DEF AllQueued
<1> QED BY <1>2, <1>3
  DEF Next, MainStep, WorkerStep, Failure, Ended, vars, MainGoes, Spawn, InitLists,
      MainQueues, CallbackQueues, LinkReady, PostReady, StartThread, LoopTest,
      SemWait, ExitTest, GetFirst, Unlink, FreeItem, LinkDone, UnlockDone,
      Crash, CallbackExits, FindFailed, Poll, StartCompare, EmptyReadyList,
      Succeeded, CleanChecks, CleanFrees, CleanEnds, PoolExit, QueueExit,
      PostExit, PostsDone, JoinAll, MainExits

(* The initial states map to the initial state of the task pool.           *)
LEMMA TaskPoolInit == Init => TP!Init
<1> SUFFICES ASSUME Init PROVE TP!Init
  OBVIOUS
<1>1. TaskBar = [i \in Item |-> "new"]
  BY DEF Init, TaskBar
<1>2. StageBar = "finding"
  BY DEF Init, StageBar, Shutdown
<1> QED BY <1>1, <1>2 DEF TP!Init, TP!Item

(* Every step maps to a step of the task pool or to a stutter.             *)
LEMMA TaskPoolStep == ASSUME IInv, AllQueued, [Next]_vars PROVE [TP!Next]_(TP!vars)
<1> USE DEF IInv, TP!Item
<1> DEFINE Moves == [TP!Next]_(TP!vars)
<1>a. TaskBar = [i \in Item |-> TaskBar[i]] /\ TaskBar' = [i \in Item |-> TaskBar'[i]]
  BY DEF TaskBar
<1>b. Alive => StageBar # "dead"
  BY DEF Alive, StageBar, Shutdown, TypeOK, MainPc
<1>1. ASSUME NEW p \in Proc, NEW i \in Item, LinkReady(p, i)
      PROVE  TP!Submit(i)
  <2>1. i \notin Linked /\ Linked' = Linked \cup {i}
    BY <1>1, AppendElements DEF LinkReady, ReadyInv, TypeOK, Linked
  <2>2. TaskBar[i] = "new" /\ TaskBar'[i] = "queued"
    BY <1>1, <2>1 DEF LinkReady, TaskBar, TypeOK
  <2>3. \A j \in Item : j # i => TaskBar'[j] = TaskBar[j]
    BY <1>1, <2>1 DEF LinkReady, TaskBar, TypeOK
  <2>4. StageBar' = StageBar
    BY <1>1 DEF LinkReady, StageBar
  <2>5. TaskBar' = [TaskBar EXCEPT ![i] = "queued"]
    BY <1>a, <2>2, <2>3
  <2> QED BY <2>2, <2>4, <2>5 DEF TP!Submit
<1>2. ASSUME NEW i \in Item, MainQueues(i) PROVE Moves
  <2>1. TP!Submit(i)
    BY <1>1, <1>2 DEF MainQueues
  <2>2. TP!MainSubmits(i)
    BY <1>2, <2>1 DEF MainQueues, TP!MainSubmits, StageBar, Shutdown
  <2> QED BY <2>2 DEF TP!Next
<1>3. ASSUME NEW w \in Worker, NEW i \in Item, CallbackQueues(w, i) PROVE Moves
  <2>1. TP!Submit(i)
    BY <1>1, <1>3 DEF CallbackQueues
  <2>2. item[w] \in ToSet(ready) /\ item[w] \in inUse
    BY <1>3, ItemInHand DEF CallbackQueues, InHand
  <2>3. TaskBar[item[w]] = "running"
    BY <1>3, <2>2 DEF CallbackQueues, TaskBar, Linked, ReadyInv
  <2>4. TP!TaskSubmits(item[w], i)
    BY <1>3, <2>1, <2>3 DEF CallbackQueues, TP!TaskSubmits
  <2> QED BY <1>3, <2>4 DEF CallbackQueues, TP!Next
<1>4. ASSUME NEW w \in Worker, GetFirst(w) PROVE Moves
  <2>1. Unclaimed # {}
    BY <1>4, EmptyIsQuiet DEF GetFirst, NoWorkAfterExit
  <2>2. PICK k \in DOMAIN ready :
          ready[k] \notin inUse /\ inUse' = inUse \cup {ready[k]} /\ mpc' = mpc
    BY <1>4, <2>1 DEF GetFirst, FirstUnclaimed
  <2> DEFINE i == ready[k]
  <2>3. i \in Item /\ i \in Linked /\ heap[i] = "live"
    BY <2>2 DEF TypeOK, Linked, ToSet, ReadyInv
  <2>4. UNCHANGED <<ready, heap>> /\ Alive
    BY <1>4 DEF GetFirst
  <2> HIDE DEF i
  <2>5. TaskBar[i] = "queued" /\ TaskBar'[i] = "running"
    BY <2>2, <2>3, <2>4 DEF TaskBar, Linked, i
  <2>6. \A j \in Item : j # i => TaskBar'[j] = TaskBar[j]
    BY <2>2, <2>4 DEF TaskBar, Linked, i
  <2>7. TaskBar' = [TaskBar EXCEPT ![i] = "running"]
    BY <1>a, <2>3, <2>5, <2>6
  <2>8. StageBar' = StageBar /\ StageBar # "dead"
    BY <1>b, <2>2, <2>4 DEF StageBar
  <2> QED BY <2>3, <2>5, <2>7, <2>8 DEF TP!Begin, TP!Next
<1>5. ASSUME NEW w \in Worker, Unlink(w) PROVE Moves
  <2> DEFINE i == item[w]
  <2>1. i \in ToSet(ready) /\ i \in inUse /\ i \in Item
    BY <1>5, ItemInHand DEF Unlink, WorkerGoes, InHand
  <2>2. Linked' = Linked \ {i} /\ i \in Linked
    BY <1>5, <2>1, RemoveFirstElements DEF Unlink, TypeOK, ReadyInv, Linked
  <2>3. UNCHANGED <<inUse, heap, mpc>> /\ Alive
    BY <1>5 DEF Unlink, WorkerGoes
  <2> HIDE DEF i
  <2>4. TaskBar[i] = "running" /\ TaskBar'[i] = "finished"
    BY <2>1, <2>2, <2>3 DEF TaskBar, ReadyInv
  <2>5. \A j \in Item : j # i => TaskBar'[j] = TaskBar[j]
    BY <2>2, <2>3 DEF TaskBar
  <2>6. TaskBar' = [TaskBar EXCEPT ![i] = "finished"]
    BY <1>a, <2>1, <2>4, <2>5
  <2>7. StageBar' = StageBar /\ StageBar # "dead"
    BY <1>b, <2>3 DEF StageBar
  <2> QED BY <2>1, <2>4, <2>6, <2>7 DEF TP!Finish, TP!Next
<1>6. ASSUME NEW w \in Worker, FreeItem(w) PROVE Moves
  <2>1. item[w] \in Item /\ item[w] \notin Linked /\ heap[item[w]] = "live"
    BY <1>6 DEF FreeItem, WorkerGoes, HandInv
  <2>2. UNCHANGED TaskBar
    BY <1>6, <2>1 DEF FreeItem, TaskBar, Linked, TypeOK
  <2> QED BY <1>6, <2>2 DEF FreeItem, StageBar, TP!vars
<1>7. ASSUME NEW w \in Worker, LinkDone(w) PROVE Moves
  <2>1. item[w] \notin Linked
    BY <1>7 DEF LinkDone, WorkerGoes, HandInv
  <2>2. UNCHANGED TaskBar
    BY <1>7, <2>1 DEF LinkDone, TaskBar, Linked
  <2> QED BY <1>7, <2>2 DEF LinkDone, StageBar, TP!vars
<1>8. ASSUME CleanFrees PROVE Moves
  <2>1. done[cursor] \in ToSet(done)
    BY <1>8 DEF CleanFrees, DoneInv, TypeOK, ToSet
  <2>2. done[cursor] \notin Linked /\ heap[done[cursor]] # "unborn"
    BY <2>1 DEF DoneInv
  <2>3. UNCHANGED TaskBar
    BY <1>8, <2>2 DEF CleanFrees, TaskBar, Linked, TypeOK
  <2> QED BY <1>8, <2>3 DEF CleanFrees, StageBar, TP!vars
<1>c. ready = <<>> => TP!Idle
  BY DEF TP!Idle, TaskBar, Linked, ToSet
<1>9. ASSUME Poll PROVE Moves
  <2>1. UNCHANGED TaskBar /\ TP!Idle
    BY <1>c, <1>9 DEF Poll, TaskBar, Linked, listVars
  <2>2. CASE mpc = "findPoll"
    BY <1>9, <2>1, <2>2 DEF Poll, MainGoes, StageBar, Shutdown, TP!Found, TP!Next
  <2>3. CASE mpc = "comparePoll"
    <3>1. \A i \in CompareItem : TaskBar[i] = "finished"
      BY <1>9, <2>3 DEF Poll, TaskBar, Linked, ToSet, AllQueued
    <3> QED BY <1>9, <2>1, <2>3, <3>1
      DEF Poll, MainGoes, StageBar, Shutdown, TP!Compared, TP!Next
  <2> QED BY <1>9, <2>2, <2>3 DEF Poll, MainGoes
<1>10. ASSUME StartCompare PROVE Moves
  <2>1. UNCHANGED TaskBar
    BY <1>10 DEF StartCompare, TaskBar, Linked, listVars
  <2> QED BY <1>10, <2>1
    DEF StartCompare, MainGoes, StageBar, Shutdown, TP!StartCompare, TP!Next
<1>11. ASSUME FindFailed \/ Succeeded \/ EmptyReadyList PROVE Moves
  <2>1. UNCHANGED <<ready, heap, inUse>>
    BY <1>11, EmptyBefore DEF FindFailed, Succeeded, EmptyReadyList, Linked,
       ToSet, TypeOK, listVars
  <2>2. UNCHANGED TaskBar
    BY <2>1 DEF TaskBar, Linked
  <2>3. StageBar \in {"finding", "found", "compared"} /\ StageBar' = "closing"
    BY <1>11 DEF FindFailed, Succeeded, EmptyReadyList, MainGoes, StageBar, Shutdown
  <2> QED BY <2>2, <2>3 DEF TP!Close, TP!Next
<1>12. ASSUME CleanChecks PROVE Moves
  <2>1. UNCHANGED TaskBar
    BY <1>12 DEF CleanChecks, TaskBar, Linked, listVars
  <2>2. CASE ready = <<>>
    <3>1. StageBar = "closing" /\ StageBar' = "down"
      BY <1>12, <2>2 DEF CleanChecks, MainGoes, StageBar, Shutdown
    <3> QED BY <1>c, <2>1, <2>2, <3>1 DEF TP!Down, TP!Next
  <2>3. CASE ready # <<>>
    <3>1. StageBar' = "dead"
      BY <1>12, <2>3 DEF CleanChecks, MainGoes, StageBar, Shutdown
    <3> QED BY <2>1, <3>1 DEF TP!Die, TP!Next
  <2> QED BY <2>2, <2>3
<1>13. ASSUME MainExits \/ \E w \in Worker : Crash(w) \/ CallbackExits(w) PROVE Moves
  <2>1. UNCHANGED TaskBar
    BY <1>13 DEF MainExits, Crash, CallbackExits, TaskBar, Linked, listVars
  <2>2. StageBar' = "dead"
    BY <1>13 DEF MainExits, Crash, CallbackExits, MainGoes, StageBar, Shutdown
  <2> QED BY <2>1, <2>2 DEF TP!Die, TP!Next
<1>14. ASSUME InitLists PROVE Moves
  <2>1. UNCHANGED TaskBar
    BY <1>14, EmptyBefore DEF InitLists, TaskBar, Linked
  <2> QED BY <1>14, <2>1 DEF InitLists, MainGoes, StageBar, Shutdown, TP!vars
<1>15. ASSUME UNCHANGED <<ready, heap, inUse>>, UNCHANGED StageBar PROVE Moves
  BY <1>15 DEF TaskBar, Linked, TP!vars
<1>16. ASSUME Produced \/ CleanEnds \/ PoolExit \/ QueueExit \/ PostsDone \/ JoinAll
       PROVE  Moves
  <2>1. UNCHANGED <<ready, heap, inUse>> /\ UNCHANGED StageBar
    BY <1>16 DEF Produced, CleanEnds, PoolExit, QueueExit, PostsDone, JoinAll,
       MainGoes, StageBar, Shutdown, listVars
  <2> QED BY <1>15, <2>1
<1>17. ASSUME UNCHANGED <<ready, heap, inUse, mpc>> PROVE Moves
  BY <1>15, <1>17 DEF StageBar, Shutdown
<1> HIDE DEF Moves
<1>18. Moves
  BY <1>2, <1>3, <1>4, <1>5, <1>6, <1>7, <1>8, <1>9, <1>10, <1>11, <1>12,
     <1>13, <1>14, <1>16, <1>17
  DEF Next, MainStep, WorkerStep, Failure, Ended, vars, listVars, Spawn, PostReady,
      StartThread, LoopTest, SemWait, ExitTest, UnlockDone, PostExit
<1> QED BY <1>18 DEF Moves

(* Every step of the queue is a step of the task pool or changes nothing   *)
(* there: no item is run twice, started before it was added or finished    *)
(* before it ran, and main moves on only when none is left.                *)
THEOREM ImplementsTaskPool == Spec => TP!Spec
<1>1. Init => TP!Init
  BY TaskPoolInit
<1>2. Init => AllQueued
  BY DEF Init, AllQueued
<1>3. IInv /\ AllQueued /\ [Next]_vars => AllQueued'
  BY QueuedStep
<1>4. IInv /\ AllQueued /\ [Next]_vars => [TP!Next]_(TP!vars)
  BY TaskPoolStep
<1> QED BY <1>1, <1>2, <1>3, <1>4, Invariant, PTL DEF Spec, TP!Spec

===============================================================================
