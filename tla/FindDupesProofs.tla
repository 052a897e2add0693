--------------------------- MODULE FindDupesProofs ---------------------------
(***************************************************************************)
(* Theorems about find-dupes as a whole.  Its steps are steps of the work  *)
(* queue, so what module WorkQueueProofs shows of the queue holds for it;  *)
(* and no callback writes to a list file that is not open.                 *)
(***************************************************************************)
EXTENDS FindDupes, WorkQueueProofs, DataLemmas

(* Compare items are linked only while main queues them or waits for them. *)
CompareStage == {"compare", "comparePoll"}
CompareLinked == Linked \cap CompareItem # {} => mpc \in CompareStage \cup Dead

(* dupes.lst and unique.lst are open for as long.                          *)
OpenInv == mpc \in CompareStage => open

(* Each step of find-dupes is a step of the queue or leaves it alone.      *)
LEMMA QueueStep == [FDNext]_fdVars => [Next]_vars
<1> SUFFICES ASSUME FDNext PROVE [Next]_vars
  BY DEF fdVars
<1>1. ASSUME NEW p \in Proc, NEW f \in File, ReadFile(p, f) PROVE [Next]_vars
  BY <1>1 DEF ReadFile
<1>2. ASSUME NEW d \in FindItem, ReadDir(Main, d) PROVE [Next]_vars
  BY <1>2 DEF ReadDir, Next, MainStep, Item
<1>3. ASSUME NEW w \in Worker, NEW d \in FindItem, ReadDir(w, d) PROVE [Next]_vars
  BY <1>3, WorkQueueAssumption DEF ReadDir, Next, WorkerStep, Item
<1>4. ASSUME NEW p \in Proc, Post(p) PROVE [Next]_vars
  BY <1>4 DEF Post, Next, MainStep, WorkerStep, Proc
<1>5. ASSUME NEW w \in Worker, FindReturns(w) \/ CompareReturns(w) PROVE [Next]_vars
  BY <1>5 DEF FindReturns, CompareReturns, Next, WorkerStep
<1>6. ASSUME NEW w \in Worker, CompareEntry(w) PROVE [Next]_vars
  BY <1>6 DEF CompareEntry
<1>7. ASSUME NEW w \in Worker, BeginCallback(w) \/ ThreadMoves(w) PROVE [Next]_vars
  BY <1>7 DEF BeginCallback, ThreadMoves, Next, WorkerStep
<1>8. ASSUME NEW b \in CompareItem, QueueBucket(b) PROVE [Next]_vars
  BY <1>8 DEF QueueBucket, Next, MainStep, Item
<1>9. ASSUME NextSource \/ CloseLists \/ Signal PROVE [Next]_vars
  BY <1>9 DEF NextSource, CloseLists, Signal
<1>10. ASSUME FindEnds \/ FindInterrupted \/ BeginCompare \/ CompareQueued \/ MainPolls
              \/ Interrupted \/ PrintCounts \/ MainMoves
       PROVE  [Next]_vars
  BY <1>10 DEF FindEnds, FindInterrupted, BeginCompare, CompareQueued, MainPolls,
     Interrupted, PrintCounts, MainMoves, Next, MainStep
<1>11. ASSUME Fails \/ Over PROVE [Next]_vars
  BY <1>11 DEF Fails, Over, Next, Ended, fdVars
<1> QED
  BY <1>1, <1>2, <1>3, <1>4, <1>5, <1>6, <1>7, <1>8, <1>9, <1>10, <1>11
  DEF FDNext, FDMainStep, FDWorkerStep, Proc

(* find-dupes drives the queue as module WorkQueue says: whatever it does, *)
(* the queue sees a behaviour of WorkQueue (the safety part of             *)
(* ImplementsQueue).                                                       *)
THEOREM DrivesQueue == FDSpec => Spec
<1>1. FDInit => Init
  BY DEF FDInit
<1> QED BY <1>1, QueueStep, PTL DEF FDSpec, Spec

(* A compare callback runs on a linked item.                               *)
LEMMA RunningIsLinked ==
  ASSUME IInv, NEW w \in Worker, pc[w] = "running"
  PROVE  item[w] \in Linked
BY ItemInHand DEF InHand, Linked

(* Every step keeps compare items to their stages.                         *)
LEMMA CompareLinkedStep ==
  ASSUME IInv, CompareLinked, [Next]_vars
  PROVE  CompareLinked'
<1> USE DEF IInv
<1> DEFINE Stages == CompareStage \cup Dead
<1>1. ASSUME NEW i \in Item, MainQueues(i) PROVE CompareLinked'
  <2>1. Linked' = Linked \cup {i} /\ UNCHANGED mpc
    BY <1>1, AppendElements DEF MainQueues, LinkReady, TypeOK, Linked
  <2>2. i \in CompareItem => mpc \in CompareStage
    BY <1>1, WorkQueueAssumption DEF MainQueues, CompareStage
  <2> QED BY <2>1, <2>2 DEF CompareLinked
<1>2. ASSUME NEW w \in Worker, NEW i \in Item, CallbackQueues(w, i)
      PROVE  CompareLinked'
  <2>1. Linked' = Linked \cup {i} /\ UNCHANGED mpc
    BY <1>2, AppendElements DEF CallbackQueues, LinkReady, TypeOK, Linked
  <2>2. i \notin CompareItem
    BY <1>2, WorkQueueAssumption DEF CallbackQueues
  <2> QED BY <2>1, <2>2 DEF CompareLinked
<1>3. ASSUME NEW w \in Worker, Unlink(w) PROVE CompareLinked'
  <2>1. item[w] \in ToSet(ready)
    BY <1>3, ItemInHand DEF Unlink, WorkerGoes, InHand
  <2>2. Linked' \subseteq Linked /\ UNCHANGED mpc
    BY <1>3, <2>1, RemoveFirstElements DEF Unlink, TypeOK, ReadyInv, Linked
  <2> QED BY <2>2 DEF CompareLinked
<1>4. CASE InitLists \/ EmptyReadyList \/ Poll
  <2>1. ready' = <<>>
    BY <1>4, EmptyBefore DEF InitLists, EmptyReadyList, Poll, listVars
  <2> QED BY <2>1 DEF CompareLinked, Linked, ToSet
<1>5. CASE UNCHANGED ready /\ (mpc \in Stages => mpc' \in Stages)
  BY <1>5 DEF CompareLinked, Linked
<1>6. CASE UNCHANGED <<ready, mpc>>
  BY <1>5, <1>6
<1>7. CASE \/ Produced \/ FindFailed \/ StartCompare \/ Succeeded \/ CleanChecks
           \/ CleanEnds \/ PoolExit \/ QueueExit \/ PostsDone \/ JoinAll \/ MainExits
           \/ \E w \in Worker : GetFirst(w) \/ Crash(w) \/ CallbackExits(w)
  <2>1. UNCHANGED ready
    BY <1>7 DEF Produced, FindFailed, StartCompare, Succeeded, CleanChecks,
       CleanEnds, PoolExit, QueueExit, PostsDone, JoinAll, MainExits, GetFirst,
       Crash, CallbackExits, listVars
  <2>2. mpc \in Stages => mpc' \in Stages
    BY <1>7 DEF Produced, FindFailed, StartCompare, Succeeded, CleanChecks,
       CleanEnds, PoolExit, QueueExit, PostsDone, JoinAll, MainExits, GetFirst,
       Crash, CallbackExits, MainGoes, CompareStage, Dead
  <2> QED BY <1>5, <2>1, <2>2
<1> HIDE DEF Stages
<1> QED BY <1>1, <1>2, <1>3, <1>4, <1>6, <1>7
  DEF Next, MainStep, WorkerStep, Failure, Ended, vars, listVars, Spawn, PostReady,
      StartThread, LoopTest, SemWait, ExitTest, FreeItem, LinkDone, UnlockDone,
      CleanFrees, PostExit

(* Every step keeps the lists open while they are needed.                  *)
LEMMA OpenStep == ASSUME OpenInv, [FDNext]_fdVars PROVE OpenInv'
<1>1. CASE BeginCompare
  BY <1>1 DEF BeginCompare, OpenInv
<1>2. CASE CloseLists
  BY <1>2 DEF CloseLists, OpenInv, CompareStage, vars
<1>3. CASE UNCHANGED open /\ (mpc' \in CompareStage => mpc \in CompareStage)
  BY <1>3 DEF OpenInv
<1>4. CASE UNCHANGED <<open, mpc>>
  BY <1>3, <1>4
<1>5. CASE UNCHANGED open /\ mpc' \notin CompareStage
  BY <1>5 DEF OpenInv
<1>6. CASE FindEnds \/ CompareQueued
  <2>1. UNCHANGED open /\ (mpc' \in CompareStage => mpc \in CompareStage)
    BY <1>6 DEF FindEnds, CompareQueued, Produced, MainGoes, mainVars, CompareStage
  <2> QED BY <1>3, <2>1
<1>7. CASE FindInterrupted \/ Interrupted \/ PrintCounts \/ MainPolls
  <2>1. UNCHANGED open /\ mpc' \notin CompareStage
    BY <1>7 DEF FindInterrupted, FindFailed, Interrupted, EmptyReadyList,
       PrintCounts, Succeeded, MainPolls, Poll, MainGoes, mainVars, CompareStage
  <2> QED BY <1>5, <2>1
<1>8. CASE MainMoves
  <2>1. UNCHANGED open /\ (mpc' = mpc \/ mpc' \notin CompareStage)
    BY <1>8 DEF MainMoves, Spawn, InitLists, CleanChecks, CleanFrees, CleanEnds,
       PoolExit, QueueExit, PostExit, PostsDone, JoinAll, MainGoes, mainVars,
       CompareStage
  <2> QED BY <1>4, <1>5, <2>1
<1>9. CASE Fails
  <2>1. UNCHANGED open /\ mpc' \notin CompareStage
    BY <1>9 DEF Fails, Failure, MainExits, Crash, CallbackExits, MainGoes,
       mainVars, CompareStage
  <2> QED BY <1>5, <2>1
<1>10. ASSUME NEW w \in Worker, BeginCallback(w) PROVE OpenInv'
  <2>1. UNCHANGED open /\ (mpc' = mpc \/ mpc' \notin CompareStage)
    BY <1>10 DEF BeginCallback, GetFirst, mainVars, CompareStage
  <2> QED BY <1>4, <1>5, <2>1
<1>11. ASSUME NEW p \in Proc, NEW f \in File, ReadFile(p, f) PROVE OpenInv'
  BY <1>4, <1>11 DEF ReadFile, vars, mainVars
<1>12. ASSUME NEW p \in Proc, NEW d \in FindItem, ReadDir(p, d) PROVE OpenInv'
  BY <1>4, <1>12 DEF ReadDir, MainQueues, CallbackQueues, LinkReady, mainVars
<1>13. ASSUME NEW p \in Proc, Post(p) PROVE OpenInv'
  BY <1>4, <1>13 DEF Post, PostReady, mainVars
<1>14. ASSUME NEW w \in Worker,
              FindReturns(w) \/ CompareEntry(w) \/ CompareReturns(w) \/ ThreadMoves(w)
       PROVE  OpenInv'
  <2>1. UNCHANGED <<open, mpc>>
    BY <1>14 DEF FindReturns, CompareEntry, CompareReturns, Unlink, ThreadMoves,
       StartThread, LoopTest, SemWait, ExitTest, FreeItem, LinkDone, UnlockDone,
       vars, mainVars
  <2> QED BY <1>4, <2>1
<1>15. ASSUME NEW b \in CompareItem, QueueBucket(b) PROVE OpenInv'
  BY <1>4, <1>15 DEF QueueBucket, MainQueues, LinkReady, mainVars
<1>16. CASE NextSource \/ Signal \/ Over \/ UNCHANGED fdVars
  BY <1>4, <1>16 DEF NextSource, Signal, Over, vars, mainVars, fdVars
<1> QED BY <1>1, <1>2, <1>6, <1>7, <1>8, <1>9, <1>10, <1>11, <1>12, <1>13, <1>14,
      <1>15, <1>16
  DEF FDNext, FDMainStep, FDWorkerStep, Proc

(* No callback writes to dupes.lst or unique.lst before main has opened it *)
(* or after main has closed it (find-dupes.c:568-590).                     *)
THEOREM FilesAreOpen == FDSpec => []FilesOpen
<1>1. FDInit => CompareLinked /\ OpenInv
  BY DEF FDInit, Init, CompareLinked, OpenInv, CompareStage, Linked, ToSet
<1>2. IInv /\ CompareLinked /\ [Next]_vars => CompareLinked'
  BY CompareLinkedStep
<1>3. OpenInv /\ [FDNext]_fdVars => OpenInv'
  BY OpenStep
<1>4. IInv /\ CompareLinked /\ OpenInv => FilesOpen
  BY RunningIsLinked DEF FilesOpen, Comparing, CompareLinked, OpenInv, Alive,
     CompareStage, Dead
<1> QED BY <1>1, <1>2, <1>3, <1>4, DrivesQueue, Invariant, PTL DEF FDSpec, Spec

-----------------------------------------------------------------------------
(* A finite set of numbers can be enumerated in ascending order, so the    *)
(* one that Ascending chooses is one, and it leaves no element out.        *)
LEMMA AscendingIsSorted ==
  ASSUME NEW S \in SUBSET Nat, IsFiniteSet(S)
  PROVE  /\ Ascending(S) \in [1..Cardinality(S) -> S]
         /\ \A i, j \in 1..Cardinality(S) : i < j => Ascending(S)[i] < Ascending(S)[j]
         /\ \A x \in S : \E i \in 1..Cardinality(S) : Ascending(S)[i] = x
<1> DEFINE n == Cardinality(S)
           Upto(x) == {y \in S : y <= x}
           rank == [x \in S |-> Cardinality(Upto(x))]
<1>1. n \in Nat /\ IsFiniteSet(1..n) /\ Cardinality(1..n) = n
  BY FS_CardinalityType, FS_CountingElements, FS_Interval
<1>2. \A x \in S : /\ Upto(x) \in SUBSET S /\ IsFiniteSet(Upto(x))
                   /\ Cardinality(Upto(x)) \in 1..n
  <2> SUFFICES ASSUME NEW x \in S
               PROVE  IsFiniteSet(Upto(x)) /\ Cardinality(Upto(x)) \in 1..n
    OBVIOUS
  <2>1. Upto(x) \in SUBSET S /\ x \in Upto(x)
    OBVIOUS
  <2> HIDE DEF Upto
  <2>2. IsFiniteSet(Upto(x)) /\ Cardinality(Upto(x)) \in Nat /\ Cardinality(Upto(x)) <= n
    BY <2>1, FS_Subset, FS_CardinalityType
  <2>3. Cardinality(Upto(x)) # 0
    BY <2>1, <2>2, FS_EmptySet
  <2> QED BY <1>1, <2>2, <2>3
<1>3. ASSUME NEW x \in S, NEW y \in S, x < y PROVE rank[x] < rank[y]
  <2>1. Upto(x) \in SUBSET Upto(y) /\ y \in Upto(y) /\ y \notin Upto(x)
    <3>1. S \subseteq Nat /\ x \in Nat /\ y \in Nat
      OBVIOUS
    <3>2. \A z \in S : z <= x => z <= y
      BY <1>3, <3>1
    <3>3. ~ (y <= x) /\ x <= y
      BY <1>3, <3>1
    <3>4. y <= y
      BY <3>1
    <3> QED BY <3>2, <3>3, <3>4, Zenon
  <2>2. Cardinality(Upto(x)) <= Cardinality(Upto(y)) /\ Cardinality(Upto(x)) # Cardinality(Upto(y))
    <3> HIDE DEF Upto
    <3> QED BY <1>2, <2>1, FS_Subset
  <2> QED BY <1>2, <2>2
<1>4. rank \in [S -> 1..n]
  BY <1>2
<1> HIDE DEF rank
<1>5. rank \in Surjection(S, 1..n)
  <2>1. rank \in Injection(S, 1..n)
    BY <1>1, <1>3, <1>4 DEF Injection, IsInjective
  <2> QED BY <1>1, <2>1, FS_Injection
<1> DEFINE e == [i \in 1..n |-> CHOOSE x \in S : rank[x] = i]
<1>6. \A i \in 1..n : e[i] \in S /\ rank[e[i]] = i
  BY <1>5 DEF Surjection
<1>7. \A i, j \in 1..n : i < j => e[i] < e[j]
  <2> HIDE DEF e
  <2> SUFFICES ASSUME NEW i \in 1..n, NEW j \in 1..n, i < j PROVE e[i] < e[j]
    OBVIOUS
  <2>1. e[i] \in Nat /\ e[j] \in Nat /\ e[i] # e[j]
    <3>1. S \subseteq Nat /\ i \in Int /\ j \in Int
      BY <1>1
    <3>2. e[i] \in S /\ e[j] \in S /\ rank[e[i]] = i /\ rank[e[j]] = j
      BY <1>6
    <3>3. i # j
      BY <3>1
    <3> QED BY <3>1, <3>2, <3>3, Zenon
  <2>2. ~ (e[j] < e[i])
    <3>1. i \in Int /\ j \in Int /\ rank[e[i]] = i /\ rank[e[j]] = j
      BY <1>1, <1>6
    <3>2. e[j] < e[i] => rank[e[j]] < rank[e[i]]
      BY <1>3, <1>6
    <3> QED BY <3>1, <3>2
  <2> QED BY <2>1, <2>2
<1>8. e \in [1..n -> S] /\ \A i, j \in DOMAIN e : i < j => e[i] < e[j]
  BY <1>6, <1>7
<1> HIDE DEF e
<1> DEFINE a == Ascending(S)
<1>9. a \in [1..n -> S] /\ \A i, j \in DOMAIN a : i < j => a[i] < a[j]
  BY <1>8 DEF Ascending
<1>10. \A i, j \in 1..n : i < j => a[i] < a[j]
  BY <1>9
<1> HIDE DEF a
<1>11. a \in Surjection(1..n, S)
  <2>1. \A i \in 1..n : a[i] \in Nat
    BY <1>9
  <2>2. a \in Injection(1..n, S)
    BY <1>1, <1>9, <1>10, <2>1 DEF Injection, IsInjective
  <2> QED BY <1>1, <2>2, FS_Injection
<1>12. \A x \in S : \E i \in 1..n : a[i] = x
  BY <1>11 DEF Surjection
<1> QED BY <1>9, <1>10, <1>12 DEF a

-----------------------------------------------------------------------------
(* The queue as the data sees it: the items that have been queued, those   *)
(* that run and on which thread.  With Linked and Unclaimed this is all    *)
(* the rest of the proof needs to know of it.                              *)
Born == {i \in Item : heap[i] # "unborn"}
Runs == {r \in Worker \X Item : pc[r[1]] = "running" /\ item[r[1]] = r[2]}

FindStage == {"spawn", "find", "findPoll", "findDone"}
TableStage == {"compare", "comparePoll", "compareDone"}

SameQueue == Born' = Born /\ Linked' = Linked /\ Unclaimed' = Unclaimed /\ Runs' = Runs

(* What the invariant of the queue says in these terms.                    *)
LEMMA QueueFacts ==
  ASSUME IInv
  PROVE  /\ Runs \in SUBSET (Worker \X Item)
         /\ Unclaimed \subseteq Linked /\ Linked \subseteq Born /\ Born \subseteq Item
         /\ \A w \in Worker, i, j \in Item : <<w, i>> \in Runs /\ <<w, j>> \in Runs => i = j
         /\ \A v, w \in Worker, i \in Item : <<v, i>> \in Runs /\ <<w, i>> \in Runs => v = w
         /\ \A w \in Worker, i \in Item : <<w, i>> \in Runs => i \in Linked \ Unclaimed
         /\ mpc \in {"spawn", "findDone", "compareDone"} \cup Shutdown =>
              Linked = {} /\ Runs = {}
         /\ mpc \in TableStage =>
              /\ Linked \cap FindItem = {}
              /\ \A w \in Worker, i \in FindItem : <<w, i>> \notin Runs
<1> USE DEF IInv
<1>1. Runs \in SUBSET (Worker \X Item)
  BY DEF Runs
<1>2. Unclaimed \subseteq Linked /\ Linked \subseteq Born /\ Born \subseteq Item
  BY DEF Unclaimed, Linked, Born, ReadyInv, TypeOK, ToSet
<1>3. \A w \in Worker, i, j \in Item : <<w, i>> \in Runs /\ <<w, j>> \in Runs => i = j
  BY DEF Runs
<1>4. \A v, w \in Worker, i \in Item : <<v, i>> \in Runs /\ <<w, i>> \in Runs => v = w
  BY WorkQueueAssumption DEF Runs, OwnedOnce
<1>5. \A w \in Worker, i \in Item : <<w, i>> \in Runs => i \in Linked \ Unclaimed
  BY DEF Runs, OwnedOnce, Unclaimed
<1>6. mpc \in {"spawn", "findDone", "compareDone"} \cup Shutdown => Linked = {} /\ Runs = {}
  BY DEF Runs, StaysQuiet, SpawnInv, Linked, ToSet
<1>7. mpc \in TableStage =>
        /\ Linked \cap FindItem = {}
        /\ \A w \in Worker, i \in FindItem : <<w, i>> \notin Runs
  BY WorkQueueAssumption DEF Runs, NoLateFind, TableStage
<1> QED BY <1>1, <1>2, <1>3, <1>4, <1>5, <1>6, <1>7

(* What work_queue_add_item does.                                          *)
LEMMA LinkView ==
  ASSUME IInv, NEW p \in Proc, NEW i \in Item, LinkReady(p, i)
  PROVE  /\ i \notin Born /\ Born' = Born \cup {i}
         /\ Linked' = Linked \cup {i} /\ Unclaimed' = Unclaimed \cup {i}
         /\ Runs' = Runs /\ mpc' = mpc
<1> USE DEF IInv, TypeOK
<1>1. Linked' = Linked \cup {i}
  BY AppendElements DEF LinkReady, Linked
<1>2. i \notin Born /\ Born' = Born \cup {i}
  BY DEF LinkReady, Born, MemAlloc
<1>3. i \notin Linked
  BY DEF LinkReady, ReadyInv
<1>4. Unclaimed' = Unclaimed \cup {i}
  BY <1>1, <1>3 DEF LinkReady, Unclaimed
<1>5. Runs' = Runs /\ mpc' = mpc
  BY DEF LinkReady, Runs
<1> QED BY <1>1, <1>2, <1>4, <1>5

(* What the last word of a callback on its item does.                      *)
LEMMA UnlinkView ==
  ASSUME IInv, NEW w \in Worker, Unlink(w)
  PROVE  /\ item[w] \in Linked \ Unclaimed /\ <<w, item[w]>> \in Runs
         /\ Linked' = Linked \ {item[w]} /\ Runs' = Runs \ {<<w, item[w]>>}
         /\ Born' = Born /\ Unclaimed' = Unclaimed /\ mpc' = mpc
<1> USE DEF IInv
<1>1. item[w] \in Item /\ item[w] \in ToSet(ready) /\ item[w] \in inUse
  BY ItemInHand DEF Unlink, WorkerGoes, InHand
<1>2. Linked' = Linked \ {item[w]}
  BY <1>1, RemoveFirstElements DEF Unlink, TypeOK, ReadyInv, Linked
<1>3. Born' = Born /\ mpc' = mpc
  BY DEF Unlink, Born
<1>4. <<w, item[w]>> \in Runs /\ item[w] \in Linked \ Unclaimed
  BY <1>1 DEF Unlink, WorkerGoes, Runs, Linked, Unclaimed
<1>5. Unclaimed' = Unclaimed
  BY <1>1, <1>2 DEF Unlink, Unclaimed
<1>6. ASSUME NEW r \in Worker \X Item
      PROVE  r \in Runs' <=> r \in Runs \ {<<w, item[w]>>}
  BY DEF Unlink, WorkerGoes, Runs, TypeOK
<1>7. Runs' = Runs \ {<<w, item[w]>>}
  BY <1>6 DEF Runs
<1> QED BY <1>2, <1>3, <1>4, <1>5, <1>7

(* What list_get_first does.                                               *)
LEMMA GetFirstView ==
  ASSUME IInv, NEW w \in Worker, GetFirst(w)
  PROVE  /\ Linked' = Linked /\ Born' = Born
         /\ \A i \in Item : <<w, i>> \notin Runs
         /\ \/ /\ item'[w] \in Unclaimed /\ mpc' = mpc
               /\ Unclaimed' = Unclaimed \ {item'[w]}
               /\ Runs' = Runs \cup {<<w, item'[w]>>}
            \/ /\ item'[w] \notin Item /\ (mpc' = mpc \/ mpc' \in Dead)
               /\ Unclaimed' = Unclaimed /\ Runs' = Runs
<1> USE DEF IInv, TypeOK
<1>1. Linked' = Linked /\ Born' = Born
  BY DEF GetFirst, Linked, Born
<1>2. \A i \in Item : <<w, i>> \notin Runs
  BY DEF GetFirst, Runs
<1>3. CASE Unclaimed # {}
  <2>1. PICK k \in DOMAIN ready :
          /\ ready[k] \notin inUse
          /\ inUse' = inUse \cup {ready[k]}
          /\ item' = [item EXCEPT ![w] = ready[k]]
          /\ pc' = [pc EXCEPT ![w] = "running"]
          /\ mpc' = mpc
    BY <1>3 DEF GetFirst, FirstUnclaimed
  <2>2. ready[k] \in Linked /\ ready[k] \in Item /\ item'[w] = ready[k]
    BY <2>1 DEF Linked, ToSet
  <2>3. item'[w] \in Unclaimed /\ Unclaimed' = Unclaimed \ {item'[w]}
    BY <1>1, <2>1, <2>2 DEF Unclaimed
  <2>4. ASSUME NEW r \in Worker \X Item
        PROVE  r \in Runs' <=> r \in Runs \cup {<<w, item'[w]>>}
    BY <1>2, <2>1, <2>2 DEF Runs
  <2>5. Runs' = Runs \cup {<<w, item'[w]>>}
    BY <2>2, <2>4 DEF Runs
  <2> QED BY <1>1, <1>2, <2>1, <2>3, <2>5
<1>4. CASE Unclaimed = {}
  <2>1. /\ pc' = [pc EXCEPT ![w] = "loop"] /\ pc[w] = "first"
        /\ mpc' \in {"aborted", mpc}
        /\ UNCHANGED <<inUse, item>>
    BY <1>4 DEF GetFirst
  <2>2. item'[w] \notin Item
    BY <2>1, WorkQueueAssumption DEF OwnedOnce, InHand
  <2>3. Unclaimed' = Unclaimed /\ Runs' = Runs
    BY <1>1, <2>1 DEF Unclaimed, Runs
  <2> QED BY <1>1, <1>2, <2>1, <2>2, <2>3 DEF Dead
<1> QED BY <1>3, <1>4

(* The other moves of a thread change nothing the data sees.               *)
LEMMA ThreadView ==
  ASSUME IInv, NEW w \in Worker, ThreadMoves(w)
  PROVE  SameQueue /\ mpc' = mpc
<1> USE DEF IInv, TypeOK, SameQueue, WorkerGoes
<1>1. CASE StartThread(w) \/ LoopTest(w) \/ SemWait(w) \/ ExitTest(w)
  <2>1. UNCHANGED <<ready, inUse, heap, item, mpc>> /\ pc[w] # "running"
        /\ \E to \in WorkerPc \ {"running"} : pc' = [pc EXCEPT ![w] = to]
    BY <1>1 DEF StartThread, LoopTest, SemWait, ExitTest, listVars, WorkerPc
  <2> QED BY <2>1 DEF Born, Linked, Unclaimed, Runs
<1>2. CASE FreeItem(w)
  <2>1. item[w] \in Born /\ pc[w] = "freeing" /\ item[w] \in Item
    BY <1>2, ItemInHand DEF FreeItem, HandInv, Born, InHand
  <2>2. Born' = Born
    BY <1>2, <2>1 DEF FreeItem, Born, MemFree
  <2>3. Runs' = Runs
    BY <1>2, WorkQueueAssumption DEF FreeItem, Runs
  <2> QED BY <1>2, <2>2, <2>3 DEF FreeItem, Linked, Unclaimed
<1>3. CASE LinkDone(w)
  <2>1. item[w] \notin Linked
    BY <1>3 DEF LinkDone, HandInv
  <2>2. Runs' = Runs
    BY <1>3 DEF LinkDone, Runs
  <2> QED BY <1>3, <2>1, <2>2 DEF LinkDone, Linked, Unclaimed, Born
<1>4. CASE UnlockDone(w)
  <2>1. Runs' = Runs
    BY <1>4, WorkQueueAssumption DEF UnlockDone, Runs
  <2> QED BY <1>4, <2>1 DEF UnlockDone, listVars, Linked, Unclaimed, Born
<1> QED BY <1>1, <1>2, <1>3, <1>4 DEF ThreadMoves

(* Nor do the moves of main that are not about files.                      *)
LEMMA MainView ==
  ASSUME IInv,
         \/ MainMoves \/ FindEnds \/ FindInterrupted \/ BeginCompare \/ CompareQueued
         \/ MainPolls \/ Interrupted \/ PrintCounts \/ Fails
         \/ \E p \in Proc : Post(p)
  PROVE  SameQueue
<1> USE DEF IInv, TypeOK, SameQueue
<1>1. ASSUME UNCHANGED <<ready, inUse, heap, item>>,
             \/ UNCHANGED pc
             \/ \E w \in Worker : pc[w] = "absent" /\ pc' = [pc EXCEPT ![w] = "created"]
      PROVE  SameQueue
  BY <1>1 DEF Born, Linked, Unclaimed, Runs
<1>2. CASE MainMoves
  <2>1. CASE \E w \in Worker : Spawn(w)
    <3>1. PICK w \in Worker : Spawn(w)
      BY <2>1
    <3> QED BY <1>1, <3>1 DEF Spawn, WorkerGoes, listVars
  <2>2. CASE InitLists
    <3>1. UNCHANGED <<ready, inUse, heap, item, pc>>
      BY <2>2, EmptyBefore DEF InitLists
    <3> QED BY <1>1, <3>1
  <2>3. CASE CleanFrees
    <3>1. cursor \in 1..Len(done)
      BY <2>3 DEF CleanFrees, DoneInv
    <3>2. heap[done[cursor]] = "live"
      BY <2>3, <3>1 DEF CleanFrees, DoneInv
    <3>3. Born' = Born
      BY <2>3, <3>1, <3>2 DEF CleanFrees, Born, MemFree
    <3> QED BY <2>3, <3>3 DEF CleanFrees, Linked, Unclaimed, Runs
  <2>4. CASE CleanChecks \/ CleanEnds \/ PoolExit \/ QueueExit \/ PostExit \/ PostsDone
             \/ JoinAll
    BY <1>1, <2>4 DEF CleanChecks, CleanEnds, PoolExit, QueueExit, PostExit,
       PostsDone, JoinAll, listVars
  <2> QED BY <1>2, <2>1, <2>2, <2>3, <2>4 DEF MainMoves
<1>3. CASE FindEnds \/ FindInterrupted \/ BeginCompare \/ CompareQueued \/ MainPolls
           \/ PrintCounts \/ \E p \in Proc : Post(p)
  BY <1>1, <1>3 DEF FindEnds, FindInterrupted, BeginCompare, CompareQueued,
     MainPolls, PrintCounts, Post, Produced, FindFailed, StartCompare, Poll,
     Succeeded, PostReady, listVars
<1>4. CASE Interrupted
  <2>1. ready = <<>> /\ Linked = {}
    BY <1>4, EmptyBefore DEF Interrupted, Linked, ToSet
  <2>2. UNCHANGED <<ready, inUse, item, pc>>
    BY <1>4, <2>1 DEF Interrupted, EmptyReadyList
  <2>3. Born' = Born
    BY <1>4, <2>1 DEF Interrupted, EmptyReadyList, Born
  <2> QED BY <2>2, <2>3 DEF Linked, Unclaimed, Runs
<1>5. CASE Fails
  BY <1>1, <1>5 DEF Fails, Failure, MainExits, Crash, CallbackExits, listVars
<1> QED BY <1>2, <1>3, <1>4, <1>5

-----------------------------------------------------------------------------
(* The steps of find-dupes as the data sees them. *)

(* Main goes from one part of its work to the next.                        *)
MainGoesOn ==
  \/ mpc' = mpc \/ mpc' \in Dead
  \/ mpc = "spawn" /\ mpc' = "find"
  \/ mpc = "find" /\ mpc' = "findPoll" /\ ~term /\ todo[Main] = {} /\ src = Len(Sources)
  \/ mpc = "findPoll" /\ mpc' = "findDone"
  \/ mpc = "compare" /\ mpc' = "comparePoll" /\ CompareItem \subseteq Born
  \/ mpc = "comparePoll" /\ mpc' = "compareDone"
  \/ mpc \in {"clean"} \cup Shutdown /\ mpc' \in Shutdown

(* Main goes on, or a list file is closed.                                 *)
Still ==
  /\ SameQueue /\ MainGoesOn
  /\ UNCHANGED <<term, findVars, compareVars, failed, printed>>
  /\ open' \in {open, FALSE}

(* Main ends a phase after a signal.                                       *)
Quits ==
  /\ SameQueue
  /\ term /\ failed'
  /\ mpc \in {"find", "findDone", "compareDone"} /\ mpc' = "clean"
  /\ UNCHANGED <<term, findVars, compareVars, open, printed>>

(* A signal comes.                                                         *)
Signalled ==
  /\ SameQueue /\ mpc' = mpc /\ term'
  /\ UNCHANGED <<findVars, compareVars, mainVars>>

(* Who may read a directory, and when.                                     *)
Reading(p) ==
  /\ ~term
  /\ \/ p = Main /\ mpc = "find"
     \/ p \in Worker /\ mpc \in {"find", "findPoll"} /\ \E d \in FindItem : <<p, d>> \in Runs

(* A reader inserts a file in the table,                                   *)
GivesFile(p, f) == Reading(p) /\ SameQueue /\ mpc' = mpc /\ ReadFile(p, f)

(* or puts a directory on the queue.                                       *)
GivesDir(p, d) ==
  /\ Reading(p)
  /\ d \in todo[p] \ Born
  /\ Born' = Born \cup {d} /\ Linked' = Linked \cup {d} /\ Unclaimed' = Unclaimed \cup {d}
  /\ Runs' = Runs /\ mpc' = mpc
  /\ todo' = [todo EXCEPT ![p] = @ \ {d}]
  /\ UNCHANGED <<term, src, table, extras, emptyLst, total, compareVars, mainVars>>

(* Main puts a bucket on the queue.                                        *)
Queues(b) ==
  /\ mpc = "compare" /\ mpc' = mpc
  /\ b \notin Born
  /\ Born' = Born \cup {b} /\ Linked' = Linked \cup {b} /\ Unclaimed' = Unclaimed \cup {b}
  /\ Runs' = Runs
  /\ UNCHANGED <<term, findVars, compareVars, mainVars>>

(* The callback of thread w on item i ends.                                *)
Ends(w, i) ==
  /\ <<w, i>> \in Runs
  /\ Linked' = Linked \ {i} /\ Runs' = Runs \ {<<w, i>>}
  /\ Born' = Born /\ Unclaimed' = Unclaimed /\ mpc' = mpc
  /\ UNCHANGED <<term, src, extras, emptyLst, total, compareVars, mainVars>>

(* It has read its directory, or looked at the signal;                     *)
EndsFind(w, i) ==
  /\ Ends(w, i)
  /\ todo[w] = {} \/ term
  /\ todo' = [todo EXCEPT ![w] = {}]
  /\ UNCHANGED table

(* or it has come to the end of its bucket.                                *)
EndsCompare(w, i) ==
  /\ Ends(w, i)
  /\ at[w] > Len(table[i])
  /\ mpc \in CompareStage
  /\ table' = [table EXCEPT ![i] = <<>>]
  /\ UNCHANGED todo

(* The callback is at an entry: it passes it over, writes a group or a name.*)
AtEntry(w, i) ==
  /\ <<w, i>> \in Runs
  /\ at[w] <= Len(table[i])
  /\ SameQueue /\ mpc' = mpc /\ mpc \in CompareStage
  /\ UNCHANGED <<term, findVars, mainVars>>

(* It passes over a marked entry, or gives up after a signal.              *)
Passes(w, i) ==
  /\ AtEntry(w, i)
  /\ \/ at[w] \in matched[i] /\ at' = [at EXCEPT ![w] = at[w] + 1]
     \/ term /\ at' = [at EXCEPT ![w] = Len(table[i]) + 1]
  /\ UNCHANGED <<matched, dupes, unique, counts>>

(* It writes what it has found of its first entry:                         *)
Lists(w, i) ==
  /\ AtEntry(w, i)
  /\ at[w] \notin matched[i] /\ ~term
  /\ at' = [at EXCEPT ![w] = at[w] + 1]
  /\ matched' = [matched EXCEPT ![i] = @ \cup Matches(i, at[w])]

(* a group,                                                                *)
ListsGroup(w, i) ==
  /\ Lists(w, i)
  /\ Matches(i, at[w]) # {}
  /\ dupes' = Append(dupes, GroupOf(i, at[w]))
  /\ counts' = [counts EXCEPT ![i].dupes = @ + Cardinality(Matches(i, at[w]))]
  /\ UNCHANGED unique

(* or a unique name.                                                       *)
ListsName(w, i) ==
  /\ Lists(w, i)
  /\ Matches(i, at[w]) = {}
  /\ unique' = Append(unique, table[i][at[w]])
  /\ counts' = [counts EXCEPT ![i].unique = @ + 1]
  /\ UNCHANGED dupes

(* Thread w has claimed item i and calls back, or it has found nothing.    *)
Begins(w, i) ==
  /\ i \in Unclaimed
  /\ \A j \in Item : <<w, j>> \notin Runs
  /\ Linked' = Linked /\ Born' = Born /\ mpc' = mpc
  /\ Unclaimed' = Unclaimed \ {i} /\ Runs' = Runs \cup {<<w, i>>}
  /\ todo' = [todo EXCEPT ![w] = IF i \in FindItem THEN Contents[i] ELSE {}]
  /\ at' = [at EXCEPT ![w] = 1]
  /\ UNCHANGED <<term, src, table, extras, emptyLst, total, matched, dupes, unique,
                 counts, mainVars>>

(* A thread looks for work in vain or the program dies under it.           *)
BeginsNothing(w) ==
  /\ \A j \in Item : <<w, j>> \notin Runs
  /\ SameQueue /\ (mpc' = mpc \/ mpc' \in Dead)
  /\ todo' = [todo EXCEPT ![w] = {}]
  /\ at' = [at EXCEPT ![w] = 1]
  /\ UNCHANGED <<term, src, table, extras, emptyLst, total, matched, dupes, unique,
                 counts, mainVars>>

(* Main turns to the next source,                                          *)
Advances == SameQueue /\ mpc' = mpc /\ NextSource

(* begins the comparison,                                                  *)
Starts ==
  /\ SameQueue /\ mpc = "findDone" /\ mpc' = "compare"
  /\ BeginCompare

(* and prints the counts.                                                  *)
Prints ==
  /\ SameQueue /\ mpc = "compareDone" /\ mpc' = "clean"
  /\ PrintCounts

(* A step, seen from the queue and the data.                               *)
ViewNext ==
  \/ Still \/ Quits \/ Signalled \/ Advances \/ Starts \/ Prints
  \/ \E p \in Proc : \/ \E f \in File : GivesFile(p, f)
                     \/ \E d \in FindItem : GivesDir(p, d)
  \/ \E b \in CompareItem : Queues(b)
  \/ \E w \in Worker : \/ BeginsNothing(w)
                       \/ \E d \in FindItem : EndsFind(w, d)
                       \/ \E b \in CompareItem : \/ EndsCompare(w, b) \/ Passes(w, b)
                                                  \/ ListsGroup(w, b) \/ ListsName(w, b)
                       \/ \E i \in Item : Begins(w, i)

(* Nothing runs when main cleans up after a run without a signal.          *)
CleanInv == mpc = "clean" /\ ~term => Linked = {}

(* A callback that runs is seen in Runs, and nothing is seen of a thread   *)
(* that runs none.                                                         *)
LEMMA RunsView ==
  ASSUME IInv
  PROVE  /\ \A w \in Worker : pc[w] = "running" => <<w, item[w]>> \in Runs
         /\ \A w \in Worker, i \in Item : <<w, i>> \in Runs => pc[w] = "running" /\ item[w] = i
<1>1. \A w \in Worker : pc[w] = "running" => item[w] \in Item
  BY ItemInHand DEF InHand
<1> QED BY <1>1 DEF Runs

(* A directory is read before a signal and in the first two stages only.   *)
LEMMA ReadingView ==
  ASSUME IInv, CleanInv, NEW p \in Proc, ~term, Alive, FindingDir(p)
  PROVE  Reading(p)
<1>1. CASE p = Main
  BY <1>1 DEF FindingDir, Reading
<1>2. CASE p # Main
  <2>1. p \in Worker /\ pc[p] = "running" /\ item[p] \in FindItem
    BY <1>2 DEF FindingDir, Proc
  <2>2. <<p, item[p]>> \in Runs /\ item[p] \in Item
    BY <2>1, RunsView DEF Item
  <2>3. mpc \notin {"spawn", "findDone", "compareDone"} \cup Shutdown \cup TableStage
    BY <2>1, <2>2, QueueFacts
  <2>4. mpc # "clean"
    BY <2>1, <2>2, QueueFacts DEF CleanInv
  <2>5. mpc \in MainPc
    BY DEF IInv, TypeOK
  <2>6. mpc \in {"find", "findPoll"}
    BY <2>3, <2>4, <2>5 DEF MainPc, Alive, Shutdown, TableStage
  <2> QED BY <2>1, <2>2, <2>6 DEF Reading
<1> QED BY <1>1, <1>2

(* A compare callback runs at the compare stages only.                     *)
LEMMA ComparingView ==
  ASSUME IInv, CompareLinked, NEW w \in Worker, Comparing(w)
  PROVE  <<w, item[w]>> \in Runs /\ item[w] \in Linked /\ mpc \in CompareStage
BY RunsView, RunningIsLinked DEF Comparing, CompareLinked, Alive, Dead, CompareStage

(* Every step of find-dupes is one of these.                               *)
LEMMA StepView ==
  ASSUME IInv, CompareLinked, CleanInv, [FDNext]_fdVars
  PROVE  ViewNext
<1>1. ASSUME SameQueue, MainGoesOn, UNCHANGED <<term, findVars, compareVars, mainVars>>
      PROVE  ViewNext
  BY <1>1 DEF ViewNext, Still, mainVars
<1>2. ASSUME NEW p \in Proc, NEW f \in File, ReadFile(p, f) PROVE ViewNext
  <2>1. SameQueue /\ mpc' = mpc
    BY <1>2 DEF ReadFile, vars, SameQueue, Born, Linked, Unclaimed, Runs
  <2>2. Reading(p)
    BY <1>2, ReadingView DEF ReadFile, Takes
  <2> QED BY <1>2, <2>1, <2>2 DEF ViewNext, GivesFile
<1>3. ASSUME NEW p \in Proc, NEW d \in FindItem, ReadDir(p, d) PROVE ViewNext
  <2>1. Reading(p)
    BY <1>3, ReadingView DEF ReadDir, Takes
  <2>2. LinkReady(p, d) /\ d \in Item
    BY <1>3 DEF ReadDir, MainQueues, CallbackQueues, Item
  <2>3. GivesDir(p, d)
    BY <1>3, <2>1, <2>2, LinkView DEF GivesDir, ReadDir, Takes
  <2> QED BY <2>3 DEF ViewNext
<1>4. ASSUME NEW b \in CompareItem, QueueBucket(b) PROVE ViewNext
  <2>1. LinkReady(Main, b) /\ b \in Item /\ Main \in Proc
    BY <1>4 DEF QueueBucket, MainQueues, Item, Proc
  <2>2. Queues(b)
    BY <1>4, <2>1, LinkView DEF Queues, QueueBucket
  <2> QED BY <2>2 DEF ViewNext
<1>5. ASSUME NEW w \in Worker, FindReturns(w) PROVE ViewNext
  <2>1. EndsFind(w, item[w])
    BY <1>5, UnlinkView DEF EndsFind, Ends, FindReturns
  <2> QED BY <1>5, <2>1 DEF ViewNext, FindReturns
<1>6. ASSUME NEW w \in Worker, CompareReturns(w) PROVE ViewNext
  <2>1. EndsCompare(w, item[w])
    BY <1>6, UnlinkView, ComparingView DEF EndsCompare, Ends, CompareReturns
  <2> QED BY <1>6, <2>1 DEF ViewNext, CompareReturns, Comparing
<1>7. ASSUME NEW w \in Worker, CompareEntry(w) PROVE ViewNext
  <2>1. Comparing(w)
    BY <1>7 DEF CompareEntry
  <2>2. SameQueue /\ mpc' = mpc
    BY <1>7 DEF CompareEntry, vars, SameQueue, Born, Linked, Unclaimed, Runs
  <2>3. AtEntry(w, item[w])
    BY <1>7, <2>1, <2>2, ComparingView DEF AtEntry, CompareEntry
  <2>4. Passes(w, item[w]) \/ ListsGroup(w, item[w]) \/ ListsName(w, item[w])
    BY <1>7, <2>3 DEF CompareEntry, Passes, Lists, ListsGroup, ListsName
  <2> QED BY <2>1, <2>4 DEF ViewNext, Comparing
<1>8. ASSUME NEW w \in Worker, BeginCallback(w) PROVE ViewNext
  <2>1. GetFirst(w)
    BY <1>8 DEF BeginCallback
  <2>2. CASE item'[w] \in Unclaimed
    <3>1. item'[w] \in Item
      BY <2>2, QueueFacts
    <3>2. Begins(w, item'[w])
      BY <1>8, <2>1, <2>2, <3>1, GetFirstView DEF BeginCallback, Begins
    <3> QED BY <3>1, <3>2 DEF ViewNext
  <2>3. CASE item'[w] \notin Unclaimed
    <3>1. item'[w] \notin Item /\ SameQueue /\ (mpc' = mpc \/ mpc' \in Dead)
          /\ \A j \in Item : <<w, j>> \notin Runs
      BY <2>1, <2>3, GetFirstView DEF SameQueue
    <3>2. BeginsNothing(w)
      BY <1>8, <3>1 DEF BeginCallback, BeginsNothing, Item
    <3> QED BY <3>2 DEF ViewNext
  <2> QED BY <2>2, <2>3
<1>9. ASSUME NEW w \in Worker, ThreadMoves(w) PROVE ViewNext
  BY <1>1, <1>9, ThreadView DEF ThreadMoves, MainGoesOn
<1>10. ASSUME NEW p \in Proc, Post(p) PROVE ViewNext
  <2>1. SameQueue
    BY <1>10, MainView
  <2> QED BY <1>1, <1>10, <2>1 DEF Post, PostReady, MainGoesOn
<1>11. CASE MainMoves
  <2>1. SameQueue
    BY <1>11, MainView
  <2>2. MainGoesOn
    BY <1>11 DEF MainMoves, Spawn, InitLists, CleanChecks, CleanFrees, CleanEnds,
       PoolExit,
       QueueExit, PostExit, PostsDone, JoinAll, MainGoes, MainGoesOn, Shutdown, Dead
  <2> QED BY <1>1, <1>11, <2>1, <2>2 DEF MainMoves
<1>12. CASE FindEnds \/ CompareQueued \/ MainPolls
  <2>1. SameQueue
    BY <1>12, MainView
  <2>2. MainGoesOn
    BY <1>12 DEF FindEnds, CompareQueued, MainPolls, Produced, Poll, MainGoes,
       MainGoesOn,
       Born, Item
  <2> QED BY <1>1, <1>12, <2>1, <2>2 DEF FindEnds, CompareQueued, MainPolls
<1>13. CASE Fails
  <2>1. SameQueue
    BY <1>13, MainView
  <2>2. MainGoesOn
    BY <1>13 DEF Fails, Failure, MainExits, Crash, CallbackExits, MainGoes, MainGoesOn,
       Dead
  <2> QED BY <1>1, <1>13, <2>1, <2>2 DEF Fails
<1>14. CASE CloseLists
  <2>1. SameQueue /\ MainGoesOn
    BY <1>14 DEF CloseLists, vars, SameQueue, MainGoesOn, Born, Linked, Unclaimed, Runs
  <2> QED BY <1>14, <2>1 DEF CloseLists, ViewNext, Still
<1>15. CASE FindInterrupted \/ Interrupted
  <2>1. SameQueue
    BY <1>15, MainView
  <2> QED BY <1>15, <2>1 DEF FindInterrupted, FindFailed, Interrupted, EmptyReadyList,
       MainGoes, ViewNext, Quits
<1>16. CASE BeginCompare \/ PrintCounts
  <2>1. SameQueue
    BY <1>16, MainView
  <2> QED BY <1>16, <2>1 DEF BeginCompare, StartCompare, PrintCounts, Succeeded,
       MainGoes, ViewNext, Starts, Prints
<1>17. CASE Signal \/ NextSource
  <2>1. SameQueue /\ mpc' = mpc
    BY <1>17 DEF Signal, NextSource, vars, SameQueue, Born, Linked, Unclaimed, Runs
  <2> QED BY <1>17, <2>1 DEF Signal, ViewNext, Signalled, Advances
<1>18. CASE Over \/ UNCHANGED fdVars
  <2>1. SameQueue /\ MainGoesOn
    BY <1>18 DEF Over, fdVars, vars, SameQueue, MainGoesOn, Born, Linked, Unclaimed,
       Runs
  <2> QED BY <1>1, <1>18, <2>1 DEF Over, fdVars
<1> QED BY <1>2, <1>3, <1>4, <1>5, <1>6, <1>7, <1>8, <1>9, <1>10, <1>11, <1>12, <1>13,
      <1>14, <1>15, <1>16, <1>17, <1>18
  DEF FDNext, FDMainStep, FDWorkerStep, Proc

(* A run that ends without a signal leaves the queue empty.                *)
LEMMA CleanStep ==
  ASSUME IInv, CleanInv, ViewNext
  PROVE  CleanInv'
<1> USE DEF CleanInv
<1>1. CASE Still \/ Quits \/ Signalled \/ Advances \/ Starts
  BY <1>1 DEF Still, Quits, Signalled, Advances, NextSource, Starts, SameQueue,
     MainGoesOn,
     Shutdown, Dead
<1>2. CASE Prints
  BY <1>2, QueueFacts DEF Prints, SameQueue
<1>3. ASSUME NEW p \in Proc, NEW e, GivesFile(p, e) \/ GivesDir(p, e) PROVE CleanInv'
  BY <1>3 DEF GivesFile, GivesDir, Reading
<1>4. ASSUME NEW b \in CompareItem, Queues(b) PROVE CleanInv'
  BY <1>4 DEF Queues
<1>5. ASSUME NEW w \in Worker, NEW i, \/ BeginsNothing(w) \/ Begins(w, i)
                                      \/ EndsFind(w, i) \/ EndsCompare(w, i) \/ Passes(w, i)
                                      \/ ListsGroup(w, i) \/ ListsName(w, i)
      PROVE  CleanInv'
  BY <1>5 DEF BeginsNothing, Begins, EndsFind, EndsCompare, Ends, Passes, ListsGroup,
     ListsName, Lists, AtEntry, SameQueue, Dead
<1> QED BY <1>1, <1>2, <1>3, <1>4, <1>5 DEF ViewNext

-----------------------------------------------------------------------------
(* Types. *)

(* FDTypeOK but for where in its bucket a compare callback is.             *)
DataTypes ==
  /\ term \in BOOLEAN
  /\ src \in 1..Len(Sources)
  /\ todo \in [Proc -> SUBSET (FindItem \cup File)]
  /\ table \in [CompareItem -> Seq(File)]
  /\ extras \in Seq(File)
  /\ emptyLst \in Seq(File)
  /\ total \in Nat
  /\ at \in [Worker -> Nat]
  /\ matched \in [CompareItem -> SUBSET Nat]
  /\ dupes \in Seq(Seq(File))
  /\ unique \in Seq(File)
  /\ counts \in [CompareItem -> [dupes : Nat, unique : Nat]]
  /\ open \in BOOLEAN
  /\ failed \in BOOLEAN
  /\ printed \in [dupes : Nat, unique : Nat, shown : BOOLEAN]

AtInv ==
  \A w \in Worker, b \in CompareItem :
    <<w, b>> \in Runs => at[w] \in 1..(Len(table[b]) + 1)

(* The two make up FDTypeOK.                                               *)
LEMMA TypesView ==
  ASSUME IInv, DataTypes, AtInv
  PROVE  FDTypeOK
BY RunsView DEF DataTypes, AtInv, FDTypeOK

(* A group is made of the entry and its matches, each of them once.        *)
LEMMA GroupShape ==
  ASSUME NEW b \in CompareItem, table[b] \in Seq(File), NEW k \in 1..Len(table[b])
  PROVE  /\ IsFiniteSet(Matches(b, k)) /\ Matches(b, k) \subseteq (k + 1)..Len(table[b])
         /\ Cardinality(Matches(b, k)) \in Nat
         /\ GroupOf(b, k) \in Seq(File)
         /\ Len(GroupOf(b, k)) = Cardinality(Matches(b, k)) + 1
         /\ ToSet(GroupOf(b, k)) = {table[b][j] : j \in {k} \cup Matches(b, k)}
         /\ IsInjective(table[b]) => IsInjective(GroupOf(b, k))
<1> DEFINE M == Matches(b, k)
           S == {k} \cup M
           e == Ascending(S)
           n == Cardinality(S)
<1>1. Len(table[b]) \in Nat /\ DOMAIN table[b] = 1..Len(table[b])
  OBVIOUS
<1>2. M \subseteq (k + 1)..Len(table[b]) /\ k \notin M
  BY <1>1 DEF Matches
<1>3. IsFiniteSet((k + 1)..Len(table[b])) /\ M \in SUBSET ((k + 1)..Len(table[b]))
  <2>1. k + 1 \in Int /\ Len(table[b]) \in Int
    BY <1>1
  <2> HIDE DEF M
  <2> QED BY <1>2, <2>1, FS_Interval
<1> HIDE DEF M
<1>4. IsFiniteSet(M) /\ Cardinality(M) \in Nat
  <2>1. IsFiniteSet(M)
    BY <1>3, FS_Subset
  <2> QED BY <2>1, FS_CardinalityType
<1>5. S \subseteq 1..Len(table[b]) /\ S \subseteq Nat
  <2>1. k \in Nat /\ k <= Len(table[b])
    BY <1>1
  <2>2. \A j \in M : j \in Nat /\ j \in 1..Len(table[b])
    BY <1>1, <1>2, <2>1
  <2> QED BY <2>1, <2>2
<1>6. IsFiniteSet(S) /\ n = Cardinality(M) + 1 /\ n \in Nat
  <2>1. IsFiniteSet(M \cup {k}) /\ Cardinality(M \cup {k}) = Cardinality(M) + 1
    BY <1>2, <1>4, FS_AddElement
  <2>2. S = M \cup {k}
    OBVIOUS
  <2> HIDE DEF S
  <2> QED BY <1>4, <2>1, <2>2
<1> HIDE DEF S, n
<1>7. /\ e \in [1..n -> S]
      /\ \A i, j \in 1..n : i < j => e[i] < e[j]
      /\ \A x \in S : \E i \in 1..n : e[i] = x
  BY <1>5, <1>6, AscendingIsSorted DEF n
<1> DEFINE g == [i \in 1..n |-> table[b][e[i]]]
<1>8. GroupOf(b, k) = g
  BY <1>7 DEF GroupOf, S, M
<1> HIDE DEF e
<1>9. g \in Seq(File) /\ Len(g) = n
  <2>1. \A i \in 1..n : e[i] \in 1..Len(table[b])
    BY <1>5, <1>7
  <2>2. g \in [1..n -> File]
    BY <1>1, <2>1
  <2> QED BY <1>6, <2>2
<1>10. ToSet(g) = {table[b][j] : j \in S}
  BY <1>7 DEF ToSet
<1>11. ASSUME IsInjective(table[b]) PROVE IsInjective(g)
  <2> SUFFICES ASSUME NEW i \in 1..n, NEW j \in 1..n, g[i] = g[j] PROVE i = j
    BY DEF IsInjective
  <2>1. e[i] \in S /\ e[j] \in S
    BY <1>7
  <2>2. e[i] = e[j]
    BY <1>1, <1>5, <1>11, <2>1 DEF IsInjective
  <2>3. i \in Int /\ j \in Int
    BY <1>6
  <2>4. e[i] \in Int /\ e[j] \in Int
    <3>1. e[i] \in Nat /\ e[j] \in Nat
      BY <1>5, <2>1
    <3> QED BY <3>1
  <2> QED BY <1>7, <2>2, <2>3, <2>4
<1> HIDE DEF g
<1> QED BY <1>2, <1>4, <1>6, <1>8, <1>9, <1>10, <1>11 DEF S, M

(* Every step keeps the types,                                             *)
LEMMA TypesStep ==
  ASSUME IInv, DataTypes, AtInv, ViewNext
  PROVE  DataTypes'
<1> USE DEF findVars, compareVars, mainVars
<1>a. todo \in [Proc -> SUBSET (FindItem \cup File)] /\ at \in [Worker -> Nat]
  BY DEF DataTypes
<1>b. table \in [CompareItem -> Seq(File)] /\ extras \in Seq(File)
  BY DEF DataTypes
<1>c. matched \in [CompareItem -> SUBSET Nat] /\ counts \in [CompareItem -> [dupes : Nat, unique : Nat]]
  BY DEF DataTypes
<1>d. dupes \in Seq(Seq(File)) /\ unique \in Seq(File)
  BY DEF DataTypes
<1>1. CASE Still \/ Quits \/ Signalled
  BY <1>1 DEF Still, Quits, Signalled, DataTypes
<1>2. CASE Advances
  <2>1. Sources[src + 1] \in Dir /\ src + 1 \in 1..Len(Sources)
    BY <1>2, FindDupesAssumption DEF Advances, NextSource, DataTypes
  <2>2. Contents[Sources[src + 1]] \in SUBSET (FindItem \cup File)
    BY <2>1, FindDupesAssumption
  <2> QED BY <1>2, <2>1, <2>2 DEF Advances, NextSource, DataTypes
<1>3. CASE Starts
  <2> DEFINE sizes == [b \in CompareItem |-> Len(table[b])]
  <2>1. sizes \in [CompareItem -> Nat]
    BY <1>b
  <2> HIDE DEF sizes
  <2>2. SumFunction(sizes) \in Nat
    BY <2>1, WorkQueueAssumption, SumIsNatural
  <2>3. total' = Len(extras) + SumFunction(sizes)
    BY <1>3 DEF Starts, BeginCompare, sizes
  <2>4. total' \in Nat
    BY <1>b, <2>2, <2>3
  <2> QED BY <1>3, <2>4 DEF Starts, BeginCompare, DataTypes
<1>4. CASE Prints
  <2> DEFINE finished == ToSet(done)
             d == [b \in finished |-> counts[b].dupes]
             u == [b \in finished |-> counts[b].unique]
  <2>1. finished \subseteq CompareItem
    BY DEF IInv, TypeOK, ToSet
  <2>2. IsFiniteSet(finished)
    BY <2>1, WorkQueueAssumption, FS_Subset
  <2> HIDE DEF finished
  <2>3. d \in [finished -> Nat] /\ u \in [finished -> Nat]
    BY <1>c, <2>1
  <2> HIDE DEF d, u
  <2>4. SumFunction(d) \in Nat /\ SumFunction(u) \in Nat
    BY <2>2, <2>3, SumIsNatural
  <2>5. printed' = [dupes |-> SumFunction(d), unique |-> SumFunction(u), shown |-> TRUE]
    BY <1>4 DEF Prints, PrintCounts, d, u, finished
  <2> QED BY <1>4, <2>4, <2>5 DEF Prints, PrintCounts, DataTypes
<1>5. ASSUME NEW p \in Proc, NEW f \in File, GivesFile(p, f) PROVE DataTypes'
  <2>1. Index(Size[f]) \in CompareItem
    BY FindDupesAssumption
  <2>2. todo' \in [Proc -> SUBSET (FindItem \cup File)]
    <3>1. todo' = [todo EXCEPT ![p] = @ \ {f}]
      BY <1>5 DEF GivesFile, ReadFile, Takes
    <3> QED BY <1>a, <3>1
  <2>3. table' \in [CompareItem -> Seq(File)] /\ extras' \in Seq(File)
    <3> DEFINE b == Index(Size[f])
    <3>1. Append(table[b], f) \in Seq(File) /\ Append(extras, f) \in Seq(File)
      BY <1>b, <2>1, AppendElements
    <3>2. /\ table' \in {table, [table EXCEPT ![b] = Append(@, f)]}
          /\ extras' \in {extras, Append(extras, f)}
      BY <1>5 DEF GivesFile, ReadFile
    <3> HIDE DEF b
    <3> QED BY <1>b, <3>1, <3>2
  <2> QED BY <1>5, <2>2, <2>3 DEF GivesFile, ReadFile, DataTypes
<1>6. ASSUME NEW p \in Proc, NEW d \in FindItem, GivesDir(p, d) PROVE DataTypes'
  <2>1. todo' \in [Proc -> SUBSET (FindItem \cup File)]
    BY <1>6, <1>a DEF GivesDir
  <2> QED BY <1>6, <2>1 DEF GivesDir, DataTypes
<1>7. ASSUME NEW b \in CompareItem, Queues(b) PROVE DataTypes'
  BY <1>7 DEF Queues, DataTypes
<1>8. ASSUME NEW w \in Worker, NEW i, EndsFind(w, i) \/ EndsCompare(w, i)
      PROVE  DataTypes'
  <2>1. todo' \in [Proc -> SUBSET (FindItem \cup File)] /\ table' \in [CompareItem -> Seq(File)]
    <3>1. /\ todo' \in {todo, [todo EXCEPT ![w] = {}]}
          /\ table' \in {table, [table EXCEPT ![i] = <<>>]}
      BY <1>8 DEF EndsFind, EndsCompare
    <3>2. <<>> \in Seq(File)
      OBVIOUS
    <3> QED BY <1>a, <1>b, <3>1, <3>2
  <2> QED BY <1>8, <2>1 DEF EndsFind, EndsCompare, Ends, DataTypes
<1>9. ASSUME NEW w \in Worker, NEW b \in CompareItem,
             Passes(w, b) \/ ListsGroup(w, b) \/ ListsName(w, b)
      PROVE  DataTypes'
  <2> DEFINE k == at[w]
             n == Cardinality(Matches(b, k))
             g == [counts[b] EXCEPT !.dupes = @ + n]
             u == [counts[b] EXCEPT !.unique = @ + 1]
  <2>1. /\ table[b] \in Seq(File) /\ k \in 1..Len(table[b])
        /\ UNCHANGED <<term, findVars, mainVars>>
    BY <1>9, <1>a, <1>b DEF Passes, ListsGroup, ListsName, Lists, AtEntry, AtInv
  <2>2. at' \in [Worker -> Nat]
    <3>1. at' \in {[at EXCEPT ![w] = k + 1], [at EXCEPT ![w] = Len(table[b]) + 1]}
      BY <1>9 DEF Passes, ListsGroup, ListsName, Lists
    <3>2. k + 1 \in Nat /\ Len(table[b]) + 1 \in Nat
      BY <2>1
    <3> QED BY <1>a, <3>1, <3>2
  <2>3. n \in Nat /\ GroupOf(b, k) \in Seq(File) /\ Matches(b, k) \subseteq (k + 1)..Len(table[b])
    BY <2>1, GroupShape
  <2>4. table[b][k] \in File
    BY <2>1
  <2>5. Matches(b, k) \subseteq Nat
    BY <2>1, <2>3
  <2>6. matched' \in [CompareItem -> SUBSET Nat]
    <3>1. matched' \in {matched, [matched EXCEPT ![b] = @ \cup Matches(b, k)]}
      BY <1>9 DEF Passes, ListsGroup, ListsName, Lists
    <3> QED BY <1>c, <2>5, <3>1
  <2> HIDE DEF n
  <2>7. g \in [dupes : Nat, unique : Nat] /\ u \in [dupes : Nat, unique : Nat]
    BY <1>c, <2>3
  <2> HIDE DEF g, u
  <2>8. counts' \in {counts, [counts EXCEPT ![b] = g], [counts EXCEPT ![b] = u]}
    BY <1>9 DEF Passes, ListsGroup, ListsName, n, g, u
  <2>9. counts' \in [CompareItem -> [dupes : Nat, unique : Nat]]
    BY <1>c, <2>7, <2>8
  <2>10. /\ dupes' \in {dupes, Append(dupes, GroupOf(b, k))}
         /\ unique' \in {unique, Append(unique, table[b][k])}
    BY <1>9 DEF Passes, ListsGroup, ListsName
  <2>11. dupes' \in Seq(Seq(File)) /\ unique' \in Seq(File)
    <3>1. Append(dupes, GroupOf(b, k)) \in Seq(Seq(File))
      BY <1>d, <2>3, AppendElements
    <3>2. Append(unique, table[b][k]) \in Seq(File)
      BY <1>d, <2>4, AppendElements
    <3> QED BY <1>d, <2>10, <3>1, <3>2
  <2> QED BY <2>1, <2>2, <2>6, <2>9, <2>11 DEF DataTypes
<1>10. ASSUME NEW w \in Worker, BeginsNothing(w) PROVE DataTypes'
  <2>1. todo' \in [Proc -> SUBSET (FindItem \cup File)] /\ at' \in [Worker -> Nat]
    BY <1>10, <1>a DEF BeginsNothing
  <2> QED BY <1>10, <2>1 DEF BeginsNothing, DataTypes
<1>11. ASSUME NEW w \in Worker, NEW i \in Item, Begins(w, i) PROVE DataTypes'
  <2>1. i \in FindItem => Contents[i] \in SUBSET (FindItem \cup File)
    BY FindDupesAssumption
  <2>2. todo' \in [Proc -> SUBSET (FindItem \cup File)] /\ at' \in [Worker -> Nat]
    BY <1>11, <1>a, <2>1 DEF Begins
  <2> QED BY <1>11, <2>2 DEF Begins, DataTypes
<1> QED BY <1>1, <1>2, <1>3, <1>4, <1>5, <1>6, <1>7, <1>8, <1>9, <1>10, <1>11
  DEF ViewNext

(* and each callback within its bucket, which no one else touches: files   *)
(* are entered before any is compared.                                     *)
LEMMA AtStep ==
  ASSUME IInv, DataTypes, AtInv, ViewNext
  PROVE  AtInv'
<1> USE DEF AtInv, DataTypes, findVars, compareVars, mainVars
<1> SUFFICES ASSUME NEW w \in Worker, NEW b \in CompareItem, (<<w, b>> \in Runs)'
             PROVE  (at[w] \in 1..(Len(table[b]) + 1))'
  OBVIOUS
<1>1. CASE \/ Still \/ Quits \/ Signalled \/ Advances \/ Starts \/ Prints
           \/ \E c \in CompareItem : Queues(c)
           \/ \E p \in Proc, d \in FindItem : GivesDir(p, d)
  BY <1>1 DEF Still, Quits, Signalled, Advances, NextSource, Starts, BeginCompare,
     Prints,
     PrintCounts, Queues, GivesDir, SameQueue
<1>2. ASSUME NEW p \in Proc, NEW f \in File, GivesFile(p, f)
      PROVE  (at[w] \in 1..(Len(table[b]) + 1))'
  <2>1. at[w] \in 1..(Len(table[b]) + 1) /\ at' = at
    BY <1>2 DEF GivesFile, SameQueue, ReadFile
  <2>2. table'[b] = table[b] \/ table'[b] = Append(table[b], f)
    BY <1>2 DEF GivesFile, ReadFile
  <2>3. table[b] \in Seq(File) /\ Len(table[b]) \in Nat
    OBVIOUS
  <2>4. Len(table'[b]) \in {Len(table[b]), Len(table[b]) + 1}
    BY <2>2, <2>3
  <2> DEFINE n == Len(table[b])
             l == Len(table'[b])
  <2>5. at[w] \in 1..(n + 1) /\ at'[w] = at[w] /\ n \in Nat /\ l \in {n, n + 1}
    BY <2>1, <2>3, <2>4
  <2> HIDE DEF n, l
  <2>6. at'[w] \in 1..(l + 1)
    BY <2>5
  <2> QED BY <2>6 DEF l
<1>3. ASSUME NEW v \in Worker, NEW i \in FindItem, EndsFind(v, i)
      PROVE  (at[w] \in 1..(Len(table[b]) + 1))'
  BY <1>3 DEF EndsFind, Ends
<1>4. ASSUME NEW v \in Worker, NEW c \in CompareItem, EndsCompare(v, c)
      PROVE  (at[w] \in 1..(Len(table[b]) + 1))'
  <2>1. <<w, b>> \in Runs /\ <<v, c>> \in Runs /\ <<w, b>> # <<v, c>>
    BY <1>4 DEF EndsCompare, Ends
  <2>2. b # c
    BY <2>1, QueueFacts DEF Item
  <2> QED BY <1>4, <2>1, <2>2 DEF EndsCompare, Ends
<1>5. ASSUME NEW v \in Worker, NEW c \in CompareItem,
             Passes(v, c) \/ ListsGroup(v, c) \/ ListsName(v, c)
      PROVE  (at[w] \in 1..(Len(table[b]) + 1))'
  <2>1. <<w, b>> \in Runs /\ <<v, c>> \in Runs /\ table' = table
    BY <1>5 DEF Passes, ListsGroup, ListsName, Lists, AtEntry, SameQueue
  <2>2. CASE v # w
    BY <1>5, <2>1, <2>2 DEF Passes, ListsGroup, ListsName, Lists
  <2>3. CASE v = w
    <3>1. b = c
      BY <2>1, <2>3, QueueFacts DEF Item
    <3>2. at'[w] \in {at[w] + 1, Len(table[b]) + 1} /\ at[w] <= Len(table[b])
      BY <1>5, <2>3, <3>1 DEF Passes, ListsGroup, ListsName, Lists, AtEntry
    <3>3. at[w] \in Nat /\ Len(table[b]) \in Nat
      BY <1>5
    <3> HIDE DEF DataTypes, AtInv
    <3> QED BY <2>1, <3>2, <3>3
  <2> QED BY <2>2, <2>3
<1>6. ASSUME NEW v \in Worker, BeginsNothing(v)
      PROVE  (at[w] \in 1..(Len(table[b]) + 1))'
  BY <1>6 DEF BeginsNothing, SameQueue, Item
<1>7. ASSUME NEW v \in Worker, NEW i \in Item, Begins(v, i)
      PROVE  (at[w] \in 1..(Len(table[b]) + 1))'
  <2>1. CASE v = w
    <3>1. at'[w] = 1 /\ table' = table
      BY <1>7, <2>1 DEF Begins
    <3> QED BY <3>1
  <2>2. CASE v # w
    BY <1>7, <2>2 DEF Begins
  <2> QED BY <2>1, <2>2
<1> QED BY <1>1, <1>2, <1>3, <1>4, <1>5, <1>6, <1>7 DEF ViewNext

(* What every later invariant rests on.                                    *)
BaseInv == IInv /\ CompareLinked /\ CleanInv /\ DataTypes /\ AtInv

(* It holds at first,                                                      *)
LEMMA BaseInit == FDInit => BaseInv
<1> SUFFICES ASSUME FDInit PROVE BaseInv
  OBVIOUS
<1> USE DEF FDInit, Init
<1>1. IInv
  BY InitIInv
<1>2. CompareLinked /\ CleanInv
  BY DEF CompareLinked, CleanInv, Linked, ToSet
<1>3. Runs = {}
  BY DEF Runs
<1>4. DataTypes
  <2>1. Sources[1] \in Dir /\ 1 \in 1..Len(Sources)
    BY FindDupesAssumption
  <2>2. Contents[Sources[1]] \in SUBSET (FindItem \cup File)
    BY <2>1, FindDupesAssumption
  <2>3. todo \in [Proc -> SUBSET (FindItem \cup File)]
    BY <2>2
  <2>4. table \in [CompareItem -> Seq(File)] /\ matched \in [CompareItem -> SUBSET Nat]
    BY <<>> \in Seq(File), {} \in SUBSET Nat
  <2>5. counts \in [CompareItem -> [dupes : Nat, unique : Nat]] /\ at \in [Worker -> Nat]
    OBVIOUS
  <2>6. printed \in [dupes : Nat, unique : Nat, shown : BOOLEAN]
    BY DEF NoCount
  <2>7. dupes \in Seq(Seq(File)) /\ unique \in Seq(File) /\ extras \in Seq(File) /\ emptyLst \in Seq(File)
    OBVIOUS
  <2> QED BY <2>1, <2>3, <2>4, <2>5, <2>6, <2>7 DEF DataTypes
<1> QED BY <1>1, <1>2, <1>3, <1>4 DEF BaseInv, AtInv

(* and after every step.                                                   *)
LEMMA BaseStep ==
  ASSUME BaseInv, [FDNext]_fdVars
  PROVE  BaseInv' /\ ViewNext
<1> USE DEF BaseInv
<1>1. [Next]_vars
  BY QueueStep
<1>2. IInv' /\ CompareLinked'
  BY <1>1, Inductive, CompareLinkedStep
<1>3. ViewNext
  BY StepView
<1> QED BY <1>2, <1>3, CleanStep, TypesStep, AtStep

(* Every variable of find-dupes keeps to its type, and a compare callback  *)
(* to its bucket (compare.c:96-226).                                       *)
THEOREM FDTypeCorrect == FDSpec => []FDTypeOK
<1>1. BaseInv /\ [FDNext]_fdVars => BaseInv'
  BY BaseStep
<1>2. BaseInv => FDTypeOK
  BY TypesView DEF BaseInv
<1> QED BY <1>1, <1>2, BaseInit, PTL DEF FDSpec

===============================================================================
