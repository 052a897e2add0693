----------------------------- MODULE ListsProofs -----------------------------
(***************************************************************************)
(* Theorems about what find-dupes finds and what it lists.  When main goes *)
(* on to compare, every file below the source directories is in the hash   *)
(* table, once if no source lies below another; what compare.c then writes *)
(* is right, and after a success nothing is missing.                       *)
(***************************************************************************)
EXTENDS FindDupesProofs

-----------------------------------------------------------------------------
(* Directories that no one has begun to read, and what is known of: the    *)
(* sources and the sub-directories that have been queued.                  *)
Later == {Sources[k] : k \in (src + 1)..Len(Sources)}
Fresh == {d \in FindItem : d \notin Born \/ d \in Unclaimed}
Untouched == Fresh \cup Later
Known == ToSet(Sources) \cup (FindItem \cap Born)

(* Entries still to be taken from a directory, files already in the table. *)
Pending == (UNION {todo[p] : p \in Proc}) \cup (UNION {Contents[d] : d \in Untouched})
Entered ==
  {f \in File : IF Size[f] = 0 THEN f \in ToSet(extras)
                ELSE f \in ToSet(table[Index(Size[f])])}

Tree == UNION {Contents[d] : d \in ToSet(Sources) \cup FindItem}

(* Only who reads a directory has entries to take, and main none after its *)
(* part of the search.                                                     *)
TodoInv ==
  /\ \A p \in Proc : todo[p] \subseteq Tree
  /\ \A w \in Worker : todo[w] # {} => \E d \in FindItem : <<w, d>> \in Runs
  /\ ~term /\ mpc \notin {"spawn", "find"} \cup Dead =>
       src = Len(Sources) /\ todo[Main] = {}

(* The buckets are queued after the search, all of them before main waits. *)
StageInv ==
  /\ mpc \in FindStage => Born \cap CompareItem = {}
  /\ mpc \in {"comparePoll", "compareDone"} => CompareItem \subseteq Born

(* A file is in the bucket of its size, and a bucket that is done with is  *)
(* empty.                                                                  *)
TableInv ==
  /\ \A f \in ToSet(extras) : f \in Wanted /\ Size[f] = 0
  /\ \A b \in CompareItem : \A f \in ToSet(table[b]) :
       f \in Wanted /\ Size[f] # 0 /\ Index(Size[f]) = b
  /\ \A b \in CompareItem : b \in Born /\ b \notin Linked => table[b] = <<>>

(* What a directory that is known of contains is still to be taken, or was *)
(* taken.                                                                  *)
ReachInv ==
  mpc \in FindStage /\ ~term =>
    \A d \in Known : \A e \in Contents[d] :
      e \in Pending \/ e \in Entered \/ e \in FindItem \cap Born

(* After the search every file is in the table until its bucket is done.   *)
CompleteInv ==
  mpc \in TableStage =>
    \A f \in Wanted :
      IF Size[f] = 0 THEN f \in ToSet(emptyLst)
      ELSE f \in ToSet(table[Index(Size[f])]) \/ Index(Size[f]) \in Born \ Linked

(* A step that leaves the queue and main's source alone leaves directories *)
(* untouched, and so does queueing one or a bucket.                        *)
LEMMA UntouchedView ==
  ASSUME IInv, UNCHANGED src,
         \/ SameQueue
         \/ \E p \in Proc, d \in FindItem : GivesDir(p, d)
         \/ \E b \in CompareItem : Queues(b)
         \/ \E w \in Worker : \E i : Ends(w, i)
         \/ \E w \in Worker, b \in CompareItem : Begins(w, b)
  PROVE  Untouched' = Untouched
<1>1. Later' = Later
  BY DEF Later
<1>2. Fresh' = Fresh
  <2>1. CASE SameQueue \/ \E w \in Worker : \E i : Ends(w, i)
    BY <2>1 DEF SameQueue, Ends, Fresh
  <2>2. CASE \/ \E b \in CompareItem : Queues(b)
             \/ \E w \in Worker, b \in CompareItem : Begins(w, b)
    BY <2>2, WorkQueueAssumption DEF Queues, Begins, Fresh
  <2>3. CASE \E p \in Proc, d \in FindItem : GivesDir(p, d)
    BY <2>3 DEF GivesDir, Fresh
  <2> QED BY <2>1, <2>2, <2>3
<1> QED BY <1>1, <1>2 DEF Untouched

(* Whose entries are still to be taken.                                    *)
LEMMA TodoStep ==
  ASSUME BaseInv, TodoInv, ViewNext
  PROVE  TodoInv'
<1> USE DEF BaseInv, findVars, compareVars, mainVars
<1>a. /\ todo \in [Proc -> SUBSET (FindItem \cup File)]
      /\ Main \in Proc /\ Worker \subseteq Proc /\ Main \notin Worker
  BY WorkQueueAssumption DEF DataTypes, Proc
<1>b. \A d \in ToSet(Sources) \cup FindItem : Contents[d] \subseteq Tree
  BY DEF Tree
<1>1. CASE Still \/ Quits \/ Signalled
  <2>1. Runs' = Runs /\ UNCHANGED <<src, todo>>
    BY <1>1 DEF Still, Quits, Signalled, SameQueue
  <2>2. ~term' /\ mpc' \notin {"spawn", "find"} \cup Dead =>
          src = Len(Sources) /\ todo[Main] = {}
    BY <1>1 DEF Still, Quits, Signalled, MainGoesOn, TodoInv, Shutdown, Dead
  <2> QED BY <2>1, <2>2 DEF TodoInv
<1>2. CASE Advances
  <2>1. Sources[src + 1] \in ToSet(Sources)
    BY <1>2, FindDupesAssumption DEF Advances, NextSource, DataTypes, ToSet
  <2>2. mpc' = "find" /\ todo' = [todo EXCEPT ![Main] = Contents[Sources[src + 1]]] /\ Runs' = Runs
    BY <1>2 DEF Advances, NextSource, SameQueue
  <2> QED BY <1>a, <1>b, <2>1, <2>2 DEF TodoInv
<1>3. CASE Starts \/ Prints
  <2>1. Runs' = Runs /\ UNCHANGED <<term, src, todo>> /\ mpc \notin {"spawn", "find"} \cup Dead
    BY <1>3 DEF Starts, BeginCompare, Prints, PrintCounts, SameQueue, Dead
  <2> QED BY <2>1 DEF TodoInv
<1>4. ASSUME NEW p \in Proc, NEW e \in File \cup FindItem, GivesFile(p, e) \/ GivesDir(p, e)
      PROVE  TodoInv'
  <2>1. /\ todo' = [todo EXCEPT ![p] = @ \ {e}] /\ Runs' = Runs /\ mpc' = mpc
        /\ UNCHANGED <<term, src>>
    BY <1>4 DEF GivesFile, ReadFile, Takes, GivesDir, SameQueue
  <2>2. \A q \in Proc : todo'[q] \subseteq todo[q]
    BY <1>a, <2>1
  <2> QED BY <1>a, <2>1, <2>2 DEF TodoInv
<1>5. ASSUME NEW b \in CompareItem, Queues(b) PROVE TodoInv'
  BY <1>5 DEF Queues, TodoInv
<1>6. ASSUME NEW w \in Worker, NEW d \in FindItem, EndsFind(w, d) PROVE TodoInv'
  <2>1. /\ todo' = [todo EXCEPT ![w] = {}] /\ Runs' = Runs \ {<<w, d>>} /\ mpc' = mpc
        /\ UNCHANGED <<term, src>>
    BY <1>6 DEF EndsFind, Ends
  <2> QED BY <1>a, <2>1 DEF TodoInv
<1>7. ASSUME NEW w \in Worker, NEW b \in CompareItem, EndsCompare(w, b) PROVE TodoInv'
  <2>1. Runs' = Runs \ {<<w, b>>} /\ mpc' = mpc /\ UNCHANGED <<term, src, todo>>
    BY <1>7 DEF EndsCompare, Ends
  <2> QED BY <2>1, WorkQueueAssumption DEF TodoInv
<1>8. ASSUME NEW w \in Worker, NEW b \in CompareItem,
             Passes(w, b) \/ ListsGroup(w, b) \/ ListsName(w, b)
      PROVE  TodoInv'
  BY <1>8 DEF Passes, ListsGroup, ListsName, Lists, AtEntry, SameQueue, TodoInv
<1>9. ASSUME NEW w \in Worker, BeginsNothing(w) PROVE TodoInv'
  <2>1. /\ todo' = [todo EXCEPT ![w] = {}] /\ Runs' = Runs /\ (mpc' = mpc \/ mpc' \in Dead)
        /\ UNCHANGED <<term, src>>
    BY <1>9 DEF BeginsNothing, SameQueue
  <2> QED BY <1>a, <2>1 DEF TodoInv
<1>10. ASSUME NEW w \in Worker, NEW i \in Item, Begins(w, i) PROVE TodoInv'
  <2>1. /\ todo' = [todo EXCEPT ![w] = IF i \in FindItem THEN Contents[i] ELSE {}]
        /\ Runs' = Runs \cup {<<w, i>>} /\ mpc' = mpc
        /\ UNCHANGED <<term, src>>
    BY <1>10 DEF Begins
  <2> QED BY <1>a, <1>b, <2>1 DEF TodoInv
<1> QED BY <1>1, <1>2, <1>3, <1>4, <1>5, <1>6, <1>7, <1>8, <1>9, <1>10 DEF ViewNext

(* When buckets are queued.                                                *)
LEMMA StageStep ==
  ASSUME BaseInv, StageInv, ViewNext
  PROVE  StageInv'
<1> USE DEF StageInv, FindStage
<1>1. CASE Still \/ Quits \/ Signalled \/ Advances \/ Starts \/ Prints
  BY <1>1 DEF Still, Quits, Signalled, Advances, Starts, Prints, SameQueue, MainGoesOn,
     Shutdown, Dead
<1>2. ASSUME NEW p \in Proc, NEW f \in File, GivesFile(p, f) PROVE StageInv'
  BY <1>2 DEF GivesFile, SameQueue
<1>3. ASSUME NEW p \in Proc, NEW d \in FindItem, GivesDir(p, d) PROVE StageInv'
  BY <1>3, WorkQueueAssumption DEF GivesDir
<1>4. ASSUME NEW b \in CompareItem, Queues(b) PROVE StageInv'
  BY <1>4 DEF Queues
<1>5. ASSUME NEW w \in Worker, NEW i, EndsFind(w, i) \/ EndsCompare(w, i) \/ Begins(w, i)
      PROVE  StageInv'
  BY <1>5 DEF EndsFind, EndsCompare, Ends, Begins
<1>6. ASSUME NEW w \in Worker, NEW i, \/ BeginsNothing(w) \/ Passes(w, i)
                                      \/ ListsGroup(w, i) \/ ListsName(w, i)
      PROVE  StageInv'
  BY <1>6 DEF BeginsNothing, Passes, ListsGroup, ListsName, Lists, AtEntry, SameQueue,
     Dead
<1> QED BY <1>1, <1>2, <1>3, <1>4, <1>5, <1>6 DEF ViewNext

(* What the buckets hold.                                                  *)
LEMMA TableStep ==
  ASSUME BaseInv, TodoInv, StageInv, TableInv, ViewNext
  PROVE  TableInv'
<1> USE DEF findVars, compareVars, mainVars
<1>a. /\ table \in [CompareItem -> Seq(File)] /\ extras \in Seq(File)
      /\ FindItem \cap CompareItem = {}
  BY WorkQueueAssumption DEF BaseInv, DataTypes
<1>1. ASSUME UNCHANGED <<table, extras>>, Born' \cap CompareItem = Born \cap CompareItem,
             Linked' \cap CompareItem = Linked \cap CompareItem
      PROVE  TableInv'
  BY <1>1 DEF TableInv
<1>2. CASE Still \/ Quits \/ Signalled \/ Advances \/ Starts
  BY <1>1, <1>2 DEF Still, Quits, Signalled, Advances, NextSource, Starts,
     BeginCompare, SameQueue
<1>3. CASE Prints
  <2>1. extras' = <<>> /\ table' = table /\ SameQueue
    BY <1>3 DEF Prints, PrintCounts
  <2>2. ToSet(extras') = {}
    BY <2>1 DEF ToSet
  <2> QED BY <2>1, <2>2 DEF TableInv, SameQueue
<1>4. ASSUME NEW p \in Proc, NEW f \in File, GivesFile(p, f) PROVE TableInv'
  <2> DEFINE b == Index(Size[f])
  <2>1. b \in CompareItem
    BY FindDupesAssumption
  <2>2. SameQueue /\ f \in Wanted
    <3>1. SameQueue /\ f \in todo[p]
      BY <1>4 DEF GivesFile, ReadFile, Takes
    <3>2. f \in Tree
      BY <3>1 DEF TodoInv
    <3> QED BY <3>1, <3>2 DEF Wanted, Tree
  <2>3. b \notin Born
    BY <1>4, <2>1 DEF GivesFile, Reading, StageInv, FindStage
  <2>4. CASE Size[f] = 0
    <3>1. table' = table /\ extras' = Append(extras, f)
      BY <1>4, <2>4 DEF GivesFile, ReadFile
    <3>2. ToSet(extras') = ToSet(extras) \cup {f}
      BY <1>a, <3>1, AppendElements
    <3> QED BY <2>2, <2>4, <3>1, <3>2 DEF TableInv, SameQueue
  <2>5. CASE Size[f] # 0
    <3>1. extras' = extras /\ table' = [table EXCEPT ![b] = Append(@, f)]
      BY <1>4, <2>5 DEF GivesFile, ReadFile
    <3>2. ToSet(Append(table[b], f)) = ToSet(table[b]) \cup {f}
      BY <1>a, <2>1, AppendElements
    <3> HIDE DEF b
    <3>3. table'[b] = Append(table[b], f) /\ \A c \in CompareItem : c # b => table'[c] = table[c]
      BY <1>a, <2>1, <3>1
    <3>4. ASSUME NEW c \in CompareItem
          PROVE  /\ \A g \in ToSet(table'[c]) : g \in Wanted /\ Size[g] # 0 /\ Index(Size[g]) = c
                 /\ c \in Born /\ c \notin Linked => table'[c] = <<>>
      <4>1. CASE c = b
        BY <2>2, <2>3, <2>5, <3>2, <3>3, <4>1 DEF TableInv, b
      <4>2. CASE c # b
        BY <3>3, <4>2 DEF TableInv
      <4> QED BY <4>1, <4>2
    <3> QED BY <2>2, <3>1, <3>4 DEF TableInv, SameQueue
  <2> QED BY <2>4, <2>5
<1>5. ASSUME NEW p \in Proc, NEW d \in FindItem, GivesDir(p, d) PROVE TableInv'
  BY <1>1, <1>5, <1>a DEF GivesDir
<1>6. ASSUME NEW b \in CompareItem, Queues(b) PROVE TableInv'
  BY <1>6 DEF Queues, TableInv
<1>7. ASSUME NEW w \in Worker, NEW d \in FindItem, EndsFind(w, d) PROVE TableInv'
  BY <1>1, <1>7, <1>a DEF EndsFind, Ends
<1>8. ASSUME NEW w \in Worker, NEW b \in CompareItem, EndsCompare(w, b) PROVE TableInv'
  <2>1. /\ table' = [table EXCEPT ![b] = <<>>] /\ UNCHANGED extras
        /\ Born' = Born /\ Linked' = Linked \ {b}
    BY <1>8 DEF EndsCompare, Ends
  <2>2. ToSet(<<>>) = {}
    BY DEF ToSet
  <2>3. ASSUME NEW c \in CompareItem
        PROVE  /\ \A g \in ToSet(table'[c]) : g \in Wanted /\ Size[g] # 0 /\ Index(Size[g]) = c
               /\ c \in Born' /\ c \notin Linked' => table'[c] = <<>>
    BY <1>a, <2>1, <2>2 DEF TableInv
  <2> QED BY <2>1, <2>3 DEF TableInv
<1>9. ASSUME NEW w \in Worker, NEW i, \/ BeginsNothing(w) \/ Passes(w, i) \/ Begins(w, i)
                                      \/ ListsGroup(w, i) \/ ListsName(w, i)
      PROVE  TableInv'
  BY <1>1, <1>9 DEF BeginsNothing, Begins, Passes, ListsGroup, ListsName, Lists,
     AtEntry,
     SameQueue
<1> QED BY <1>2, <1>3, <1>4, <1>5, <1>6, <1>7, <1>8, <1>9 DEF ViewNext

(* An entry stays to be taken as long as it is given up by no thread, and  *)
(* a directory that is begun by one.                                       *)
LEMMA PendingView ==
  ASSUME NEW X, \A p \in Proc : todo[p] \subseteq todo'[p] \cup X,
         \A d \in Untouched \ Untouched' : \E p \in Proc : Contents[d] \subseteq todo'[p]
  PROVE  Pending \subseteq Pending' \cup X
<1> SUFFICES ASSUME NEW e \in Pending PROVE e \in Pending' \cup X
  OBVIOUS
<1>1. CASE \E p \in Proc : e \in todo[p]
  BY <1>1 DEF Pending
<1>2. CASE \E d \in Untouched : e \in Contents[d]
  <2>1. PICK d \in Untouched : e \in Contents[d]
    BY <1>2
  <2>2. CASE d \in Untouched'
    BY <2>1, <2>2 DEF Pending
  <2>3. CASE d \notin Untouched'
    BY <2>1, <2>3 DEF Pending
  <2> QED BY <2>2, <2>3
<1> QED BY <1>1, <1>2 DEF Pending

(* Nothing that is known of is lost.                                       *)
LEMMA ReachStep ==
  ASSUME BaseInv, TodoInv, ReachInv, ViewNext
  PROVE  ReachInv'
<1> USE DEF findVars, compareVars, mainVars
<1>a. /\ todo \in [Proc -> SUBSET (FindItem \cup File)] /\ Main \in Proc /\ Worker \subseteq Proc
      /\ table \in [CompareItem -> Seq(File)] /\ extras \in Seq(File)
      /\ IInv
  BY DEF BaseInv, DataTypes, Proc
<1> SUFFICES ASSUME mpc' \in FindStage, ~term', NEW d \in Known', NEW e \in Contents[d]
             PROVE  (e \in Pending \/ e \in Entered \/ e \in FindItem \cap Born)'
  BY DEF ReachInv
<1> DEFINE Was == e \in Pending \/ e \in Entered \/ e \in FindItem \cap Born
<1>b. ASSUME mpc \in FindStage, ~term, d \in Known PROVE Was
  BY <1>b DEF ReachInv
<1> HIDE DEF Was
<1>1. CASE Still \/ Quits \/ Signalled \/ Starts \/ Prints
  <2>1. /\ Still /\ SameQueue /\ UNCHANGED <<src, todo, extras, table, term>>
        /\ mpc \in FindStage
    BY <1>1 DEF Still, Quits, Signalled, Starts, Prints, MainGoesOn, FindStage,
       Shutdown, Dead
  <2>2. Untouched' = Untouched
    BY <1>a, <2>1, UntouchedView
  <2>3. Pending' = Pending /\ Entered' = Entered /\ Known' = Known /\ Born' = Born
    BY <2>1, <2>2 DEF Pending, Entered, Known, SameQueue
  <2> QED BY <1>b, <2>1, <2>3 DEF Was
<1>2. CASE Advances
  <2> DEFINE s == Sources[src + 1]
  <2>1. /\ mpc \in FindStage /\ ~term /\ SameQueue /\ UNCHANGED <<extras, table>>
        /\ todo[Main] = {} /\ src' = src + 1 /\ src < Len(Sources)
        /\ todo' = [todo EXCEPT ![Main] = Contents[s]]
    BY <1>2 DEF Advances, NextSource, FindStage
  <2>2. Untouched \subseteq Untouched' \cup {s}
    <3>1. src \in Int /\ Len(Sources) \in Int
      BY FindDupesAssumption DEF BaseInv, DataTypes
    <3>2. Later \subseteq Later' \cup {s}
      BY <2>1, <3>1 DEF Later
    <3>3. Fresh' = Fresh
      BY <2>1 DEF SameQueue, Fresh
    <3> QED BY <3>2, <3>3 DEF Untouched
  <2> HIDE DEF s
  <2>3. Pending \subseteq Pending'
    <3>1. \A p \in Proc : todo[p] \subseteq todo'[p]
      BY <1>a, <2>1
    <3>2. Contents[s] = todo'[Main]
      BY <1>a, <2>1
    <3> QED BY <1>a, <2>2, <3>1, <3>2, PendingView, Zenon
  <2>4. Entered' = Entered /\ Known' = Known /\ Born' = Born
    BY <2>1 DEF Entered, Known, SameQueue
  <2> QED BY <1>b, <2>1, <2>3, <2>4 DEF Was
<1>3. ASSUME NEW p \in Proc, NEW f \in File, GivesFile(p, f)
      PROVE  (e \in Pending \/ e \in Entered \/ e \in FindItem \cap Born)'
  <2> DEFINE b == Index(Size[f])
  <2>1. /\ mpc \in FindStage /\ ~term /\ SameQueue /\ UNCHANGED src
        /\ todo' = [todo EXCEPT ![p] = @ \ {f}]
    BY <1>3 DEF GivesFile, ReadFile, Takes, Reading, FindStage
  <2>2. Untouched' = Untouched
    BY <1>a, <2>1, UntouchedView
  <2>3. Pending \subseteq Pending' \cup {f}
    BY <1>a, <2>1, <2>2 DEF Pending
  <2>4. Entered \cup {f} \subseteq Entered'
    <3>1. b \in CompareItem
      BY FindDupesAssumption
    <3>2. CASE Size[f] = 0
      <4>1. table' = table /\ ToSet(extras') = ToSet(extras) \cup {f}
        <5>1. table' = table /\ extras' = Append(extras, f)
          BY <1>3, <3>2 DEF GivesFile, ReadFile
        <5> QED BY <5>1, <1>a, AppendElements
      <4> QED BY <3>2, <4>1 DEF Entered
    <3>3. CASE Size[f] # 0
      <4>1. extras' = extras /\ table' = [table EXCEPT ![b] = Append(@, f)]
        BY <1>3, <3>3 DEF GivesFile, ReadFile
      <4>2. ToSet(Append(table[b], f)) = ToSet(table[b]) \cup {f}
        BY <1>a, <3>1, AppendElements
      <4>3. \A g \in File : Index(Size[g]) \in CompareItem
        BY FindDupesAssumption
      <4>4. \A c \in CompareItem : ToSet(table[c]) \subseteq ToSet(table'[c])
        BY <1>a, <3>1, <4>1, <4>2
      <4>5. f \in ToSet(table'[b])
        BY <1>a, <3>1, <4>1, <4>2
      <4> QED BY <3>3, <4>1, <4>3, <4>4, <4>5 DEF Entered
    <3> QED BY <3>2, <3>3
  <2>5. Known' = Known /\ Born' = Born
    BY <2>1 DEF Known, SameQueue
  <2> QED BY <1>b, <2>1, <2>3, <2>4, <2>5 DEF Was
<1>4. ASSUME NEW p \in Proc, NEW c \in FindItem, GivesDir(p, c)
      PROVE  (e \in Pending \/ e \in Entered \/ e \in FindItem \cap Born)'
  <2>1. /\ mpc \in FindStage /\ ~term /\ UNCHANGED <<src, extras, table>>
        /\ todo' = [todo EXCEPT ![p] = @ \ {c}]
        /\ Born' = Born \cup {c} /\ c \in Unclaimed'
    BY <1>4 DEF GivesDir, Reading, FindStage
  <2>2. Untouched' = Untouched
    BY <1>a, <1>4, <2>1, UntouchedView
  <2>3. Pending \subseteq Pending' \cup {c}
    BY <1>a, <2>1, <2>2 DEF Pending
  <2>4. Entered' = Entered /\ Known' = Known \cup {c}
    BY <2>1 DEF Entered, Known
  <2>5. Contents[c] \subseteq Pending'
    <3>1. c \in Untouched'
      BY <2>1 DEF Untouched, Fresh
    <3> QED BY <3>1 DEF Pending
  <2> QED BY <1>b, <2>1, <2>3, <2>4, <2>5 DEF Was
<1>5. ASSUME NEW w \in Worker, NEW c \in FindItem, EndsFind(w, c)
      PROVE  (e \in Pending \/ e \in Entered \/ e \in FindItem \cap Born)'
  <2>1. /\ mpc \in FindStage /\ ~term /\ UNCHANGED <<src, extras, table>> /\ Born' = Born
        /\ todo[w] = {} /\ todo' = [todo EXCEPT ![w] = {}]
    BY <1>5 DEF EndsFind, Ends
  <2>2. Untouched' = Untouched
    BY <1>a, <1>5, <2>1, UntouchedView DEF EndsFind
  <2>3. Pending \subseteq Pending'
    BY <1>a, <2>1, <2>2 DEF Pending
  <2>4. Entered' = Entered /\ Known' = Known
    BY <2>1 DEF Entered, Known
  <2> QED BY <1>b, <2>1, <2>3, <2>4 DEF Was
<1>6. ASSUME NEW w \in Worker, NEW b \in CompareItem,
             \/ EndsCompare(w, b) \/ Passes(w, b) \/ ListsGroup(w, b) \/ ListsName(w, b)
      PROVE  (e \in Pending \/ e \in Entered \/ e \in FindItem \cap Born)'
  BY <1>6 DEF EndsCompare, Ends, Passes, ListsGroup, ListsName, Lists, AtEntry,
     CompareStage, FindStage
<1>7. ASSUME NEW w \in Worker, BeginsNothing(w)
      PROVE  (e \in Pending \/ e \in Entered \/ e \in FindItem \cap Born)'
  <2>1. /\ mpc \in FindStage /\ ~term /\ SameQueue /\ UNCHANGED <<src, extras, table>>
        /\ todo' = [todo EXCEPT ![w] = {}]
    BY <1>7 DEF BeginsNothing, FindStage, Dead
  <2>2. todo[w] = {}
    BY <1>7 DEF TodoInv, BeginsNothing, Item
  <2>3. Untouched' = Untouched
    BY <1>a, <2>1, UntouchedView
  <2>4. Pending \subseteq Pending'
    BY <1>a, <2>1, <2>2, <2>3 DEF Pending
  <2>5. Entered' = Entered /\ Known' = Known /\ Born' = Born
    BY <2>1 DEF Entered, Known, SameQueue
  <2> QED BY <1>b, <2>1, <2>4, <2>5 DEF Was
<1>8. ASSUME NEW w \in Worker, NEW i \in Item, Begins(w, i)
      PROVE  (e \in Pending \/ e \in Entered \/ e \in FindItem \cap Born)'
  <2>1. /\ mpc \in FindStage /\ ~term /\ UNCHANGED <<src, extras, table>> /\ Born' = Born
        /\ todo' = [todo EXCEPT ![w] = IF i \in FindItem THEN Contents[i] ELSE {}]
        /\ Unclaimed' = Unclaimed \ {i}
    BY <1>8 DEF Begins
  <2>2. todo[w] = {}
    BY <1>8 DEF TodoInv, Begins, Item
  <2>3. Untouched \subseteq Untouched' \cup (FindItem \cap {i})
    BY <2>1 DEF Untouched, Fresh, Later
  <2>4. i \in FindItem => Contents[i] = todo'[w]
    BY <1>a, <2>1
  <2>5. \A p \in Proc : todo[p] \subseteq todo'[p]
    BY <1>a, <2>1, <2>2
  <2>6. Pending \subseteq Pending'
    BY <1>8, <1>a, <2>3, <2>4, <2>5, PendingView
  <2>7. Entered' = Entered /\ Known' = Known
    BY <2>1 DEF Entered, Known
  <2> QED BY <1>b, <2>1, <2>6, <2>7 DEF Was
<1> QED
  <2>1. CASE \E b \in CompareItem : Queues(b)
    BY <2>1 DEF Queues, FindStage
  <2> QED BY <1>1, <1>2, <1>3, <1>4, <1>5, <1>6, <1>7, <1>8, <2>1 DEF ViewNext

(* When main has found the ready list empty and no signal came, all        *)
(* directories have been read: what is known of is closed under what they  *)
(* contain, so it is the whole tree.                                       *)
LEMMA SearchEnds ==
  ASSUME BaseInv, TodoInv, ReachInv, mpc = "findDone", ~term
  PROVE  Wanted \subseteq Entered
<1>1. Linked = {} /\ Runs = {} /\ Unclaimed = {}
  BY QueueFacts DEF BaseInv
<1>2. \A p \in Proc : todo[p] = {}
  <2>1. todo[Main] = {}
    BY DEF TodoInv, Dead
  <2>2. \A w \in Worker : todo[w] = {}
    BY <1>1 DEF TodoInv
  <2> QED BY <2>1, <2>2 DEF Proc
<1>3. Untouched = FindItem \ Born
  <2>1. src = Len(Sources)
    BY DEF TodoInv, Dead
  <2>2. Len(Sources) \in Int
    BY FindDupesAssumption
  <2>3. Later = {}
    BY <2>1, <2>2 DEF Later
  <2> QED BY <1>1, <2>3 DEF Untouched, Fresh
<1>4. ASSUME NEW d \in Known, NEW e \in Contents[d]
      PROVE  e \in Entered \/ e \in FindItem \cap Born \/ d \in ToSet(Sources) \cap (FindItem \ Born)
  <2>1. d \in Dir
    BY FindDupesAssumption DEF Known, ToSet
  <2>2. SUFFICES ASSUME e \in Pending
                 PROVE  d \in ToSet(Sources) \cap (FindItem \ Born)
    BY DEF ReachInv, FindStage
  <2>3. PICK c \in FindItem \ Born : e \in Contents[c]
    BY <1>2, <1>3, <2>2 DEF Pending
  <2>4. c = d
    BY <2>1, <2>3, FindDupesAssumption
  <2> QED BY <2>3, <2>4 DEF Known
<1>5. FindItem \subseteq Born
  <2> DEFINE R == FindItem \cap Born
  <2>1. Entered \cap FindItem = {}
    BY FindDupesAssumption DEF Entered
  <2>2. ASSUME NEW d \in ToSet(Sources) \cup R
        PROVE  Contents[d] \cap FindItem \subseteq R
    <3>1. d \in Known
      BY DEF Known
    <3>2. CASE d \in ToSet(Sources) \cap FindItem
      BY <3>2, FindDupesAssumption
    <3>3. CASE d \notin ToSet(Sources) \cap FindItem
      BY <1>4, <2>1, <3>1, <3>3
    <3> QED BY <3>2, <3>3
  <2>3. R \in SUBSET FindItem
    OBVIOUS
  <2> HIDE DEF R
  <2>4. R = FindItem
    BY <2>2, <2>3, FindDupesAssumption
  <2> QED BY <2>4 DEF R
<1>6. ASSUME NEW f \in Wanted PROVE f \in Entered
  <2>1. PICK d \in ToSet(Sources) \cup FindItem : f \in Contents[d]
    BY DEF Wanted
  <2>2. d \in Known /\ f \notin FindItem
    BY <1>5, FindDupesAssumption DEF Known, Wanted
  <2> QED BY <1>4, <1>5, <2>1, <2>2
<1> QED BY <1>6

(* So the table is complete when compare begins.                           *)
LEMMA CompleteStep ==
  ASSUME BaseInv, TodoInv, StageInv, ReachInv, CompleteInv, ViewNext
  PROVE  CompleteInv'
<1> USE DEF findVars, compareVars, mainVars
<1>a. \A f \in Wanted : f \in File /\ Index(Size[f]) \in CompareItem
  BY FindDupesAssumption DEF Wanted
<1>b. table \in [CompareItem -> Seq(File)] /\ IInv
  BY DEF BaseInv, DataTypes
<1>1. ASSUME UNCHANGED <<table, emptyLst>>, Born \ Linked \subseteq Born' \ Linked',
             mpc' \in TableStage => mpc \in TableStage
      PROVE  CompleteInv'
  BY <1>1 DEF CompleteInv
<1>2. CASE Starts
  <2>1. emptyLst' = extras /\ table' = table /\ mpc = "findDone" /\ ~term
    BY <1>2 DEF Starts, BeginCompare
  <2>2. Wanted \subseteq Entered
    BY <2>1, SearchEnds
  <2> QED BY <2>1, <2>2 DEF CompleteInv, Entered
<1>3. CASE Still
  BY <1>1, <1>3 DEF Still, SameQueue, MainGoesOn, TableStage, Shutdown, Dead
<1>4. CASE Quits \/ Signalled \/ Advances \/ Prints
  BY <1>1, <1>4 DEF Quits, Signalled, Advances, NextSource, Prints, PrintCounts,
     SameQueue, TableStage
<1>5. ASSUME NEW p \in Proc, NEW e, GivesFile(p, e) \/ GivesDir(p, e) PROVE CompleteInv'
  BY <1>5 DEF GivesFile, GivesDir, Reading, CompleteInv, TableStage
<1>6. ASSUME NEW b \in CompareItem, Queues(b) PROVE CompleteInv'
  <2>1. Linked \subseteq Born
    BY <1>b, QueueFacts
  <2> QED BY <1>1, <1>6, <2>1 DEF Queues
<1>7. ASSUME NEW w \in Worker, NEW d \in FindItem, EndsFind(w, d) PROVE CompleteInv'
  BY <1>1, <1>7 DEF EndsFind, Ends
<1>8. ASSUME NEW w \in Worker, NEW b \in CompareItem, EndsCompare(w, b)
      PROVE  CompleteInv'
  <2>1. /\ table' = [table EXCEPT ![b] = <<>>] /\ emptyLst' = emptyLst
        /\ Born' = Born /\ Linked' = Linked \ {b} /\ mpc' = mpc /\ <<w, b>> \in Runs
    BY <1>8 DEF EndsCompare, Ends
  <2>2. b \in Born
    BY <1>b, <2>1, QueueFacts DEF Item
  <2>3. \A c \in CompareItem : c # b => table'[c] = table[c]
    BY <1>b, <2>1
  <2> QED BY <1>a, <2>1, <2>2, <2>3 DEF CompleteInv
<1>9. ASSUME NEW w \in Worker, NEW i, \/ BeginsNothing(w) \/ Passes(w, i) \/ Begins(w, i)
                                      \/ ListsGroup(w, i) \/ ListsName(w, i)
      PROVE  CompleteInv'
  BY <1>1, <1>9 DEF BeginsNothing, Begins, Passes, ListsGroup, ListsName, Lists,
     AtEntry,
     SameQueue, TableStage, Dead
<1> QED BY <1>2, <1>3, <1>4, <1>5, <1>6, <1>7, <1>8, <1>9 DEF ViewNext

-----------------------------------------------------------------------------
(* When no source lies below another each file is found once: an entry is  *)
(* in one thread's hands, or in one directory that no one has begun, or in *)
(* the table, and there at one place.                                      *)
Apart ==
  /\ \A p, q \in Proc : p # q => todo[p] \cap todo[q] = {}
  /\ \A p \in Proc : \A d \in Untouched : todo[p] \cap Contents[d] = {}
  /\ \A f \in Entered : \A p \in Proc : f \notin todo[p]
  /\ \A f \in Entered : \A d \in Untouched : f \notin Contents[d]

Distinct == IsInjective(extras) /\ \A b \in CompareItem : IsInjective(table[b])

(* It stays so,                                                            *)
LEMMA ApartStep ==
  ASSUME NoOverlap, BaseInv, Apart, ViewNext
  PROVE  Apart'
<1> USE DEF findVars, compareVars, mainVars
<1>a. /\ todo \in [Proc -> SUBSET (FindItem \cup File)] /\ Main \in Proc /\ Worker \subseteq Proc
      /\ table \in [CompareItem -> Seq(File)] /\ extras \in Seq(File)
      /\ IInv
  BY DEF BaseInv, DataTypes, Proc
<1>1. ASSUME \A p \in Proc : todo'[p] \subseteq todo[p],
             Untouched' \subseteq Untouched, Entered' \subseteq Entered
      PROVE  Apart'
  BY <1>1 DEF Apart
<1>2. ASSUME NEW p \in Proc, NEW d \in Untouched, \A q \in Proc \ {p} : todo'[q] = todo[q],
             todo'[p] = Contents[d], d \in Dir, d \notin Untouched',
             Untouched' \subseteq Untouched, Untouched \subseteq Dir, Entered' = Entered
      PROVE  Apart'
  <2>1. \A q, r \in Proc : q # r => todo'[q] \cap todo'[r] = {}
    BY <1>2 DEF Apart
  <2>2. ASSUME NEW q \in Proc, NEW c \in Untouched' PROVE todo'[q] \cap Contents[c] = {}
    <3>1. CASE q = p
      BY <1>2, <2>2, <3>1, FindDupesAssumption
    <3>2. CASE q # p
      BY <1>2, <2>2, <3>2 DEF Apart
    <3> QED BY <3>1, <3>2
  <2>3. \A f \in Entered' : \A q \in Proc : f \notin todo'[q]
    BY <1>2 DEF Apart
  <2>4. \A f \in Entered' : \A c \in Untouched' : f \notin Contents[c]
    BY <1>2 DEF Apart
  <2> QED BY <2>1, <2>2, <2>3, <2>4 DEF Apart
<1>b. Untouched \subseteq Dir
  BY FindDupesAssumption DEF Untouched, Fresh, Later, BaseInv, DataTypes
<1>3. CASE Still \/ Quits \/ Signalled \/ Starts
  <2>1. SameQueue /\ UNCHANGED <<src, todo, extras, table>>
    BY <1>3 DEF Still, Quits, Signalled, Starts, BeginCompare
  <2>2. Untouched' = Untouched /\ Entered' = Entered
    BY <1>a, <2>1, UntouchedView DEF Entered
  <2> QED BY <1>1, <2>1, <2>2
<1>4. CASE Prints
  <2>1. SameQueue /\ UNCHANGED <<src, todo, table>> /\ extras' = <<>>
    BY <1>4 DEF Prints, PrintCounts
  <2>2. Untouched' = Untouched
    BY <1>a, <2>1, UntouchedView
  <2>3. ToSet(extras') = {}
    BY <2>1 DEF ToSet
  <2>4. Entered' \subseteq Entered
    BY <2>1, <2>3 DEF Entered
  <2> QED BY <1>1, <2>1, <2>2, <2>4
<1>5. CASE Advances
  <2> DEFINE s == Sources[src + 1]
  <2>1. /\ SameQueue /\ UNCHANGED <<extras, table>> /\ src' = src + 1 /\ src < Len(Sources)
        /\ todo' = [todo EXCEPT ![Main] = Contents[s]]
    BY <1>5 DEF Advances, NextSource
  <2>2. src \in Nat /\ Len(Sources) \in Nat /\ src + 1 \in 1..Len(Sources)
    BY <2>1, FindDupesAssumption DEF BaseInv, DataTypes
  <2>3. s \in Later /\ s \in ToSet(Sources) /\ Later' \subseteq Later
    BY <2>1, <2>2, FindDupesAssumption DEF Later, ToSet
  <2>4. s \notin Later'
    BY <2>1, <2>2, FindDupesAssumption DEF Later, IsInjective
  <2>5. Fresh' = Fresh /\ s \notin Fresh
    BY <2>1, <2>3 DEF SameQueue, Fresh, NoOverlap
  <2>6. s \in Untouched /\ s \notin Untouched' /\ Untouched' \subseteq Untouched /\ s \in Dir
    BY <1>b, <2>3, <2>4, <2>5 DEF Untouched
  <2>7. Entered' = Entered
    BY <2>1 DEF Entered
  <2> HIDE DEF s
  <2> QED BY <1>2, <1>a, <1>b, <2>1, <2>6, <2>7
<1>6. ASSUME NEW p \in Proc, NEW f \in File, GivesFile(p, f) PROVE Apart'
  <2> DEFINE b == Index(Size[f])
  <2>1. /\ SameQueue /\ UNCHANGED src /\ f \in todo[p]
        /\ todo' = [todo EXCEPT ![p] = @ \ {f}]
    BY <1>6 DEF GivesFile, ReadFile, Takes
  <2>2. Untouched' = Untouched
    BY <1>a, <2>1, UntouchedView
  <2>3. Entered' \subseteq Entered \cup {f}
    <3>1. b \in CompareItem /\ \A g \in File : Index(Size[g]) \in CompareItem
      BY FindDupesAssumption
    <3>2. CASE Size[f] = 0
      <4>1. table' = table /\ extras' = Append(extras, f)
        BY <1>6, <3>2 DEF GivesFile, ReadFile
      <4>2. ToSet(extras') = ToSet(extras) \cup {f}
        BY <4>1, <1>a, AppendElements
      <4> QED BY <4>1, <4>2 DEF Entered
    <3>3. CASE Size[f] # 0
      <4>1. extras' = extras /\ table' = [table EXCEPT ![b] = Append(@, f)]
        BY <1>6, <3>3 DEF GivesFile, ReadFile
      <4>2. ToSet(Append(table[b], f)) = ToSet(table[b]) \cup {f}
        BY <1>a, <3>1, AppendElements
      <4>3. \A c \in CompareItem : ToSet(table'[c]) \subseteq ToSet(table[c]) \cup {f}
        BY <1>a, <3>1, <4>1, <4>2
      <4> QED BY <3>1, <4>1, <4>3 DEF Entered
    <3> QED BY <3>2, <3>3
  <2>4. \A q \in Proc : todo'[q] \subseteq todo[q] /\ f \notin todo'[q]
    BY <1>a, <2>1 DEF Apart
  <2> QED BY <2>1, <2>2, <2>3, <2>4 DEF Apart
<1>7. ASSUME NEW p \in Proc, NEW d \in FindItem, GivesDir(p, d) PROVE Apart'
  <2>1. UNCHANGED <<src, extras, table>> /\ todo' = [todo EXCEPT ![p] = @ \ {d}]
    BY <1>7 DEF GivesDir
  <2>2. Untouched' = Untouched
    BY <1>7, <1>a, <2>1, UntouchedView
  <2>3. Entered' = Entered
    BY <2>1 DEF Entered
  <2>4. \A q \in Proc : todo'[q] \subseteq todo[q]
    BY <1>a, <2>1
  <2> QED BY <1>1, <2>2, <2>3, <2>4
<1>8. ASSUME NEW b \in CompareItem, Queues(b) PROVE Apart'
  <2>1. UNCHANGED <<src, extras, table, todo>>
    BY <1>8 DEF Queues
  <2>2. Untouched' = Untouched /\ Entered' = Entered
    BY <1>8, <1>a, <2>1, UntouchedView DEF Entered
  <2> QED BY <1>1, <2>1, <2>2
<1>9. ASSUME NEW w \in Worker, NEW d, EndsFind(w, d) \/ EndsCompare(w, d) PROVE Apart'
  <2>1. /\ UNCHANGED <<src, extras>> /\ todo' \in {todo, [todo EXCEPT ![w] = {}]}
        /\ table' \in {table, [table EXCEPT ![d] = <<>>]}
        /\ Ends(w, d)
    BY <1>9 DEF EndsFind, EndsCompare, Ends
  <2>2. Untouched' = Untouched
    BY <1>a, <2>1, UntouchedView
  <2>3. \A q \in Proc : todo'[q] \subseteq todo[q]
    BY <1>a, <2>1
  <2>4. ToSet(<<>>) = {} /\ \A g \in File : Index(Size[g]) \in CompareItem
    BY FindDupesAssumption DEF ToSet
  <2>5. \A c \in CompareItem : ToSet(table'[c]) \subseteq ToSet(table[c])
    BY <1>a, <2>1, <2>4
  <2>6. Entered' \subseteq Entered
    BY <2>1, <2>4, <2>5 DEF Entered
  <2> QED BY <1>1, <2>2, <2>3, <2>6
<1>10. ASSUME NEW w \in Worker, NEW i, \/ Passes(w, i) \/ ListsGroup(w, i) \/ ListsName(w, i)
                                       \/ BeginsNothing(w)
       PROVE  Apart'
  <2>1. SameQueue /\ UNCHANGED <<src, extras, table>> /\ todo' \in {todo, [todo EXCEPT ![w] = {}]}
    BY <1>10 DEF Passes, ListsGroup, ListsName, Lists, AtEntry, BeginsNothing
  <2>2. Untouched' = Untouched /\ Entered' = Entered
    BY <1>a, <2>1, UntouchedView DEF Entered
  <2>3. \A q \in Proc : todo'[q] \subseteq todo[q]
    BY <1>a, <2>1
  <2> QED BY <1>1, <2>2, <2>3
<1>11. ASSUME NEW w \in Worker, NEW i \in Item, Begins(w, i) PROVE Apart'
  <2>1. /\ UNCHANGED <<src, extras, table>> /\ Born' = Born /\ Unclaimed' = Unclaimed \ {i}
        /\ i \in Unclaimed /\ i \in Born
        /\ todo' = [todo EXCEPT ![w] = IF i \in FindItem THEN Contents[i] ELSE {}]
    BY <1>11, <1>a, QueueFacts DEF Begins
  <2>2. Entered' = Entered
    BY <2>1 DEF Entered
  <2>3. Untouched' \subseteq Untouched
    BY <2>1 DEF Untouched, Fresh, Later
  <2>4. CASE i \in FindItem
    <3>1. i \in Untouched /\ i \in Dir
      BY <1>b, <2>1, <2>4 DEF Untouched, Fresh
    <3>2. i \notin Later'
      BY <2>1, <2>4, FindDupesAssumption DEF Later, NoOverlap, ToSet, BaseInv, DataTypes
    <3>3. i \notin Untouched'
      BY <2>1, <3>2 DEF Untouched, Fresh
    <3> QED BY <1>2, <1>a, <1>b, <2>1, <2>2, <2>3, <2>4, <3>1, <3>3
  <2>5. CASE i \notin FindItem
    <3>1. \A q \in Proc : todo'[q] \subseteq todo[q]
      BY <1>a, <2>1, <2>5
    <3> QED BY <1>1, <2>2, <2>3, <3>1
  <2> QED BY <2>4, <2>5
<1> QED BY <1>3, <1>4, <1>5, <1>6, <1>7, <1>8, <1>9, <1>10, <1>11 DEF ViewNext

(* and the table holds no file twice.                                      *)
LEMMA DistinctStep ==
  ASSUME BaseInv, Apart, Distinct, ViewNext
  PROVE  Distinct'
<1> USE DEF findVars, compareVars, mainVars
<1>a. table \in [CompareItem -> Seq(File)] /\ extras \in Seq(File)
  BY DEF BaseInv, DataTypes
<1>b. IsInjective(<<>>)
  BY DEF IsInjective
<1>1. CASE UNCHANGED <<extras, table>>
  BY <1>1 DEF Distinct
<1>2. CASE Still \/ Quits \/ Signalled \/ Advances \/ Starts
  BY <1>1, <1>2 DEF Still, Quits, Signalled, Advances, NextSource, Starts, BeginCompare
<1>3. CASE Prints
  BY <1>3, <1>b DEF Prints, PrintCounts, Distinct
<1>4. ASSUME NEW p \in Proc, NEW f \in File, GivesFile(p, f) PROVE Distinct'
  <2> DEFINE b == Index(Size[f])
  <2>1. f \notin Entered /\ b \in CompareItem
    BY <1>4, FindDupesAssumption DEF GivesFile, ReadFile, Takes, Apart
  <2>2. CASE Size[f] = 0
    <3>1. table' = table /\ extras' = Append(extras, f)
      BY <1>4, <2>2 DEF GivesFile, ReadFile
    <3>2. f \notin ToSet(extras)
      BY <2>1, <2>2 DEF Entered
    <3>3. IsInjective(extras')
      BY <1>a, <3>1, <3>2, AppendElements DEF Distinct
    <3> QED BY <3>1, <3>3 DEF Distinct
  <2>3. CASE Size[f] # 0
    <3>1. extras' = extras /\ table' = [table EXCEPT ![b] = Append(@, f)]
      BY <1>4, <2>3 DEF GivesFile, ReadFile
    <3>2. f \notin ToSet(table[b])
      BY <2>1, <2>3 DEF Entered
    <3>3. IsInjective(Append(table[b], f))
      BY <1>a, <2>1, <3>2, AppendElements DEF Distinct
    <3> HIDE DEF b
    <3> QED BY <1>a, <3>1, <3>3 DEF Distinct
  <2> QED BY <2>2, <2>3
<1>5. ASSUME NEW w \in Worker, NEW b \in CompareItem, EndsCompare(w, b) PROVE Distinct'
  BY <1>5, <1>a, <1>b DEF EndsCompare, Ends, Distinct
<1>6. ASSUME NEW w \in Worker, NEW i,
             \/ EndsFind(w, i) \/ Passes(w, i) \/ ListsGroup(w, i) \/ ListsName(w, i)
             \/ BeginsNothing(w) \/ Begins(w, i)
      PROVE  Distinct'
  BY <1>1, <1>6 DEF EndsFind, Ends, Passes, ListsGroup, ListsName, Lists, AtEntry,
     BeginsNothing, Begins
<1>7. ASSUME NEW p \in Proc, NEW d, GivesDir(p, d) PROVE Distinct'
  BY <1>1, <1>7 DEF GivesDir
<1>8. ASSUME NEW b, Queues(b) PROVE Distinct'
  BY <1>1, <1>8 DEF Queues
<1> QED BY <1>2, <1>3, <1>4, <1>5, <1>6, <1>7, <1>8 DEF ViewNext, Proc

-----------------------------------------------------------------------------
(* What main counts is the number of files.                                *)
TotalInv == mpc \in TableStage => total = Cardinality(Wanted)

(* The total is counted when each file found is in one list of the table.  *)
LEMMA TotalStep ==
  ASSUME BaseInv, TodoInv, TableInv, ReachInv, Distinct, TotalInv, ViewNext
  PROVE  TotalInv'
<1> USE DEF findVars, compareVars, mainVars
<1>1. ASSUME UNCHANGED total, mpc' \in TableStage => mpc \in TableStage PROVE TotalInv'
  BY <1>1 DEF TotalInv
<1>2. CASE Starts
  <2> DEFINE P == [b \in CompareItem |-> ToSet(table[b])]
             Full == UNION {P[b] : b \in CompareItem}
             sizes == [b \in CompareItem |-> Len(table[b])]
  <2>1. /\ table \in [CompareItem -> Seq(File)] /\ extras \in Seq(File)
        /\ IsFiniteSet(CompareItem) /\ IsFiniteSet(File)
    BY WorkQueueAssumption, FindDupesAssumption DEF BaseInv, DataTypes
  <2>2. total' = Len(extras) + SumFunction(sizes) /\ mpc = "findDone" /\ ~term
    BY <1>2 DEF Starts, BeginCompare
  <2>3. ASSUME NEW b \in CompareItem
        PROVE  P[b] \in SUBSET File /\ Cardinality(P[b]) = Len(table[b])
    <3>1. table[b] \in Seq(File) /\ IsInjective(table[b])
      BY <2>1 DEF Distinct
    <3>2. ToSet(table[b]) \subseteq File
      BY <3>1 DEF ToSet
    <3> QED BY <3>1, <3>2, LengthIsSize
  <2>4. P \in [CompareItem -> SUBSET File]
    BY <2>3
  <2>5. \A b, c \in CompareItem : b # c => P[b] \cap P[c] = {}
    BY DEF TableInv
  <2>6. sizes = [b \in CompareItem |-> Cardinality(P[b])]
    BY <2>3
  <2>7. Full = {f \in Wanted : Size[f] # 0}
    <3>1. ASSUME NEW f \in Wanted, Size[f] # 0 PROVE f \in Full
      <4>1. f \in Entered /\ f \in File
        BY <2>2, SearchEnds DEF Wanted
      <4>2. Index(Size[f]) \in CompareItem /\ f \in ToSet(table[Index(Size[f])])
        BY <3>1, <4>1, FindDupesAssumption DEF Entered
      <4> QED BY <4>2
    <3>2. ASSUME NEW f \in Full PROVE f \in Wanted /\ Size[f] # 0
      BY DEF TableInv
    <3> QED BY <3>1, <3>2
  <2>8. ToSet(extras) = {f \in Wanted : Size[f] = 0}
    <3>1. ASSUME NEW f \in Wanted, Size[f] = 0 PROVE f \in ToSet(extras)
      BY <2>2, <3>1, SearchEnds DEF Entered
    <3>2. ASSUME NEW f \in ToSet(extras) PROVE f \in Wanted /\ Size[f] = 0
      BY DEF TableInv
    <3> QED BY <3>1, <3>2
  <2> HIDE DEF P, sizes
  <2>9. SumFunction(sizes) = Cardinality(Full)
    BY <2>1, <2>4, <2>5, <2>6, SumOfSizes
  <2>10. IsFiniteSet(ToSet(extras)) /\ Cardinality(ToSet(extras)) = Len(extras)
    BY <2>1, LengthIsSize DEF Distinct
  <2> HIDE DEF Full
  <2>11. /\ ToSet(extras) \cup Full = Wanted /\ ToSet(extras) \cap Full = {}
         /\ Full \in SUBSET File
    BY <2>7, <2>8 DEF Wanted
  <2>12. IsFiniteSet(Full)
    BY <2>1, <2>11, FS_Subset
  <2>13. Cardinality(ToSet(extras)) \in Nat /\ Cardinality(Full) \in Nat /\ Cardinality({}) = 0
    BY <2>10, <2>12, FS_CardinalityType, FS_EmptySet
  <2>14. Cardinality(Wanted) = Cardinality(ToSet(extras)) + Cardinality(Full) - Cardinality({})
    BY <2>10, <2>11, <2>12, FS_Union
  <2>15. total' = Cardinality(Wanted)
    BY <2>2, <2>9, <2>10, <2>13, <2>14
  <2> QED BY <2>15 DEF TotalInv
<1>3. CASE Still \/ Quits \/ Signalled \/ Advances \/ Prints
  <2>1. UNCHANGED total
    BY <1>3 DEF Still, Quits, Signalled, Advances, NextSource, Prints, PrintCounts
  <2>2. mpc' \in TableStage => mpc \in TableStage
    BY <1>3 DEF Still, Quits, Signalled, Advances, Prints, MainGoesOn, TableStage,
       Shutdown, Dead
  <2> QED BY <1>1, <2>1, <2>2
<1>4. ASSUME NEW p \in Proc, NEW e, GivesFile(p, e) \/ GivesDir(p, e) PROVE TotalInv'
  BY <1>1, <1>4 DEF GivesFile, ReadFile, GivesDir
<1>5. ASSUME NEW b, Queues(b) PROVE TotalInv'
  BY <1>1, <1>5 DEF Queues
<1>6. ASSUME NEW w \in Worker, NEW i,
             \/ EndsFind(w, i) \/ EndsCompare(w, i) \/ Passes(w, i) \/ ListsGroup(w, i)
             \/ ListsName(w, i) \/ BeginsNothing(w) \/ Begins(w, i)
      PROVE  TotalInv'
  BY <1>1, <1>6 DEF EndsFind, EndsCompare, Ends, Passes, ListsGroup, ListsName, Lists,
     AtEntry, BeginsNothing, Begins, TableStage, Dead
<1> QED BY <1>2, <1>3, <1>4, <1>5, <1>6 DEF ViewNext

-----------------------------------------------------------------------------
(* The search: what holds of it whether or not sources overlap, and what   *)
(* holds when they do not.                                                 *)
SearchInv == BaseInv /\ TodoInv /\ StageInv /\ TableInv /\ ReachInv /\ CompleteInv
OnceInv == NoOverlap /\ Apart /\ Distinct /\ TotalInv

(* The invariants of the search at the beginning.                          *)
LEMMA SearchInit == FDInit => SearchInv /\ (NoOverlap => OnceInv)
<1> SUFFICES ASSUME FDInit PROVE SearchInv /\ (NoOverlap => OnceInv)
  OBVIOUS
<1> USE DEF FDInit, Init
<1>1. BaseInv
  BY BaseInit
<1>2. Born = {} /\ Runs = {} /\ Linked = {} /\ ToSet(extras) = {}
      /\ \A b \in CompareItem : table[b] = <<>> /\ ToSet(table[b]) = {}
  BY DEF Born, Runs, Linked, ToSet
<1>3. /\ Len(Sources) \in Nat /\ 1 \in 1..Len(Sources)
      /\ \A k \in 1..Len(Sources) : Sources[k] \in Dir
      /\ Main \in Proc /\ todo[Main] = Contents[Sources[1]]
      /\ \A p \in Proc : p # Main => todo[p] = {}
  BY FindDupesAssumption DEF Proc
<1>4. Sources[1] \in ToSet(Sources)
  BY <1>3, FindDupesAssumption DEF ToSet
<1>5. TodoInv
  <2>1. Contents[Sources[1]] \subseteq Tree
    BY <1>4 DEF Tree
  <2> QED BY <1>3, <2>1, WorkQueueAssumption DEF TodoInv, Proc
<1>6. StageInv /\ TableInv /\ CompleteInv
  BY <1>2 DEF StageInv, TableInv, CompleteInv, TableStage
<1>7. Untouched = FindItem \cup {Sources[k] : k \in 2..Len(Sources)}
  BY <1>2 DEF Untouched, Fresh, Later
<1>8. ReachInv
  <2> SUFFICES ASSUME NEW d \in ToSet(Sources), NEW e \in Contents[d] PROVE e \in Pending
    BY <1>2 DEF ReachInv, Known
  <2>1. PICK k \in 1..Len(Sources) : d = Sources[k]
    BY FindDupesAssumption DEF ToSet
  <2>2. CASE k = 1
    BY <1>3, <2>1, <2>2 DEF Pending
  <2>3. CASE k # 1
    BY <1>3, <1>7, <2>1, <2>3 DEF Pending
  <2> QED BY <2>2, <2>3
<1>9. Entered = {}
  BY <1>2, FindDupesAssumption DEF Entered
<1>10. ASSUME NoOverlap PROVE OnceInv
  <2>1. ASSUME NEW d \in Untouched PROVE d \in Dir /\ d # Sources[1]
    <3>1. CASE d \in FindItem
      BY <1>4, <1>10, <3>1, FindDupesAssumption DEF NoOverlap
    <3>2. CASE d \notin FindItem
      <4>1. PICK k \in 2..Len(Sources) : d = Sources[k]
        BY <1>7, <3>2
      <4> QED BY <1>3, <4>1, FindDupesAssumption DEF IsInjective
    <3> QED BY <3>1, <3>2
  <2>2. \A d \in Untouched : Contents[Sources[1]] \cap Contents[d] = {}
    BY <1>3, <2>1, FindDupesAssumption
  <2>3. Apart
    BY <1>3, <1>9, <2>2 DEF Apart
  <2>4. Distinct /\ TotalInv
    BY <1>2 DEF Distinct, IsInjective, TotalInv, TableStage
  <2> QED BY <1>10, <2>3, <2>4 DEF OnceInv
<1> QED BY <1>1, <1>5, <1>6, <1>8, <1>10 DEF SearchInv

(* Every step keeps them.                                                  *)
LEMMA SearchStep ==
  ASSUME SearchInv, [FDNext]_fdVars
  PROVE  SearchInv' /\ ViewNext /\ (OnceInv => OnceInv')
<1> USE DEF SearchInv
<1>1. BaseInv' /\ ViewNext
  BY BaseStep
<1>2. TodoInv' /\ StageInv'
  BY <1>1, TodoStep, StageStep
<1>3. TableInv' /\ ReachInv' /\ CompleteInv'
  BY <1>1, TableStep, ReachStep, CompleteStep
<1>4. OnceInv => OnceInv'
  BY <1>1, ApartStep, DistinctStep, TotalStep DEF OnceInv, NoOverlap
<1> QED BY <1>1, <1>2, <1>3, <1>4

(* When no source lies below another, the number of files main prints and  *)
(* begins to compare with is that of the files below the sources: no file  *)
(* is still to be inserted by a slow callback (find-dupes.c:512, 561).     *)
THEOREM AllFilesFound == NoOverlap /\ FDSpec => []AllFound
<1>1. NoOverlap /\ FDInit => SearchInv /\ OnceInv
  BY SearchInit
<1>2. SearchInv /\ OnceInv /\ [FDNext]_fdVars => SearchInv' /\ OnceInv'
  BY SearchStep
<1>3. OnceInv => AllFound
  BY DEF OnceInv, TotalInv, AllFound, TableStage
<1> QED BY <1>1, <1>2, <1>3, PTL DEF FDSpec

-----------------------------------------------------------------------------
(* Entries of each bucket that are done with: they are marked as matched   *)
(* or the callback is past them.                                           *)
Passed ==
  [b \in CompareItem |->
    {k \in 1..Len(table[b]) :
       k \in matched[b] \/ \E w \in Worker : <<w, b>> \in Runs /\ k < at[w]}]

(* Nothing is marked before its bucket is claimed nor written before main  *)
(* begins to compare.                                                      *)
BucketInv ==
  /\ \A b \in CompareItem : matched[b] # {} => b \in Born /\ b \notin Unclaimed
  /\ mpc \in FindStage => dupes = <<>> /\ unique = <<>>

(* A step writes to the lists or leaves what is done with as it is, but    *)
(* that a callback ends.                                                   *)
Rests == Passed' = Passed /\ UNCHANGED <<table, dupes, unique>>

PassesOn(w, b) ==
  /\ Passes(w, b)
  /\ \/ Passed' = Passed
     \/ term /\ Passed' = [Passed EXCEPT ![b] = 1..Len(table[b])]

Writes(w, b) ==
  /\ ListsGroup(w, b) \/ ListsName(w, b)
  /\ at[w] \in 1..Len(table[b]) /\ at[w] \notin Passed[b]
  /\ Passed[b] = {k \in 1..Len(table[b]) : k \in matched[b] \/ k < at[w]}
  /\ Passed' = [Passed EXCEPT ![b] = @ \cup {at[w]} \cup Matches(b, at[w])]

ListNext ==
  \/ Rests
  \/ \E p \in Proc, f \in File : GivesFile(p, f) /\ Passed' = Passed
  \/ \E w \in Worker, b \in CompareItem :
       \/ EndsCompare(w, b) /\ Passed' = [Passed EXCEPT ![b] = {}]
       \/ PassesOn(w, b)
       \/ Writes(w, b)

(* What is marked when.                                                    *)
LEMMA BucketStep ==
  ASSUME SearchInv, BucketInv, ViewNext
  PROVE  BucketInv'
<1> USE DEF findVars, compareVars, mainVars
<1>a. matched \in [CompareItem -> SUBSET Nat] /\ FindItem \cap CompareItem = {} /\ IInv
  BY WorkQueueAssumption DEF SearchInv, BaseInv, DataTypes
<1>1. ASSUME UNCHANGED <<matched, dupes, unique>>, Born \subseteq Born',
             Unclaimed' \cap Born \cap CompareItem \subseteq Unclaimed,
             mpc' \in FindStage => mpc \in FindStage
      PROVE  BucketInv'
  BY <1>1 DEF BucketInv
<1>2. CASE Still \/ Quits \/ Signalled \/ Advances \/ Starts \/ Prints
  <2>1. SameQueue /\ UNCHANGED <<matched, dupes, unique>>
    BY <1>2 DEF Still, Quits, Signalled, Advances, NextSource, Starts, BeginCompare,
       Prints,
       PrintCounts
  <2>2. mpc' \in FindStage => mpc \in FindStage
    BY <1>2 DEF Still, Quits, Signalled, Advances, Starts, Prints, MainGoesOn,
       FindStage,
       Shutdown, Dead
  <2> QED BY <1>1, <2>1, <2>2 DEF SameQueue
<1>3. ASSUME NEW p \in Proc, NEW f \in File, GivesFile(p, f) PROVE BucketInv'
  BY <1>1, <1>3 DEF GivesFile, ReadFile, SameQueue
<1>4. ASSUME NEW p \in Proc, NEW d \in FindItem, GivesDir(p, d) PROVE BucketInv'
  BY <1>1, <1>4, <1>a DEF GivesDir
<1>5. ASSUME NEW b \in CompareItem, Queues(b) PROVE BucketInv'
  BY <1>1, <1>5 DEF Queues
<1>6. ASSUME NEW w \in Worker, NEW i,
             EndsFind(w, i) \/ EndsCompare(w, i) \/ BeginsNothing(w) \/ Begins(w, i)
      PROVE  BucketInv'
  BY <1>1, <1>6 DEF EndsFind, EndsCompare, Ends, BeginsNothing, Begins, SameQueue,
     FindStage,
     Dead
<1>7. ASSUME NEW w \in Worker, NEW b \in CompareItem,
             Passes(w, b) \/ ListsGroup(w, b) \/ ListsName(w, b)
      PROVE  BucketInv'
  <2>1. AtEntry(w, b) /\ matched' \in {matched, [matched EXCEPT ![b] = @ \cup Matches(b, at[w])]}
    BY <1>7 DEF Passes, ListsGroup, ListsName, Lists
  <2>2. <<w, b>> \in Runs /\ SameQueue /\ mpc' \notin FindStage
    BY <2>1 DEF AtEntry, CompareStage, FindStage
  <2>3. b \in Born /\ b \notin Unclaimed
    BY <1>a, <2>2, QueueFacts DEF Item
  <2> QED BY <1>a, <2>1, <2>2, <2>3 DEF BucketInv, SameQueue
<1> QED BY <1>2, <1>3, <1>4, <1>5, <1>6, <1>7 DEF ViewNext

(* Every step is one of these.                                             *)
LEMMA ListView ==
  ASSUME SearchInv, BucketInv, ViewNext
  PROVE  ListNext
<1> USE DEF findVars, compareVars, mainVars
<1>a. /\ table \in [CompareItem -> Seq(File)] /\ matched \in [CompareItem -> SUBSET Nat]
      /\ at \in [Worker -> Nat] /\ FindItem \cap CompareItem = {} /\ IInv /\ AtInv
  BY WorkQueueAssumption DEF SearchInv, BaseInv, DataTypes
<1>1. ASSUME UNCHANGED <<table, matched, dupes, unique>>,
             \A w \in Worker, b \in CompareItem :
               /\ <<w, b>> \in Runs' /\ at'[w] # 1 => <<w, b>> \in Runs
               /\ <<w, b>> \in Runs => <<w, b>> \in Runs' /\ at'[w] = at[w]
      PROVE  ListNext
  <2>1. ASSUME NEW b \in CompareItem, NEW k \in 1..Len(table[b])
        PROVE  (\E w \in Worker : <<w, b>> \in Runs' /\ k < at'[w])
                 <=> (\E w \in Worker : <<w, b>> \in Runs /\ k < at[w])
    <3>1. k \in Nat /\ ~ (k < 1)
      BY <1>a
    <3> QED BY <1>1, <3>1
  <2>2. Passed' = Passed
    BY <1>1, <2>1 DEF Passed
  <2> QED BY <1>1, <2>2 DEF ListNext, Rests
<1>2. CASE Still \/ Quits \/ Signalled \/ Advances \/ Starts \/ Prints
  <2>1. SameQueue /\ UNCHANGED <<table, matched, dupes, unique, at>>
    BY <1>2 DEF Still, Quits, Signalled, Advances, NextSource, Starts, BeginCompare,
       Prints,
       PrintCounts
  <2> QED BY <1>1, <2>1 DEF SameQueue
<1>3. ASSUME NEW p \in Proc, NEW f \in File, GivesFile(p, f) PROVE ListNext
  <2> DEFINE c == Index(Size[f])
  <2>1. /\ SameQueue /\ UNCHANGED <<matched, at>> /\ mpc \in FindStage
        /\ table' \in {table, [table EXCEPT ![c] = Append(@, f)]}
    BY <1>3 DEF GivesFile, ReadFile, Reading, FindStage
  <2>2. c \in CompareItem /\ c \notin Born
    BY <2>1, FindDupesAssumption DEF SearchInv, StageInv
  <2>3. matched[c] = {} /\ \A w \in Worker : <<w, c>> \notin Runs
    BY <1>a, <2>2, QueueFacts DEF BucketInv, Item
  <2> HIDE DEF c
  <2>4. \A b \in CompareItem : b # c => table'[b] = table[b]
    BY <1>a, <2>1, <2>2
  <2>5. Passed' = Passed
    BY <2>1, <2>3, <2>4 DEF Passed, SameQueue
  <2> QED BY <1>3, <2>5 DEF ListNext
<1>4. ASSUME NEW p \in Proc, NEW d, GivesDir(p, d) PROVE ListNext
  BY <1>1, <1>4 DEF GivesDir
<1>5. ASSUME NEW b, Queues(b) PROVE ListNext
  BY <1>1, <1>5 DEF Queues
<1>6. ASSUME NEW w \in Worker, NEW d \in FindItem, EndsFind(w, d) PROVE ListNext
  BY <1>1, <1>6, <1>a DEF EndsFind, Ends
<1>7. ASSUME NEW w \in Worker, NEW b \in CompareItem, EndsCompare(w, b) PROVE ListNext
  <2>1. /\ <<w, b>> \in Runs /\ Runs' = Runs \ {<<w, b>>} /\ UNCHANGED <<matched, at>>
        /\ table' = [table EXCEPT ![b] = <<>>]
    BY <1>7 DEF EndsCompare, Ends
  <2>2. ASSUME NEW c \in CompareItem
        PROVE  Passed'[c] = IF c = b THEN {} ELSE Passed[c]
    <3>1. CASE c = b
      <4>1. table'[b] = <<>> /\ 1..Len(<<>>) = {}
        BY <1>a, <2>1
      <4> QED BY <3>1, <4>1 DEF Passed
    <3>2. CASE c # b
      <4>1. table'[c] = table[c] /\ \A v \in Worker : <<v, c>> \in Runs' <=> <<v, c>> \in Runs
        BY <1>a, <2>1, <3>2
      <4> QED BY <2>1, <3>2, <4>1 DEF Passed
    <3> QED BY <3>1, <3>2
  <2>3. Passed' = [Passed EXCEPT ![b] = {}]
    BY <2>2 DEF Passed
  <2> QED BY <1>7, <2>3 DEF ListNext
<1>8. ASSUME NEW w \in Worker, BeginsNothing(w) PROVE ListNext
  <2>1. /\ UNCHANGED <<table, matched, dupes, unique>> /\ Runs' = Runs
        /\ at' = [at EXCEPT ![w] = 1] /\ \A b \in CompareItem : <<w, b>> \notin Runs
    BY <1>8 DEF BeginsNothing, SameQueue, Item
  <2> QED BY <1>1, <1>a, <2>1
<1>9. ASSUME NEW w \in Worker, NEW i \in Item, Begins(w, i) PROVE ListNext
  <2>1. /\ UNCHANGED <<table, matched, dupes, unique>> /\ Runs' = Runs \cup {<<w, i>>}
        /\ at' = [at EXCEPT ![w] = 1] /\ \A b \in CompareItem : <<w, b>> \notin Runs
    BY <1>9 DEF Begins, Item
  <2> QED BY <1>1, <1>a, <2>1
<1>10. ASSUME NEW w \in Worker, NEW b \in CompareItem,
              Passes(w, b) \/ ListsGroup(w, b) \/ ListsName(w, b)
       PROVE  ListNext
  <2> DEFINE k == at[w]
             n == Len(table[b])
  <2>1. AtEntry(w, b)
    BY <1>10 DEF Passes, ListsGroup, ListsName, Lists
  <2>2. /\ <<w, b>> \in Runs /\ Runs' = Runs /\ table' = table /\ k <= n
        /\ k \in 1..n /\ n \in Nat /\ k \in Nat
    BY <1>a, <2>1 DEF AtEntry, SameQueue, AtInv
  <2>3. /\ \A v \in Worker : <<v, b>> \in Runs => v = w
        /\ \A c \in CompareItem : <<w, c>> \in Runs => c = b
    BY <1>a, <2>2, QueueFacts DEF Item
  <2>4. Passed[b] = {j \in 1..n : j \in matched[b] \/ j < k}
    BY <2>2, <2>3 DEF Passed
  <2> DEFINE now == {j \in 1..n : j \in matched'[b] \/ j < at'[w]}
  <2>5. ASSUME at' \in {[at EXCEPT ![w] = k + 1], [at EXCEPT ![w] = n + 1]},
               \A c \in CompareItem : c # b => matched'[c] = matched[c]
        PROVE  Passed' = [Passed EXCEPT ![b] = now]
    <3>1. ASSUME NEW c \in CompareItem
          PROVE  Passed'[c] = IF c = b THEN now ELSE Passed[c]
      <4>1. CASE c = b
        BY <2>2, <2>3, <4>1 DEF Passed
      <4>2. CASE c # b
        <5>1. matched'[c] = matched[c] /\ \A v \in Worker : <<v, c>> \in Runs => at'[v] = at[v]
          BY <1>a, <2>3, <2>5, <4>2
        <5> QED BY <2>2, <4>2, <5>1 DEF Passed
      <4> QED BY <4>1, <4>2
    <3> HIDE DEF now
    <3> QED BY <3>1 DEF Passed
  <2>6. CASE Passes(w, b)
    <3>1. matched' = matched
      BY <2>6 DEF Passes
    <3>2. CASE k \in matched[b] /\ at' = [at EXCEPT ![w] = k + 1]
      <4>1. at'[w] = k + 1
        BY <1>a, <3>2
      <4>2. now = Passed[b]
        <5>1. \A j \in 1..n : j < k + 1 <=> j < k \/ j = k
          BY <2>2
        <5> QED BY <2>4, <3>1, <3>2, <4>1, <5>1
      <4> HIDE DEF now
      <4>3. Passed' = [Passed EXCEPT ![b] = Passed[b]]
        BY <2>5, <3>1, <3>2, <4>2
      <4>4. Passed' = Passed
        BY <4>3 DEF Passed
      <4> QED BY <2>6, <4>4 DEF ListNext, PassesOn
    <3>3. CASE term /\ at' = [at EXCEPT ![w] = n + 1]
      <4>1. at'[w] = n + 1
        BY <1>a, <3>3
      <4>2. now = 1..n
        BY <2>2, <4>1
      <4> HIDE DEF now
      <4>3. Passed' = [Passed EXCEPT ![b] = 1..n]
        BY <2>5, <3>1, <3>3, <4>2
      <4> QED BY <2>6, <3>3, <4>3 DEF ListNext, PassesOn
    <3> QED BY <2>6, <3>2, <3>3 DEF Passes
  <2>7. CASE ListsGroup(w, b) \/ ListsName(w, b)
    <3>1. /\ at' = [at EXCEPT ![w] = k + 1] /\ k \notin matched[b]
          /\ matched' = [matched EXCEPT ![b] = matched[b] \cup Matches(b, k)]
      BY <2>7 DEF ListsGroup, ListsName, Lists
    <3>2. at'[w] = k + 1 /\ matched'[b] = matched[b] \cup Matches(b, k)
      BY <1>a, <3>1
    <3>3. Matches(b, k) \subseteq 1..n
      BY <2>2 DEF Matches
    <3>4. now = Passed[b] \cup {k} \cup Matches(b, k)
      <4>1. \A j \in 1..n : j < k + 1 <=> j < k \/ j = k
        BY <2>2
      <4> QED BY <2>2, <2>4, <3>2, <3>3, <4>1
    <3> HIDE DEF now
    <3>5. Passed' = [Passed EXCEPT ![b] = @ \cup {k} \cup Matches(b, k)]
      BY <2>5, <3>1, <3>4
    <3>6. k \notin Passed[b]
      BY <2>2, <2>4, <3>1
    <3> QED BY <2>2, <2>4, <2>7, <3>5, <3>6 DEF ListNext, Writes
  <2> QED BY <1>10, <2>6, <2>7
<1> QED BY <1>2, <1>3, <1>4, <1>5, <1>6, <1>7, <1>8, <1>9, <1>10 DEF ViewNext

(* What is settled stays so: a signal, a result, the stages of main.       *)
LEMMA Progress ==
  ASSUME ViewNext, term \in BOOLEAN, failed \in BOOLEAN
  PROVE  /\ term => term'
         /\ failed => failed'
         /\ mpc' \in TableStage => mpc \in TableStage \/ Starts
         /\ mpc' \in {"clean"} \cup Shutdown =>
              mpc \in {"clean"} \cup Shutdown \/ Prints \/ failed'
         /\ mpc # "findDone" => emptyLst' = emptyLst
<1> USE DEF findVars, compareVars, mainVars, TableStage, Shutdown
<1>1. CASE Still \/ Quits \/ Signalled \/ Advances
  <2>1. emptyLst' = emptyLst /\ (term => term') /\ (failed => failed')
    BY <1>1 DEF Still, Quits, Signalled, Advances, NextSource
  <2>2. mpc' \in TableStage => mpc \in TableStage
    BY <1>1 DEF Still, Quits, Signalled, Advances, MainGoesOn, Dead
  <2>3. mpc' \in {"clean"} \cup Shutdown => mpc \in {"clean"} \cup Shutdown \/ failed'
    BY <1>1 DEF Still, Quits, Signalled, Advances, MainGoesOn, Dead
  <2> QED BY <2>1, <2>2, <2>3
<1>2. CASE Starts \/ Prints
  BY <1>2 DEF Starts, BeginCompare, Prints, PrintCounts
<1>3. ASSUME NEW p, NEW e, GivesFile(p, e) \/ GivesDir(p, e) \/ Queues(e)
      PROVE  UNCHANGED <<term, failed, mpc, emptyLst>>
  BY <1>3 DEF GivesFile, ReadFile, GivesDir, Queues
<1>4. ASSUME NEW w \in Worker, NEW i,
             \/ EndsFind(w, i) \/ EndsCompare(w, i) \/ Passes(w, i) \/ ListsGroup(w, i)
             \/ ListsName(w, i) \/ BeginsNothing(w) \/ Begins(w, i)
      PROVE  /\ UNCHANGED <<term, failed, emptyLst>>
             /\ (mpc' = mpc \/ mpc' \in Dead)
  BY <1>4 DEF EndsFind, EndsCompare, Ends, Passes, ListsGroup, ListsName, Lists,
     AtEntry,
     BeginsNothing, Begins
<1>5. ASSUME UNCHANGED <<term, failed, emptyLst>>, mpc' = mpc \/ mpc' \in Dead
      PROVE  /\ term => term'
             /\ failed => failed'
             /\ mpc' \in TableStage => mpc \in TableStage
             /\ mpc' \in {"clean"} \cup Shutdown => mpc \in {"clean"} \cup Shutdown
             /\ emptyLst' = emptyLst
  BY <1>5 DEF Dead
<1>6. CASE UNCHANGED <<term, failed, emptyLst>> /\ (mpc' = mpc \/ mpc' \in Dead)
  BY <1>5, <1>6
<1>7. \/ Still \/ Quits \/ Signalled \/ Advances \/ Starts \/ Prints
      \/ UNCHANGED <<term, failed, emptyLst>> /\ (mpc' = mpc \/ mpc' \in Dead)
  BY <1>3, <1>4 DEF ViewNext
<1> QED BY <1>1, <1>2, <1>6, <1>7

-----------------------------------------------------------------------------
(* What is in either list.                                                 *)
Listed == ToSet(unique) \cup (UNION {ToSet(g) : g \in ToSet(dupes)})

(* An entry and its matches are written.                                   *)
LEMMA ListedView ==
  ASSUME SearchInv, NEW w \in Worker, NEW b \in CompareItem, Writes(w, b)
  PROVE  /\ Listed' = Listed \cup {table[b][j] : j \in {at[w]} \cup Matches(b, at[w])}
         /\ <<w, b>> \in Runs /\ mpc \in TableStage /\ mpc' = mpc /\ table' = table
<1> DEFINE k == at[w]
<1>1. dupes \in Seq(Seq(File)) /\ unique \in Seq(File) /\ table[b] \in Seq(File)
  BY DEF SearchInv, BaseInv, DataTypes
<1>2. k \in 1..Len(table[b])
  BY DEF Writes
<1>5. /\ <<w, b>> \in Runs /\ mpc \in TableStage /\ mpc' = mpc /\ table' = table
  <2>1. AtEntry(w, b)
    BY DEF Writes, ListsGroup, ListsName, Lists
  <2> QED BY <2>1 DEF AtEntry, findVars, CompareStage, TableStage
<1> SUFFICES Listed' = Listed \cup {table[b][j] : j \in {k} \cup Matches(b, k)}
  BY <1>5
<1>3. CASE ListsGroup(w, b)
  <2>1. /\ dupes' = Append(dupes, GroupOf(b, k)) /\ unique' = unique
        /\ GroupOf(b, k) \in Seq(File)
        /\ ToSet(GroupOf(b, k)) = {table[b][j] : j \in {k} \cup Matches(b, k)}
    BY <1>1, <1>2, <1>3, GroupShape DEF ListsGroup
  <2>2. ToSet(dupes') = ToSet(dupes) \cup {GroupOf(b, k)}
    BY <1>1, <2>1, AppendElements
  <2> QED BY <2>1, <2>2 DEF Listed
<1>4. CASE ListsName(w, b)
  <2>1. unique' = Append(unique, table[b][k]) /\ dupes' = dupes /\ Matches(b, k) = {}
    BY <1>4 DEF ListsName
  <2>2. ToSet(unique') = ToSet(unique) \cup {table[b][k]}
    BY <1>1, <1>2, <2>1, AppendElements
  <2> QED BY <2>1, <2>2 DEF Listed
<1> QED BY <1>3, <1>4 DEF Writes

(* Other steps leave the lists as they are.                                *)
LEMMA ListedElse ==
  ASSUME ListNext, ~ \E w \in Worker, b \in CompareItem : Writes(w, b)
  PROVE  UNCHANGED <<dupes, unique>> /\ Listed' = Listed
<1>1. UNCHANGED <<dupes, unique>>
  BY DEF ListNext, Rests, GivesFile, ReadFile, EndsCompare, Ends, PassesOn, Passes,
     compareVars
<1> QED BY <1>1 DEF Listed

-----------------------------------------------------------------------------
(* What a success rests on.  Without a signal what is done with is listed, *)
(* every file with data is in its bucket or listed, and main cleans up     *)
(* with a result of 0 when all of them are.                                *)
WrittenInv ==
  ~term => \A b \in CompareItem : \A k \in Passed[b] : table[b][k] \in Listed

KeptInv ==
  ~term /\ mpc \in TableStage =>
    \A f \in Wanted : Size[f] # 0 => f \in ToSet(table[Index(Size[f])]) \/ f \in Listed

SuccessInv ==
  mpc \in {"clean"} \cup Shutdown /\ ~failed =>
    \A f \in Wanted : IF Size[f] = 0 THEN f \in ToSet(emptyLst) ELSE f \in Listed

(* What is done with is listed.                                            *)
LEMMA WrittenStep ==
  ASSUME SearchInv, WrittenInv, ViewNext, ListNext
  PROVE  WrittenInv'
<1>a. /\ table \in [CompareItem -> Seq(File)]
      /\ \A b \in CompareItem : Passed[b] \subseteq 1..Len(table[b])
  BY DEF SearchInv, BaseInv, DataTypes, Passed
<1>b. term => term'
  BY Progress DEF SearchInv, BaseInv, DataTypes
<1>1. ASSUME NEW w \in Worker, NEW b \in CompareItem, Writes(w, b) PROVE WrittenInv'
  <2> DEFINE N == {at[w]} \cup Matches(b, at[w])
  <2>1. Listed' = Listed \cup {table[b][j] : j \in N} /\ table' = table
    BY <1>1, ListedView
  <2>2. \A c \in CompareItem : Passed'[c] = IF c = b THEN Passed[b] \cup N ELSE Passed[c]
    BY <1>1 DEF Writes, Passed
  <2> HIDE DEF N
  <2> QED BY <1>b, <2>1, <2>2 DEF WrittenInv
<1>2. CASE ~ \E w \in Worker, b \in CompareItem : Writes(w, b)
  <2>1. Listed' = Listed
    BY <1>2, ListedElse
  <2>2. CASE Rests
    BY <1>b, <2>1, <2>2 DEF Rests, WrittenInv
  <2>3. ASSUME NEW p \in Proc, NEW f \in File, GivesFile(p, f), Passed' = Passed
        PROVE  WrittenInv'
    <3> DEFINE c == Index(Size[f])
    <3>1. table' \in {table, [table EXCEPT ![c] = Append(@, f)]} /\ c \in CompareItem
      BY <2>3, FindDupesAssumption DEF GivesFile, ReadFile
    <3> HIDE DEF c
    <3>2. ASSUME NEW b \in CompareItem, NEW k \in Passed[b]
          PROVE  table'[b][k] = table[b][k]
      <4>1. k \in 1..Len(table[b]) /\ table[b] \in Seq(File)
        BY <1>a
      <4>2. table'[b] \in {table[b], Append(table[b], f)}
        BY <1>a, <3>1
      <4> QED BY <4>1, <4>2
    <3> QED BY <1>b, <2>1, <2>3, <3>2 DEF WrittenInv
  <2>4. ASSUME NEW w \in Worker, NEW b \in CompareItem, EndsCompare(w, b),
               Passed' = [Passed EXCEPT ![b] = {}]
        PROVE  WrittenInv'
    <3>1. \A c \in CompareItem : Passed'[c] = IF c = b THEN {} ELSE Passed[c]
      BY <2>4 DEF Passed
    <3>2. \A c \in CompareItem : c # b => table'[c] = table[c]
      BY <1>a, <2>4 DEF EndsCompare
    <3> QED BY <1>b, <2>1, <3>1, <3>2 DEF WrittenInv
  <2>5. ASSUME NEW w \in Worker, NEW b \in CompareItem, PassesOn(w, b) PROVE WrittenInv'
    <3>1. table' = table /\ (Passed' = Passed \/ term)
      BY <2>5 DEF PassesOn, Passes, AtEntry, findVars
    <3> QED BY <1>b, <2>1, <3>1 DEF WrittenInv
  <2> QED BY <1>2, <2>2, <2>3, <2>4, <2>5 DEF ListNext
<1> QED BY <1>1, <1>2

(* A bucket is emptied when all its entries are listed.                    *)
LEMMA KeptStep ==
  ASSUME SearchInv, WrittenInv, KeptInv, ViewNext, ListNext
  PROVE  KeptInv'
<1>a. /\ table \in [CompareItem -> Seq(File)] /\ at \in [Worker -> Nat]
      /\ term \in BOOLEAN /\ failed \in BOOLEAN /\ IInv
      /\ \A f \in Wanted : f \in File /\ Index(Size[f]) \in CompareItem
  BY FindDupesAssumption DEF SearchInv, BaseInv, DataTypes, Wanted
<1>b. Listed \subseteq Listed'
  BY ListedView, ListedElse
<1>c. term => term'
  BY <1>a, Progress
<1>1. CASE Starts
  <2>1. table' = table /\ mpc = "findDone" /\ ~term
    BY <1>1 DEF Starts, BeginCompare
  <2>2. Wanted \subseteq Entered
    BY <2>1, SearchEnds DEF SearchInv
  <2> QED BY <2>1, <2>2 DEF KeptInv, Entered
<1>2. CASE ~Starts
  <2>1. mpc' \in TableStage => mpc \in TableStage
    BY <1>2, <1>a, Progress
  <2>2. ASSUME NEW w \in Worker, NEW b \in CompareItem, EndsCompare(w, b) PROVE KeptInv'
    <3>1. <<w, b>> \in Runs /\ at[w] > Len(table[b]) /\ table' = [table EXCEPT ![b] = <<>>]
      BY <2>2 DEF EndsCompare, Ends
    <3>2. Passed[b] = 1..Len(table[b])
      <4>1. Len(table[b]) \in Nat /\ at[w] \in Nat
        BY <1>a
      <4>2. \A k \in 1..Len(table[b]) : k < at[w]
        BY <3>1, <4>1
      <4> QED BY <3>1, <4>2, Zenon DEF Passed
    <3>3. ~term => ToSet(table[b]) \subseteq Listed
      BY <1>a, <3>2 DEF WrittenInv, ToSet
    <3>4. \A c \in CompareItem : c # b => table'[c] = table[c]
      BY <1>a, <3>1
    <3> QED BY <1>a, <1>b, <1>c, <2>1, <3>3, <3>4 DEF KeptInv
  <2>3. CASE \A b \in CompareItem : ToSet(table[b]) \subseteq ToSet(table'[b])
    BY <1>a, <1>b, <1>c, <2>1, <2>3 DEF KeptInv
  <2>4. ASSUME NEW p \in Proc, NEW f \in File, GivesFile(p, f) PROVE KeptInv'
    BY <2>1, <2>4 DEF GivesFile, Reading, KeptInv, TableStage
  <2>5. \/ \A b \in CompareItem : table'[b] = table[b]
        \/ \E p \in Proc, f \in File : GivesFile(p, f)
        \/ \E w \in Worker, b \in CompareItem : EndsCompare(w, b)
    BY ListedView DEF ListNext, Rests, PassesOn, Passes, AtEntry, findVars
  <2> QED BY <2>2, <2>3, <2>4, <2>5
<1> QED BY <1>1, <1>2

(* Main goes on without a failure when all buckets are done with.          *)
LEMMA SuccessStep ==
  ASSUME SearchInv, KeptInv, SuccessInv, ViewNext, ListNext
  PROVE  SuccessInv'
<1>a. /\ term \in BOOLEAN /\ failed \in BOOLEAN /\ IInv
      /\ \A f \in Wanted : f \in File /\ Index(Size[f]) \in CompareItem
  BY FindDupesAssumption DEF SearchInv, BaseInv, DataTypes, Wanted
<1>b. Listed \subseteq Listed'
  BY ListedView, ListedElse
<1>1. CASE Prints
  <2>1. mpc = "compareDone" /\ ~term
    BY <1>1 DEF Prints, PrintCounts
  <2>2. Linked = {} /\ CompareItem \subseteq Born
    BY <1>a, <2>1, QueueFacts DEF SearchInv, StageInv
  <2>3. \A b \in CompareItem : ToSet(table[b]) = {}
    BY <2>2 DEF SearchInv, TableInv, ToSet
  <2>4. \A f \in Wanted : IF Size[f] = 0 THEN f \in ToSet(emptyLst) ELSE f \in Listed
    BY <1>a, <2>1, <2>3 DEF SearchInv, CompleteInv, KeptInv, TableStage
  <2>5. emptyLst' = emptyLst
    BY <1>a, <2>1, Progress
  <2> QED BY <1>b, <2>4, <2>5 DEF SuccessInv
<1>2. CASE ~Prints
  <2> SUFFICES ASSUME mpc' \in {"clean"} \cup Shutdown, ~failed' PROVE SuccessInv'
    BY DEF SuccessInv
  <2>1. mpc \in {"clean"} \cup Shutdown /\ ~failed
    BY <1>2, <1>a, Progress
  <2>2. emptyLst' = emptyLst
    BY <1>a, <2>1, Progress DEF Shutdown
  <2> QED BY <1>b, <2>1, <2>2 DEF SuccessInv
<1> QED BY <1>1, <1>2

(* All of them together.                                                   *)
CompareInv == SearchInv /\ BucketInv /\ WrittenInv /\ KeptInv /\ SuccessInv

(* They hold at first,                                                     *)
LEMMA CompareInit == FDInit => CompareInv
<1> SUFFICES ASSUME FDInit PROVE CompareInv
  OBVIOUS
<1>1. SearchInv
  BY SearchInit
<1>2. mpc \notin TableStage \cup {"clean"} \cup Shutdown
  BY DEF FDInit, Init, TableStage, Shutdown
<1>3. BucketInv
  BY DEF FDInit, BucketInv
<1>4. WrittenInv
  <2>1. \A b \in CompareItem : Len(table[b]) = 0
    BY DEF FDInit
  <2>2. \A b \in CompareItem : Passed[b] = {}
    BY <2>1 DEF Passed
  <2> QED BY <2>2 DEF WrittenInv
<1> QED BY <1>1, <1>2, <1>3, <1>4 DEF CompareInv, KeptInv, SuccessInv

(* and after every step.                                                   *)
LEMMA CompareStep ==
  ASSUME CompareInv, [FDNext]_fdVars
  PROVE  CompareInv' /\ ViewNext /\ ListNext /\ (OnceInv => OnceInv')
<1>1. SearchInv' /\ ViewNext /\ (OnceInv => OnceInv')
  BY SearchStep DEF CompareInv
<1>2. BucketInv' /\ ListNext
  BY <1>1, BucketStep, ListView DEF CompareInv
<1>3. WrittenInv' /\ KeptInv' /\ SuccessInv'
  BY <1>1, <1>2, WrittenStep, KeptStep, SuccessStep DEF CompareInv
<1> QED BY <1>1, <1>2, <1>3 DEF CompareInv

(* When find-dupes ends as a success, every file below the sources is in   *)
(* empty.lst, unique.lst or a group of dupes.lst, whenever a signal came   *)
(* and whether or not sources overlap (find-dupes.c:523, 592, 615).        *)
THEOREM SuccessComplete == FDSpec => []SuccessIsComplete
<1>1. CompareInv /\ [FDNext]_fdVars => CompareInv'
  BY CompareStep
<1>2. CompareInv => SuccessIsComplete
  BY DEF CompareInv, SuccessInv, SuccessIsComplete, Shutdown, Listed
<1> QED BY <1>1, <1>2, CompareInit, PTL DEF FDSpec

-----------------------------------------------------------------------------
(* Why the lists are right when every file is found once.  The entries     *)
(* that are done with take their equals along, and no other is listed.     *)
ClosedInv ==
  \A b \in CompareItem : \A k \in Passed[b], j \in 1..Len(table[b]) :
    Size[table[b][j]] = Size[table[b][k]] /\ Digest[table[b][j]] = Digest[table[b][k]]
      => j \in Passed[b]

ListedInv ==
  \A b \in CompareItem : \A k \in 1..Len(table[b]) : table[b][k] \in Listed => k \in Passed[b]

(* The equals go with an entry.                                            *)
LEMMA ClosedStep ==
  ASSUME SearchInv, BucketInv, ClosedInv, ListNext
  PROVE  ClosedInv'
<1>a. /\ table \in [CompareItem -> Seq(File)]
      /\ \A b \in CompareItem : Passed[b] \subseteq 1..Len(table[b])
  BY DEF SearchInv, BaseInv, DataTypes, Passed
<1>1. CASE Rests
  BY <1>1 DEF Rests, ClosedInv
<1>2. ASSUME NEW p \in Proc, NEW f \in File, GivesFile(p, f), Passed' = Passed
      PROVE  ClosedInv'
  <2> DEFINE c == Index(Size[f])
  <2>1. table' \in {table, [table EXCEPT ![c] = Append(@, f)]} /\ c \in CompareItem
    BY <1>2, FindDupesAssumption DEF GivesFile, ReadFile
  <2>2. c \notin Born /\ IInv
    BY <1>2, <2>1 DEF GivesFile, Reading, SearchInv, BaseInv, StageInv, FindStage
  <2>3. Passed[c] = {}
    BY <2>1, <2>2, QueueFacts DEF BucketInv, Item, Passed
  <2> HIDE DEF c
  <2>4. \A b \in CompareItem : b # c => table'[b] = table[b]
    BY <1>a, <2>1
  <2> QED BY <1>2, <2>3, <2>4 DEF ClosedInv
<1>3. ASSUME NEW w \in Worker, NEW b \in CompareItem, EndsCompare(w, b),
             Passed' = [Passed EXCEPT ![b] = {}]
      PROVE  ClosedInv'
  <2>1. \A c \in CompareItem : Passed'[c] = IF c = b THEN {} ELSE Passed[c]
    BY <1>3 DEF Passed
  <2>2. \A c \in CompareItem : c # b => table'[c] = table[c]
    BY <1>a, <1>3 DEF EndsCompare
  <2> QED BY <2>1, <2>2 DEF ClosedInv
<1>4. ASSUME NEW w \in Worker, NEW b \in CompareItem, PassesOn(w, b) PROVE ClosedInv'
  <2>1. table' = table
    BY <1>4 DEF PassesOn, Passes, AtEntry, findVars
  <2>2. \A c \in CompareItem : Passed'[c] \in {Passed[c], 1..Len(table[c])}
    BY <1>4 DEF PassesOn, Passed
  <2> QED BY <2>1, <2>2 DEF ClosedInv
<1>5. ASSUME NEW w \in Worker, NEW b \in CompareItem, Writes(w, b) PROVE ClosedInv'
  <2> DEFINE k == at[w]
             n == Len(table[b])
             Same(i, j) == /\ Size[table[b][j]] = Size[table[b][i]]
                           /\ Digest[table[b][j]] = Digest[table[b][i]]
  <2>1. table' = table /\ k \in 1..n
    BY <1>5, ListedView DEF Writes
  <2>2. /\ Passed[b] = {j \in 1..n : j \in matched[b] \/ j < k}
        /\ \A c \in CompareItem :
             Passed'[c] = IF c = b THEN Passed[b] \cup {k} \cup Matches(b, k) ELSE Passed[c]
    BY <1>5 DEF Writes, Passed
  <2>3. Matches(b, k) = {j \in (k + 1)..n : j \notin matched[b] /\ Same(k, j)}
    BY DEF Matches
  <2>4. ASSUME NEW i \in {k} \cup Matches(b, k), NEW j \in 1..n, Same(i, j)
        PROVE  j \in Passed'[b]
    <3>1. Same(k, j)
      BY <2>3, <2>4
    <3>2. n \in Nat /\ k \in Nat /\ j \in Nat /\ j <= n
      BY <1>a, <2>1
    <3>3. j < k \/ j = k \/ j \in (k + 1)..n
      BY <3>2
    <3>4. j \in Passed[b] \/ j = k \/ j \in Matches(b, k)
      BY <2>2, <2>3, <3>1, <3>3
    <3> QED BY <2>2, <3>4
  <2>5. ASSUME NEW i \in Passed[b], NEW j \in 1..n, Same(i, j) PROVE j \in Passed'[b]
    BY <2>2, <2>5 DEF ClosedInv
  <2>6. ASSUME NEW c \in CompareItem, NEW i \in Passed'[c], NEW j \in 1..Len(table'[c]),
               Size[table'[c][j]] = Size[table'[c][i]],
               Digest[table'[c][j]] = Digest[table'[c][i]]
        PROVE  j \in Passed'[c]
    <3>1. CASE c = b
      <4>1. i \in Passed[b] \/ i \in {k} \cup Matches(b, k)
        BY <2>2, <2>6, <3>1
      <4>2. Same(i, j) /\ j \in 1..n
        BY <2>1, <2>6, <3>1
      <4> QED BY <2>4, <2>5, <3>1, <4>1, <4>2
    <3>2. CASE c # b
      BY <2>1, <2>2, <2>6, <3>2 DEF ClosedInv
    <3> QED BY <3>1, <3>2
  <2> QED BY <2>6 DEF ClosedInv
<1> QED BY <1>1, <1>2, <1>3, <1>4, <1>5 DEF ListNext

(* No other entry is listed: a file is at one place in the table.          *)
LEMMA ListedStep ==
  ASSUME SearchInv, BucketInv, Distinct, ListedInv, ListNext
  PROVE  ListedInv'
<1>a. /\ table \in [CompareItem -> Seq(File)]
      /\ \A b \in CompareItem : Passed[b] \subseteq 1..Len(table[b])
  BY DEF SearchInv, BaseInv, DataTypes, Passed
<1>1. ASSUME NEW w \in Worker, NEW b \in CompareItem, Writes(w, b) PROVE ListedInv'
  <2> DEFINE N == {at[w]} \cup Matches(b, at[w])
  <2>1. /\ table' = table
        /\ Listed' = Listed \cup {table[b][j] : j \in N}
    BY <1>1, ListedView
  <2>2. /\ N \subseteq 1..Len(table[b])
        /\ \A c \in CompareItem : Passed'[c] = IF c = b THEN Passed[b] \cup N ELSE Passed[c]
    <3>1. at[w] \in 1..Len(table[b]) /\ Len(table[b]) \in Nat
      BY <1>1, <1>a DEF Writes
    <3>2. Matches(b, at[w]) \subseteq 1..Len(table[b])
      BY <3>1 DEF Matches
    <3>3. \A c \in CompareItem : Passed'[c] = IF c = b THEN Passed[b] \cup N ELSE Passed[c]
      BY <1>1 DEF Writes, Passed
    <3> QED BY <3>1, <3>2, <3>3
  <2> HIDE DEF N
  <2>3. ASSUME NEW c \in CompareItem, NEW k \in 1..Len(table[c]), NEW j \in N,
               table[c][k] = table[b][j]
        PROVE  c = b /\ k \in N
    <3>1. table[c] \in Seq(File) /\ table[b] \in Seq(File) /\ j \in 1..Len(table[b])
      BY <1>a, <2>2
    <3>2. table[c][k] \in ToSet(table[c]) /\ table[b][j] \in ToSet(table[b])
      BY <3>1 DEF ToSet
    <3>3. c = b
      BY <2>3, <3>2 DEF SearchInv, TableInv
    <3>4. k = j
      BY <2>3, <3>1, <3>3 DEF Distinct, IsInjective
    <3> QED BY <3>3, <3>4
  <2> QED BY <2>1, <2>2, <2>3 DEF ListedInv
<1>2. CASE ~ \E w \in Worker, b \in CompareItem : Writes(w, b)
  <2>1. Listed' = Listed
    BY <1>2, ListedElse
  <2>2. CASE Rests
    BY <2>1, <2>2 DEF Rests, ListedInv
  <2>3. ASSUME NEW p \in Proc, NEW f \in File, GivesFile(p, f) PROVE ListedInv'
    <3>1. dupes = <<>> /\ unique = <<>>
      BY <2>3 DEF GivesFile, Reading, BucketInv, FindStage
    <3>2. Listed = {}
      BY <3>1 DEF Listed, ToSet
    <3> QED BY <2>1, <3>2 DEF ListedInv
  <2>4. ASSUME NEW w \in Worker, NEW b \in CompareItem, EndsCompare(w, b),
               Passed' = [Passed EXCEPT ![b] = {}]
        PROVE  ListedInv'
    <3>1. \A c \in CompareItem : c # b => Passed'[c] = Passed[c] /\ table'[c] = table[c]
      BY <1>a, <2>4 DEF Passed, EndsCompare
    <3>2. table'[b] = <<>> /\ 1..Len(<<>>) = {}
      BY <1>a, <2>4 DEF EndsCompare
    <3> QED BY <2>1, <3>1, <3>2 DEF ListedInv
  <2>5. ASSUME NEW w \in Worker, NEW b \in CompareItem, PassesOn(w, b) PROVE ListedInv'
    <3>1. table' = table
      BY <2>5 DEF PassesOn, Passes, AtEntry, findVars
    <3>2. \A c \in CompareItem : Passed'[c] \in {Passed[c], 1..Len(table[c])}
      BY <2>5 DEF PassesOn, Passed
    <3> QED BY <2>1, <3>1, <3>2 DEF ListedInv
  <2> QED BY <1>2, <2>2, <2>3, <2>4, <2>5 DEF ListNext
<1> QED BY <1>1, <1>2

(* What the callback writes is all files equal to the entry it is at: they *)
(* are in its bucket, and none of them is done with before it.             *)
LEMMA WritesClass ==
  ASSUME SearchInv, ClosedInv, NEW w \in Worker, NEW b \in CompareItem, Writes(w, b)
  PROVE  Class(table[b][at[w]]) = {table[b][j] : j \in {at[w]} \cup Matches(b, at[w])}
<1> DEFINE k == at[w]
           n == Len(table[b])
           Same(j) == /\ Size[table[b][j]] = Size[table[b][k]]
                      /\ Digest[table[b][j]] = Digest[table[b][k]]
<1>1. /\ table[b] \in Seq(File) /\ IInv /\ k \in 1..n /\ n \in Nat
      /\ Passed[b] = {j \in 1..n : j \in matched[b] \/ j < k} /\ k \notin Passed[b]
  BY DEF Writes, SearchInv, BaseInv, DataTypes
<1>2. <<w, b>> \in Runs /\ mpc \in TableStage
  BY ListedView
<1>3. b \in Linked
  BY <1>1, <1>2, QueueFacts DEF Item
<1>4. Matches(b, k) = {j \in (k + 1)..n : j \notin matched[b] /\ Same(j)}
  BY DEF Matches
<1>5. \A j \in 1..n : /\ table[b][j] \in Wanted /\ Size[table[b][j]] # 0
                      /\ Index(Size[table[b][j]]) = b
  BY <1>1 DEF SearchInv, TableInv, ToSet
<1>6. ASSUME NEW j \in {k} \cup Matches(b, k) PROVE table[b][j] \in Class(table[b][k])
  <2>1. j \in 1..n /\ Same(j)
    BY <1>1, <1>4
  <2> QED BY <1>5, <2>1 DEF Class
<1>7. ASSUME NEW f \in Class(table[b][k])
      PROVE  f \in {table[b][j] : j \in {k} \cup Matches(b, k)}
  <2>1. f \in Wanted /\ Size[f] # 0 /\ Index(Size[f]) = b
    BY <1>1, <1>5 DEF Class
  <2>2. f \in ToSet(table[b])
    BY <1>2, <1>3, <2>1 DEF SearchInv, CompleteInv
  <2>3. PICK j \in 1..n : f = table[b][j]
    BY <1>1, <2>2 DEF ToSet
  <2>4. Same(j)
    BY <2>3 DEF Class
  <2>5. j \notin Passed[b]
    BY <1>1, <2>4 DEF ClosedInv
  <2>6. j = k \/ (j \in (k + 1)..n /\ j \notin matched[b])
    <3>1. ~ (j < k) /\ j \notin matched[b]
      BY <1>1, <2>5
    <3>2. j \in Int /\ k \in Int
      BY <1>1
    <3> QED BY <1>1, <3>1, <3>2
  <2> QED BY <1>4, <2>3, <2>4, <2>6
<1> QED BY <1>6, <1>7

(* So each group and each name that is added is right and new.             *)
LEMMA RightStep ==
  ASSUME SearchInv, BucketInv, Distinct, ClosedInv, ListedInv, ListsAreRight, ListNext
  PROVE  ListsAreRight'
<1>a. dupes \in Seq(Seq(File)) /\ unique \in Seq(File) /\ table \in [CompareItem -> Seq(File)]
  BY DEF SearchInv, BaseInv, DataTypes
<1>1. CASE UNCHANGED <<dupes, unique>>
  BY <1>1 DEF ListsAreRight
<1>2. ASSUME NEW w \in Worker, NEW b \in CompareItem, Writes(w, b) PROVE ListsAreRight'
  <2> DEFINE k == at[w]
             f == table[b][k]
  <2>1. k \in 1..Len(table[b]) /\ table[b] \in Seq(File) /\ f \in File /\ f \notin Listed
    BY <1>2, <1>a DEF Writes, ListedInv
  <2>2. Class(f) = {table[b][j] : j \in {k} \cup Matches(b, k)}
    BY <1>2, WritesClass
  <2>3. CASE ListsGroup(w, b)
    <3> DEFINE g == GroupOf(b, k)
    <3>1. dupes' = Append(dupes, g) /\ unique' = unique /\ Matches(b, k) # {}
      BY <2>3 DEF ListsGroup
    <3>2. g \in Seq(File) /\ Len(g) > 1 /\ IsInjective(g) /\ ToSet(g) = Class(f)
      <4>1. /\ g \in Seq(File) /\ Len(g) = Cardinality(Matches(b, k)) + 1
            /\ ToSet(g) = {table[b][j] : j \in {k} \cup Matches(b, k)}
            /\ IsInjective(g)
            /\ IsFiniteSet(Matches(b, k)) /\ Cardinality(Matches(b, k)) \in Nat
        BY <2>1, GroupShape DEF Distinct
      <4>2. Cardinality(Matches(b, k)) # 0
        BY <3>1, <4>1, FS_EmptySet
      <4> QED BY <2>2, <4>1, <4>2
    <3> HIDE DEF g
    <3>3. Class(g[1]) = Class(f)
      <4>1. g[1] \in ToSet(g)
        BY <3>2 DEF ToSet
      <4> QED BY <3>2, <4>1 DEF Class
    <3>4. f \in ToSet(g)
      BY <2>2, <3>2
    <3>5. g \notin ToSet(dupes)
      BY <2>1, <3>4 DEF Listed
    <3>6. IsInjective(dupes') /\ ToSet(dupes') = ToSet(dupes) \cup {g}
      BY <1>a, <3>1, <3>2, <3>5, AppendElements DEF ListsAreRight
    <3> QED BY <3>1, <3>2, <3>3, <3>6 DEF ListsAreRight
  <2>4. CASE ListsName(w, b)
    <3>1. unique' = Append(unique, f) /\ dupes' = dupes /\ Matches(b, k) = {}
      BY <2>4 DEF ListsName
    <3>2. Class(f) = {f}
      BY <2>2, <3>1
    <3> HIDE DEF f
    <3>3. f \notin ToSet(unique)
      BY <2>1 DEF Listed
    <3>4. IsInjective(unique') /\ ToSet(unique') = ToSet(unique) \cup {f}
      BY <1>a, <2>1, <3>1, <3>3, AppendElements DEF ListsAreRight
    <3> QED BY <3>1, <3>2, <3>4 DEF ListsAreRight
  <2> QED BY <1>2, <2>3, <2>4 DEF Writes
<1> QED BY <1>1, <1>2, ListedElse

(* Without overlapping sources the lists are right at every moment and     *)
(* however the program ends: a group is all files of one size and digest,  *)
(* two or more, each of them once, and is there once; a unique file has no *)
(* equal (compare.c:96-226).                                               *)
THEOREM ListsRight == NoOverlap /\ FDSpec => []ListsAreRight
<1> DEFINE Inv == CompareInv /\ OnceInv /\ ClosedInv /\ ListedInv /\ ListsAreRight
<1>1. NoOverlap /\ FDInit => Inv
  <2> SUFFICES ASSUME NoOverlap, FDInit PROVE Inv
    OBVIOUS
  <2>1. CompareInv /\ OnceInv
    BY CompareInit, SearchInit
  <2>2. \A b \in CompareItem : Len(table[b]) = 0
    BY DEF FDInit
  <2>3. ClosedInv /\ ListedInv
    BY <2>2 DEF ClosedInv, ListedInv
  <2>4. ListsAreRight
    BY DEF FDInit, ListsAreRight, IsInjective, ToSet
  <2> QED BY <2>1, <2>3, <2>4
<1>2. Inv /\ [FDNext]_fdVars => Inv'
  <2> SUFFICES ASSUME Inv, [FDNext]_fdVars PROVE Inv'
    OBVIOUS
  <2>1. SearchInv /\ BucketInv /\ Distinct
    BY DEF CompareInv, OnceInv
  <2>2. CompareInv' /\ ListNext /\ OnceInv'
    BY CompareStep
  <2>3. ClosedInv' /\ ListedInv'
    BY <2>1, <2>2, ClosedStep, ListedStep
  <2>4. ListsAreRight'
    BY <2>1, <2>2, RightStep
  <2> QED BY <2>2, <2>3, <2>4
<1>3. Inv => ListsAreRight
  OBVIOUS
<1> QED BY <1>1, <1>2, <1>3, PTL DEF FDSpec
===============================================================================
