------------------------------ MODULE FindDupes -------------------------------
(***************************************************************************)
(* The find-dupes program: the work queue of module WorkQueue with what    *)
(* its callbacks and main do.  Directories are read into the hash table by *)
(* find.c on all threads, buckets are compared by compare.c, and the lists *)
(* of empty, duplicate and unique files are written, while a signal may    *)
(* come at any moment.  Each action that moves the queue is an action of   *)
(* WorkQueue with the work done at that point added to it.                 *)
(***************************************************************************)
EXTENDS WorkQueue

CONSTANTS
  File,          \* paths of regular files
  Sources,       \* the source directories of the command line, in order
  Contents,      \* what readdir returns: directory -> sub-directories and files
  Size,          \* st_size of each file, the key of its hash table entry
  Digest,        \* digest of each file's data
  Index(_)       \* hash_table_index: the bucket of a size

Dir == DOMAIN Contents

(* A sub-directory is an item of the queue, and so is a bucket, by its     *)
(* index in the table.                                                     *)
ASSUME FindDupesAssumption ==
  /\ CompareItem \subseteq Nat
  /\ FindItem \subseteq Dir
  /\ Sources \in Seq(Dir) /\ Sources # <<>>
  /\ Contents \in [Dir -> SUBSET (FindItem \cup File)]
  /\ IsFiniteSet(File)
  /\ FindItem \cap File = {}
  /\ Size \in [File -> Nat]
  /\ \A f \in File : Index(Size[f]) \in CompareItem
  /\ \A d, e \in Dir : d # e => Contents[d] \cap Contents[e] = {}
  \* Every sub-directory is below a source,
  /\ \A R \in SUBSET FindItem :
       (\A d \in ToSet(Sources) \cup R : Contents[d] \cap FindItem \subseteq R)
         => R = FindItem
  \* and is queued once, since an item stands for it.
  /\ IsInjective(Sources)
  /\ \A d \in ToSet(Sources) \cap FindItem : Contents[d] \cap FindItem = {}

VARIABLES
  term,          \* sig_events.term
  src,           \* the source directory main is at
  todo,          \* entries the directory each thread reads still has to give
  table,         \* ht->array, the list of each bucket
  extras,        \* ht->extras, the empty files
  emptyLst,      \* what is written to empty.lst
  total,         \* total_count
  at,            \* the entry each compare callback is at
  matched,       \* entries of each bucket marked as matched
  dupes,         \* groups written to dupes.lst
  unique,        \* names written to unique.lst
  counts,        \* result of each compare item
  open,          \* dupes.lst and unique.lst are open
  failed,        \* main's result is not 0
  printed        \* the totals main prints, NoCount before

NoCount == [dupes |-> 0, unique |-> 0, shown |-> FALSE]

findVars == <<src, todo, table, extras, emptyLst, total>>
compareVars == <<at, matched, dupes, unique, counts>>
mainVars == <<open, failed, printed>>
fdVars == <<vars, term, findVars, compareVars, mainVars>>

FDTypeOK ==
  /\ term \in BOOLEAN
  /\ src \in 1..Len(Sources)
  /\ todo \in [Proc -> SUBSET (FindItem \cup File)]
  /\ table \in [CompareItem -> Seq(File)]
  /\ extras \in Seq(File)
  /\ emptyLst \in Seq(File)
  /\ total \in Nat
  /\ at \in [Worker -> Nat]
  /\ \A w \in Worker : pc[w] = "running" /\ item[w] \in CompareItem =>
       at[w] \in 1..(Len(table[item[w]]) + 1)
  /\ matched \in [CompareItem -> SUBSET Nat]
  /\ dupes \in Seq(Seq(File))
  /\ unique \in Seq(File)
  /\ counts \in [CompareItem -> [dupes : Nat, unique : Nat]]
  /\ open \in BOOLEAN
  /\ failed \in BOOLEAN
  /\ printed \in [dupes : Nat, unique : Nat, shown : BOOLEAN]

FDInit ==
  /\ Init
  /\ term = FALSE
  /\ src = 1
  /\ todo = [p \in Proc |-> IF p = Main THEN Contents[Sources[1]] ELSE {}]
  /\ table = [b \in CompareItem |-> <<>>]
  /\ extras = <<>>
  /\ emptyLst = <<>>
  /\ total = 0
  /\ at = [w \in Worker |-> 1]
  /\ matched = [b \in CompareItem |-> {}]
  /\ dupes = <<>>
  /\ unique = <<>>
  /\ counts = [b \in CompareItem |-> [dupes |-> 0, unique |-> 0]]
  /\ open = FALSE
  /\ failed = FALSE
  /\ printed = NoCount

(* SIGINT_handler and SIGTERM_handler; check_for_signals only reads term.  *)
Signal ==
  /\ Alive /\ mpc # "deleted"
  /\ term' = TRUE
  /\ UNCHANGED <<vars, findVars, compareVars, mainVars>>

-----------------------------------------------------------------------------
(* find.c: one turn of the readdir loop looks at the signal and takes one  *)
(* entry, in any order.                                                    *)

FindingDir(p) ==
  IF p = Main THEN mpc = "find" ELSE pc[p] = "running" /\ item[p] \in FindItem

Takes(p, e) ==
  /\ Alive /\ ~term
  /\ FindingDir(p) /\ adding[p] = None
  /\ e \in todo[p]
  /\ todo' = [todo EXCEPT ![p] = @ \ {e}]

(* process_file: a file with data goes to the bucket of its size. *)
ReadFile(p, f) ==
  /\ Takes(p, f)
  /\ IF Size[f] # 0
     THEN /\ table' = [table EXCEPT ![Index(Size[f])] = Append(@, f)]
          /\ UNCHANGED extras
     ELSE extras' = Append(extras, f) /\ UNCHANGED table
  /\ UNCHANGED <<vars, term, src, emptyLst, total, compareVars, mainVars>>

(* find_files_queue_work *)
ReadDir(p, d) ==
  /\ Takes(p, d)
  /\ IF p = Main THEN MainQueues(d) ELSE CallbackQueues(p, d)
  /\ UNCHANGED <<term, src, table, extras, emptyLst, total, compareVars, mainVars>>

Post(p) ==
  /\ PostReady(p)
  /\ UNCHANGED <<term, findVars, compareVars, mainVars>>

(* Variant: the callback returns after the first sub-directory or file.    *)
FindReturnsEarly(w) ==
  /\ item[w] \in FindItem
  /\ Unlink(w)
  /\ todo' = [todo EXCEPT ![w] = {}]
  /\ UNCHANGED <<term, src, table, extras, emptyLst, total, compareVars, mainVars>>

(* Variant: on a signal the callback returns without giving its item back. *)
FindReturnsAtOnce(w) ==
  /\ item[w] \in FindItem
  /\ todo[w] = {} \/ term
  /\ IF term
     THEN /\ adding[w] = None
          /\ WorkerGoes(w, "running", "freeing")
          /\ UNCHANGED <<listVars, sem, poolVars, item, adding, mpc, walkVars>>
     ELSE Unlink(w)
  /\ todo' = [todo EXCEPT ![w] = {}]
  /\ UNCHANGED <<term, src, table, extras, emptyLst, total, compareVars, mainVars>>

(* find_files_cb gives its item back when readdir has no more entries or a *)
(* signal was seen.                                                        *)
FindReturns(w) ==
  /\ item[w] \in FindItem
  /\ todo[w] = {} \/ term
  /\ Unlink(w)
  /\ todo' = [todo EXCEPT ![w] = {}]
  /\ UNCHANGED <<term, src, table, extras, emptyLst, total, compareVars, mainVars>>

-----------------------------------------------------------------------------
(* compare.c *)

(* Variant: no digest is computed, and empty digests are equal.            *)
MatchesBySize(b, k) ==
  {j \in (k + 1)..Len(table[b]) :
     j \notin matched[b] /\ Size[table[b][j]] = Size[table[b][k]]}

(* Later entries of the bucket with the same size and digest, not marked.  *)
Matches(b, k) ==
  {j \in (k + 1)..Len(table[b]) :
     /\ j \notin matched[b]
     /\ Size[table[b][j]] = Size[table[b][k]]
     /\ Digest[table[b][j]] = Digest[table[b][k]]}

(* The elements of a set of numbers in ascending order. *)
Ascending(S) ==
  CHOOSE e \in [1..Cardinality(S) -> S] : \A i, j \in DOMAIN e : i < j => e[i] < e[j]

(* The entry and its matches, in the order of the list. *)
GroupOf(b, k) ==
  LET e == Ascending({k} \cup Matches(b, k))
  IN  [i \in DOMAIN e |-> table[b][e[i]]]

Comparing(w) ==
  Alive /\ pc[w] = "running" /\ item[w] \in CompareItem

(* One turn of the outer loop: the entry's matches are collected, then the *)
(* signal is looked at, then one group or one name is written.  A matched  *)
(* entry is passed over.                                                   *)
CompareEntry(w) ==
  LET b == item[w]
      k == at[w]
  IN  /\ Comparing(w)
      /\ k <= Len(table[b])
      /\ IF k \in matched[b]
         THEN /\ at' = [at EXCEPT ![w] = k + 1]
              /\ UNCHANGED <<matched, dupes, unique, counts>>
         ELSE IF term
         THEN /\ at' = [at EXCEPT ![w] = Len(table[b]) + 1]
              /\ UNCHANGED <<matched, dupes, unique, counts>>
         ELSE /\ at' = [at EXCEPT ![w] = k + 1]
              /\ matched' = [matched EXCEPT ![b] = @ \cup Matches(b, k)]
              /\ IF Matches(b, k) # {}
                 THEN /\ dupes' = Append(dupes, GroupOf(b, k))
                      /\ counts' = [counts EXCEPT ![b].dupes =
                                      @ + Cardinality(Matches(b, k))]
                      /\ UNCHANGED unique
                 ELSE /\ unique' = Append(unique, table[b][k])
                      /\ counts' = [counts EXCEPT ![b].unique = @ + 1]
                      /\ UNCHANGED dupes
  /\ UNCHANGED <<vars, term, findVars, mainVars>>

(* The end of the callback: its bucket is emptied and its item given back. *)
CompareReturns(w) ==
  /\ Comparing(w)
  /\ at[w] > Len(table[item[w]])
  /\ table' = [table EXCEPT ![item[w]] = <<>>]
  /\ Unlink(w)
  /\ UNCHANGED <<term, src, todo, extras, emptyLst, total, compareVars, mainVars>>

-----------------------------------------------------------------------------
(* The thread loop around the callbacks. *)

(* Variant: the outer loop goes on where the thread's last one ended.      *)
BeginCallbackThere(w) ==
  /\ GetFirst(w)
  /\ todo' = [todo EXCEPT ![w] =
                IF item'[w] \in FindItem THEN Contents[item'[w]] ELSE {}]
  /\ UNCHANGED <<term, src, table, extras, emptyLst, total, at, matched, dupes,
                 unique, counts, mainVars>>

BeginCallback(w) ==
  /\ GetFirst(w)
  /\ todo' = [todo EXCEPT ![w] =
                IF item'[w] \in FindItem THEN Contents[item'[w]] ELSE {}]
  /\ at' = [at EXCEPT ![w] = 1]
  /\ UNCHANGED <<term, src, table, extras, emptyLst, total, matched, dupes,
                 unique, counts, mainVars>>

ThreadMoves(w) ==
  /\ \/ StartThread(w) \/ LoopTest(w) \/ SemWait(w) \/ ExitTest(w)
     \/ FreeItem(w) \/ LinkDone(w) \/ UnlockDone(w)
  /\ UNCHANGED <<term, findVars, compareVars, mainVars>>

-----------------------------------------------------------------------------
(* main *)

(* Variant: the next source is always the first one again.                 *)
NextSourceAgain ==
  /\ mpc = "find" /\ ~term
  /\ adding[Main] = None /\ todo[Main] = {}
  /\ src' = 1
  /\ todo' = [todo EXCEPT ![Main] = Contents[Sources[1]]]
  /\ UNCHANGED <<vars, term, table, extras, emptyLst, total, compareVars, mainVars>>

NextSource ==
  /\ mpc = "find" /\ ~term
  /\ adding[Main] = None /\ todo[Main] = {}
  /\ src < Len(Sources)
  /\ src' = src + 1
  /\ todo' = [todo EXCEPT ![Main] = Contents[Sources[src + 1]]]
  /\ UNCHANGED <<vars, term, table, extras, emptyLst, total, compareVars, mainVars>>

FindEnds ==
  /\ mpc = "find" /\ ~term
  /\ todo[Main] = {} /\ src = Len(Sources)
  /\ Produced
  /\ UNCHANGED <<term, findVars, compareVars, mainVars>>

(* find_files on the main thread returned -1: exit_clean with a result.    *)
FindInterrupted ==
  /\ term
  /\ FindFailed
  /\ failed' = TRUE
  /\ UNCHANGED <<term, findVars, compareVars, open, printed>>

(* The signal is looked at, empty.lst is written, the files are counted    *)
(* and the two lists are opened.                                           *)
BeginCompare ==
  /\ ~term
  /\ StartCompare
  /\ emptyLst' = extras
  /\ total' = Len(extras) + SumFunction([b \in CompareItem |-> Len(table[b])])
  /\ open' = TRUE
  /\ UNCHANGED <<term, src, todo, table, extras, compareVars, failed, printed>>

(* compare_files queues the buckets in the order of the table.             *)
QueueBucket(b) ==
  /\ mpc = "compare"
  /\ \A c \in CompareItem : c < b => heap[c] # "unborn"
  /\ MainQueues(b)
  /\ UNCHANGED <<term, findVars, compareVars, mainVars>>

CompareQueued ==
  /\ mpc = "compare"
  /\ Produced
  /\ UNCHANGED <<term, findVars, compareVars, mainVars>>

MainPolls ==
  /\ Poll
  /\ UNCHANGED <<term, findVars, compareVars, mainVars>>

(* Variant: the lists are closed while main still waits.                   *)
CloseListsEarly ==
  /\ mpc = "comparePoll" /\ open
  /\ open' = FALSE
  /\ UNCHANGED <<vars, term, findVars, compareVars, failed, printed>>

CloseLists ==
  /\ mpc = "compareDone" /\ open
  /\ open' = FALSE
  /\ UNCHANGED <<vars, term, findVars, compareVars, failed, printed>>

Interrupted ==
  /\ term /\ ~open
  /\ EmptyReadyList
  /\ failed' = TRUE
  /\ UNCHANGED <<term, findVars, compareVars, open, printed>>

(* Variant: the signal is not looked at again after the wait.              *)
PrintCountsAnyway ==
  /\ ~open
  /\ Succeeded
  /\ LET finished == ToSet(done)
     IN  printed' = [dupes |-> SumFunction([b \in finished |-> counts[b].dupes]),
                     unique |-> SumFunction([b \in finished |-> counts[b].unique]),
                     shown |-> TRUE]
  /\ extras' = <<>>
  /\ UNCHANGED <<term, src, todo, table, emptyLst, total, compareVars, open, failed>>

(* empty_list_clean, then compare_queue_print: the results on the done     *)
(* list at that moment are added up.                                       *)
PrintCounts ==
  /\ ~open /\ ~term
  /\ Succeeded
  /\ LET finished == ToSet(done)
     IN  printed' = [dupes |-> SumFunction([b \in finished |-> counts[b].dupes]),
                     unique |-> SumFunction([b \in finished |-> counts[b].unique]),
                     shown |-> TRUE]
  /\ extras' = <<>>
  /\ UNCHANGED <<term, src, todo, table, emptyLst, total, compareVars, open, failed>>

MainMoves ==
  /\ \/ (\E w \in Worker : Spawn(w))
     \/ InitLists \/ CleanChecks \/ CleanFrees \/ CleanEnds
     \/ PoolExit \/ QueueExit \/ PostExit \/ PostsDone \/ JoinAll
  /\ UNCHANGED <<term, findVars, compareVars, mainVars>>

-----------------------------------------------------------------------------
FDWorkerStep(w) ==
  \/ \E f \in File : ReadFile(w, f)
  \/ \E d \in FindItem : ReadDir(w, d)
  \/ Post(w)
  \/ FindReturns(w)
  \/ CompareEntry(w)
  \/ CompareReturns(w)
  \/ BeginCallback(w)
  \/ ThreadMoves(w)

FDMainStep ==
  \/ \E f \in File : ReadFile(Main, f)
  \/ \E d \in FindItem : ReadDir(Main, d)
  \/ Post(Main)
  \/ NextSource
  \/ FindEnds
  \/ FindInterrupted
  \/ BeginCompare
  \/ \E b \in CompareItem : QueueBucket(b)
  \/ CompareQueued
  \/ MainPolls
  \/ CloseLists
  \/ Interrupted
  \/ PrintCounts
  \/ MainMoves

Fails == Failure /\ UNCHANGED <<term, findVars, compareVars, mainVars>>

Over == Ended /\ UNCHANGED fdVars

FDNext == FDMainStep \/ (\E w \in Worker : FDWorkerStep(w)) \/ Fails \/ Signal \/ Over

(* No fairness for Signal, which may never come, nor for a failure.        *)
FDSpec ==
  /\ FDInit /\ [][FDNext]_fdVars
  /\ WF_fdVars(FDMainStep)
  /\ \A w \in Worker : WF_fdVars(FDWorkerStep(w))

-----------------------------------------------------------------------------
(* Properties. *)

Wanted == (UNION {Contents[d] : d \in ToSet(Sources) \cup FindItem}) \cap File

(* No source lies below another one: otherwise a file is two entries of a  *)
(* bucket, as module Buckets has it.                                       *)
NoOverlap == ToSet(Sources) \cap FindItem = {}

Class(f) == {g \in Wanted : Size[g] = Size[f] /\ Digest[g] = Digest[f]}

(* Whatever is in the lists is right, at every moment and however the      *)
(* program ends: a group is all files of one size and digest, two or more, *)
(* and is there once; a unique file has no equal (compare.c:96-226).       *)
ListsAreRight ==
  /\ IsInjective(dupes) /\ IsInjective(unique)
  /\ \A g \in ToSet(dupes) :
       IsInjective(g) /\ Len(g) > 1 /\ ToSet(g) = Class(g[1])
  /\ \A f \in ToSet(unique) : Class(f) = {f}

(* When find-dupes says Success every file found is in one of its lists,   *)
(* whenever a signal came (find-dupes.c:523, 592, 615).                    *)
SuccessIsComplete ==
  mpc = "deleted" /\ ~failed =>
    \A f \in Wanted :
      IF Size[f] = 0 THEN f \in ToSet(emptyLst)
      ELSE f \in ToSet(unique) \/ \E g \in ToSet(dupes) : f \in ToSet(g)

(* The table is complete when main counts it and compare begins: no file   *)
(* is still to be inserted by a slow callback (find-dupes.c:512, 561).     *)
AllFound ==
  mpc \in {"compare", "comparePoll", "compareDone"} => total = Cardinality(Wanted)

(* No callback writes to a list before it is opened or after it is closed  *)
(* (find-dupes.c:568-590).                                                 *)
FilesOpen == \A w \in Worker : Comparing(w) => open

(* Main never meets on_error("ready_list not empty.") when it cleans up    *)
(* (find-dupes.c:368-373).                                                 *)
NeverAborts == mpc # "aborted"

(* What main prints agrees with what is in the lists: "Found %u unique     *)
(* files, %u duplicate files" (find-dupes.c:359).                          *)
CountsShown ==
  printed.shown =>
    /\ printed.unique = Len(unique)
    /\ printed.dupes = FoldSeq(LAMBDA g, n : Len(g) - 1 + n, 0, dupes)

(* Without a signal, a failing call or the use of an item that main has    *)
(* freed already (WorkQueue's crashed, list.c:45) find-dupes comes to an   *)
(* end that it reports as Success (find-dupes.c:615-622).                  *)
Succeeds ==
  [](~term /\ mpc \notin {"failed", "crashed"}) => <>(mpc = "deleted" /\ ~failed)

(* What the threads and main do to the queue is what module WorkQueue says *)
(* they do, fairly: its theorems hold here.                                *)
ImplementsQueue == FairSpec

===============================================================================
