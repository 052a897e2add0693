------------------------------ MODULE WorkQueue ------------------------------
(***************************************************************************)
(* The work queue of find-dupes: lib/work-queue.c over lib/thread-pool.c,  *)
(* with the two lists of lib/list.c at the granularity of their critical   *)
(* sections, driven the way main in find-dupes.c drives it.  main queues   *)
(* find items and waits for the ready list to empty, queues compare items  *)
(* and waits again, frees what is on the done list and deletes the queue.  *)
(* What the callbacks do to files is left to module FindDupes; here a      *)
(* callback may queue children and then gives its item back.               *)
(***************************************************************************)
EXTENDS Naturals, Sequences, FiniteSets, SequencesExt

CONSTANTS
  Worker,        \* the threads of the pool; opts.jobs of them
  FindItem,      \* items whose cb is find_files_cb
  CompareItem,   \* items whose cb is compare_files_cb
  Main,          \* the main thread
  None           \* a null pointer

Item == FindItem \cup CompareItem
Proc == Worker \cup {Main}

ASSUME WorkQueueAssumption ==
  /\ IsFiniteSet(Worker)
  /\ IsFiniteSet(FindItem)
  /\ IsFiniteSet(CompareItem)
  /\ FindItem \cap CompareItem = {}
  /\ Main \notin Worker
  /\ None \notin Item

VARIABLES
  ready,         \* wq->ready_list, head first
  done,          \* wq->done_list, head first; main frees its items in place
  inUse,         \* items whose list_entry.in_use is true
  heap,          \* is the item's memory not yet allocated, live or freed
  sem,           \* value of wq->work_ready
  tpExit,        \* tp->exit
  wqExit,        \* wq->exit
  posts,         \* sem_post calls made by work_queue_exit
  pc,            \* where each pool thread is
  item,          \* the wi each pool thread has in hand
  adding,        \* the item a thread has linked but not posted yet
  mpc,           \* where main is
  cursor,        \* main's walk over done: index of _entry, 0 for the head
  ahead          \* the same for _tmp, the entry read in advance

listVars == <<ready, done, inUse, heap>>
poolVars == <<tpExit, wqExit, posts>>
walkVars == <<cursor, ahead>>
vars == <<ready, done, inUse, heap, sem, tpExit, wqExit, posts, pc, item,
          adding, mpc, cursor, ahead>>

WorkerPc == {"absent", "created", "loop", "wait", "woken", "first",
             "running", "freeing", "finishing", "unlocking", "left"}
MainPc == {"spawn", "find", "findPoll", "findDone", "compare", "comparePoll",
           "compareDone", "clean", "walk", "exitPool", "exitQueue", "posting",
           "join", "deleted", "failed", "aborted", "crashed"}

Linked == ToSet(ready)
Unclaimed == Linked \ inUse
Shutdown == {"walk", "exitPool", "exitQueue", "posting", "join", "deleted"}

(* The process exists: exit() ends every thread wherever it is.  "failed"  *)
(* is exit() on an error of the file system, "aborted" is on_error, and    *)
(* "crashed" is death on memory that was freed.                            *)
Alive == mpc \notin {"failed", "aborted", "crashed"}

TypeOK ==
  /\ ready \in Seq(Item)
  /\ done \in Seq(CompareItem)
  /\ inUse \in SUBSET Item
  /\ heap \in [Item -> {"unborn", "live", "freed"}]
  /\ sem \in Nat
  /\ tpExit \in BOOLEAN
  /\ wqExit \in BOOLEAN
  /\ posts \in Nat
  /\ pc \in [Worker -> WorkerPc]
  /\ item \in [Worker -> Item \cup {None}]
  /\ adding \in [Proc -> Item \cup {None}]
  /\ mpc \in MainPc
  /\ cursor \in Nat
  /\ ahead \in Nat

Init ==
  /\ ready = <<>>
  /\ done = <<>>
  /\ inUse = {}
  /\ heap = [i \in Item |-> "unborn"]
  /\ sem = 0
  /\ tpExit = FALSE
  /\ wqExit = FALSE
  /\ posts = 0
  /\ pc = [w \in Worker |-> "absent"]
  /\ item = [w \in Worker |-> None]
  /\ adding = [p \in Proc |-> None]
  /\ mpc = "spawn"
  /\ cursor = 0
  /\ ahead = 0

MainGoes(from, to) == mpc = from /\ mpc' = to
WorkerGoes(w, from, to) == Alive /\ pc[w] = from /\ pc' = [pc EXCEPT ![w] = to]

-----------------------------------------------------------------------------
(* work_queue_init: the threads start before the lists are initialised. *)

Spawn(w) ==
  /\ mpc = "spawn"
  /\ WorkerGoes(w, "absent", "created")
  /\ UNCHANGED <<listVars, sem, poolVars, item, adding, mpc, walkVars>>

InitLists ==
  /\ \A w \in Worker : pc[w] # "absent"
  /\ MainGoes("spawn", "find")
  /\ ready' = <<>>
  /\ done' = <<>>
  /\ UNCHANGED <<inUse, heap, sem, poolVars, pc, item, adding, walkVars>>

-----------------------------------------------------------------------------
(* mem_alloc marks the header of what it hands out; mem_free would exit    *)
(* for an item that has been freed, which FreesOnce excludes.              *)
MemAlloc(i) == [heap EXCEPT ![i] = "live"]
MemFree(i) == [heap EXCEPT ![i] = "freed"]

(* work_queue_add_item, in two steps: the item is visible before its post. *)

LinkReady(p, i) ==
  /\ adding[p] = None
  /\ heap[i] = "unborn"
  /\ heap' = MemAlloc(i)
  /\ ready' = Append(ready, i)
  /\ inUse' = inUse \ {i}
  /\ adding' = [adding EXCEPT ![p] = i]
  /\ UNCHANGED <<done, sem, poolVars, pc, item, mpc, walkVars>>

(* Variant: post only when no token is left. *)
PostReadyIfZero(p) ==
  /\ Alive
  /\ adding[p] # None
  /\ sem' = IF sem = 0 THEN 1 ELSE sem
  /\ adding' = [adding EXCEPT ![p] = None]
  /\ UNCHANGED <<listVars, poolVars, pc, item, mpc, walkVars>>

PostReady(p) ==
  /\ Alive
  /\ adding[p] # None
  /\ sem' = sem + 1
  /\ adding' = [adding EXCEPT ![p] = None]
  /\ UNCHANGED <<listVars, poolVars, pc, item, mpc, walkVars>>

(* find_files on the main thread, or compare_files. *)
MainQueues(i) ==
  /\ \/ mpc = "find" /\ i \in FindItem
     \/ mpc = "compare" /\ i \in CompareItem
  /\ LinkReady(Main, i)

(* Variant: the item is unlinked before its directory is read. *)
CallbackQueuesLate(w, i) ==
  /\ Alive
  /\ pc[w] \in {"running", "freeing"} /\ item[w] \in FindItem
  /\ i \in FindItem
  /\ LinkReady(w, i)

(* find_files in a callback meets a sub-directory. *)
CallbackQueues(w, i) ==
  /\ Alive
  /\ pc[w] = "running" /\ item[w] \in FindItem
  /\ i \in FindItem
  /\ LinkReady(w, i)

-----------------------------------------------------------------------------
(* thread_pool_start_fn and work_queue_run. *)

StartThread(w) ==
  /\ WorkerGoes(w, "created", "loop")
  /\ UNCHANGED <<listVars, sem, poolVars, item, adding, mpc, walkVars>>

(* Variant: the loop never looks at tp->exit. *)
LoopTestForever(w) ==
  /\ WorkerGoes(w, "loop", "wait")
  /\ UNCHANGED <<listVars, sem, poolVars, item, adding, mpc, walkVars>>

LoopTest(w) ==
  /\ WorkerGoes(w, "loop", IF tpExit THEN "left" ELSE "wait")
  /\ UNCHANGED <<listVars, sem, poolVars, item, adding, mpc, walkVars>>

(* Variant: sem_trywait whose failure is not looked at. *)
SemTryWait(w) ==
  /\ WorkerGoes(w, "wait", "woken")
  /\ sem' = sem - 1
  /\ UNCHANGED <<listVars, poolVars, item, adding, mpc, walkVars>>

(* work_queue_get_item: sem_wait, the exit test, list_get_first. *)
SemWait(w) ==
  /\ WorkerGoes(w, "wait", "woken")
  /\ sem > 0
  /\ sem' = sem - 1
  /\ UNCHANGED <<listVars, poolVars, item, adding, mpc, walkVars>>

(* Variant: the exit flag is not tested after the wait. *)
NoExitTest(w) ==
  /\ WorkerGoes(w, "woken", "first")
  /\ UNCHANGED <<listVars, sem, poolVars, item, adding, mpc, walkVars>>

ExitTest(w) ==
  /\ WorkerGoes(w, "woken", IF wqExit THEN "loop" ELSE "first")
  /\ UNCHANGED <<listVars, sem, poolVars, item, adding, mpc, walkVars>>

(* Variant: in_use is not looked at and the head entry is taken. *)
FirstLinked(k) == k = 1

(* list_get_first claims the oldest entry nobody has claimed.  On an empty *)
(* list it returns NULL, which is on_error("ready_list empty."); when every *)
(* entry is claimed it returns the head, and work_queue_run returns.       *)
FirstUnclaimed(k) ==
  /\ ready[k] \notin inUse
  /\ \A j \in 1..(k - 1) : ready[j] \in inUse

GetFirst(w) ==
  /\ Alive
  /\ pc[w] = "first"
  /\ IF Unclaimed # {}
     THEN \E k \in DOMAIN ready :
            /\ FirstUnclaimed(k)
            /\ inUse' = inUse \cup {ready[k]}
            /\ item' = [item EXCEPT ![w] = ready[k]]
            /\ pc' = [pc EXCEPT ![w] = "running"]
            /\ UNCHANGED mpc
     ELSE /\ pc' = [pc EXCEPT ![w] = "loop"]
          /\ mpc' = IF ready = <<>> THEN "aborted" ELSE mpc
          /\ UNCHANGED <<inUse, item>>
  /\ UNCHANGED <<ready, done, heap, sem, poolVars, adding, walkVars>>

(* Variant: the oldest entry is popped, whoever finished. *)
UnlinkOldest(w) ==
  /\ adding[w] = None
  /\ WorkerGoes(w, "running",
                IF item[w] \in FindItem THEN "freeing" ELSE "finishing")
  /\ ready' = Tail(ready)
  /\ UNCHANGED <<done, inUse, heap, sem, poolVars, item, adding, mpc, walkVars>>

(* The callback's last word on its item.  find_files_cb unlinks and frees  *)
(* it; compare_files_cb calls work_queue_finish_item, which unlinks it and *)
(* takes the done list's mutex only afterwards.                            *)
Unlink(w) ==
  /\ adding[w] = None
  /\ WorkerGoes(w, "running",
                IF item[w] \in FindItem THEN "freeing" ELSE "finishing")
  /\ ready' = RemoveFirst(ready, item[w])
  /\ UNCHANGED <<done, inUse, heap, sem, poolVars, item, adding, mpc, walkVars>>

FreeItem(w) ==
  /\ WorkerGoes(w, "freeing", "loop")
  /\ heap' = MemFree(item[w])
  /\ item' = [item EXCEPT ![w] = None]
  /\ UNCHANGED <<ready, done, inUse, sem, poolVars, adding, mpc, walkVars>>

(* list_add_tail(&wq->done_list): the entry is reachable as soon as it is  *)
(* linked, and its own list_mtx is read once more to unlock.               *)
LinkDone(w) ==
  /\ \A v \in Worker : pc[v] # "unlocking"
  /\ WorkerGoes(w, "finishing", "unlocking")
  /\ done' = Append(done, item[w])
  /\ inUse' = inUse \ {item[w]}
  /\ UNCHANGED <<ready, heap, sem, poolVars, item, adding, mpc, walkVars>>

(* Variant: the callback frees what it has handed over. *)
UnlockDoneAndFree(w) ==
  /\ WorkerGoes(w, "unlocking", "freeing")
  /\ UNCHANGED <<listVars, sem, poolVars, item, adding, mpc, walkVars>>

UnlockDone(w) ==
  /\ WorkerGoes(w, "unlocking", "loop")
  /\ item' = [item EXCEPT ![w] = None]
  /\ UNCHANGED <<listVars, sem, poolVars, adding, mpc, walkVars>>

(* The two steps above may touch memory main has freed: the old tail of    *)
(* done when linking, the entry itself when unlocking.  Then the process   *)
(* may also die there.                                                     *)
TouchesFreed(w) ==
  \/ pc[w] = "finishing" /\ done # <<>> /\ heap[Last(done)] = "freed"
  \/ pc[w] = "unlocking" /\ heap[item[w]] = "freed"

Crash(w) ==
  /\ Alive
  /\ TouchesFreed(w)
  /\ mpc' = "crashed"
  /\ UNCHANGED <<listVars, sem, poolVars, pc, item, adding, walkVars>>

(* opendir, stat, open or fwrite failed in a callback: exit(). *)
CallbackExits(w) ==
  /\ Alive
  /\ pc[w] = "running"
  /\ mpc' = "failed"
  /\ UNCHANGED <<listVars, sem, poolVars, pc, item, adding, walkVars>>

-----------------------------------------------------------------------------
(* main, find-dupes.c:495-609. *)

(* The same on the main thread, or list_file_open failed. *)
MainExits ==
  /\ adding[Main] = None
  /\ \/ MainGoes("find", "failed")
     \/ MainGoes("findDone", "failed")
  /\ UNCHANGED <<listVars, sem, poolVars, pc, item, adding, walkVars>>

(* find_files returned 0 for every source directory, or compare_files,     *)
(* which queues every bucket, returned.                                    *)
Produced ==
  /\ adding[Main] = None
  /\ \/ MainGoes("find", "findPoll")
     \/ /\ \A i \in CompareItem : heap[i] # "unborn"
        /\ MainGoes("compare", "comparePoll")
  /\ UNCHANGED <<listVars, sem, poolVars, pc, item, adding, walkVars>>

(* find_files on the main thread saw a signal: goto exit_clean. *)
FindFailed ==
  /\ adding[Main] = None
  /\ MainGoes("find", "clean")
  /\ UNCHANGED <<listVars, sem, poolVars, pc, item, adding, walkVars>>

(* Variant: main waits until every entry is claimed. *)
PollClaimed ==
  /\ Unclaimed = {}
  /\ \/ MainGoes("findPoll", "findDone")
     \/ MainGoes("comparePoll", "compareDone")
  /\ UNCHANGED <<listVars, sem, poolVars, pc, item, adding, walkVars>>

(* list_is_empty in a wait loop; while it is not, main sleeps. *)
Poll ==
  /\ ready = <<>>
  /\ \/ MainGoes("findPoll", "findDone")
     \/ MainGoes("comparePoll", "compareDone")
  /\ UNCHANGED <<listVars, sem, poolVars, pc, item, adding, walkVars>>

StartCompare ==
  /\ MainGoes("findDone", "compare")
  /\ UNCHANGED <<listVars, sem, poolVars, pc, item, adding, walkVars>>

(* A signal was seen after the wait loop: work_queue_empty_ready_list. *)
EmptyReadyList ==
  /\ \/ MainGoes("findDone", "clean")
     \/ MainGoes("compareDone", "clean")
  /\ ready' = <<>>
  /\ heap' = [i \in Item |-> IF i \in Linked THEN "freed" ELSE heap[i]]
  /\ UNCHANGED <<done, inUse, sem, poolVars, pc, item, adding, walkVars>>

(* compare_queue_print only reads. *)
Succeeded ==
  /\ ready = <<>>
  /\ MainGoes("compareDone", "clean")
  /\ UNCHANGED <<listVars, sem, poolVars, pc, item, adding, walkVars>>

(* compare_queue_clean, which takes no lock for its walk. *)
CleanChecks ==
  /\ IF ready = <<>>
     THEN /\ MainGoes("clean", "walk")
          /\ cursor' = IF done = <<>> THEN 0 ELSE 1
          /\ ahead' = IF Len(done) > 1 THEN 2 ELSE 0
     ELSE /\ MainGoes("clean", "aborted")
          /\ UNCHANGED walkVars
  /\ UNCHANGED <<listVars, sem, poolVars, pc, item, adding>>

CleanFrees ==
  /\ mpc = "walk" /\ cursor # 0
  /\ heap' = MemFree(done[cursor])
  /\ cursor' = ahead
  /\ ahead' = IF ahead # 0 /\ ahead < Len(done) THEN ahead + 1 ELSE 0
  /\ UNCHANGED <<ready, done, inUse, sem, poolVars, pc, item, adding, mpc>>

CleanEnds ==
  /\ cursor = 0
  /\ MainGoes("walk", "exitPool")
  /\ UNCHANGED <<listVars, sem, poolVars, pc, item, adding, walkVars>>

(* work_queue_delete: both exit flags, one post per thread, the joins. *)
PoolExit ==
  /\ MainGoes("exitPool", "exitQueue")
  /\ tpExit' = TRUE
  /\ UNCHANGED <<listVars, sem, wqExit, posts, pc, item, adding, walkVars>>

QueueExit ==
  /\ MainGoes("exitQueue", "posting")
  /\ wqExit' = TRUE
  /\ UNCHANGED <<listVars, sem, tpExit, posts, pc, item, adding, walkVars>>

PostExit ==
  /\ mpc = "posting"
  /\ posts < Cardinality(Worker)
  /\ posts' = posts + 1
  /\ sem' = sem + 1
  /\ UNCHANGED <<listVars, tpExit, wqExit, pc, item, adding, mpc, walkVars>>

PostsDone ==
  /\ posts = Cardinality(Worker)
  /\ MainGoes("posting", "join")
  /\ UNCHANGED <<listVars, sem, poolVars, pc, item, adding, walkVars>>

JoinAll ==
  /\ \A w \in Worker : pc[w] = "left"
  /\ MainGoes("join", "deleted")
  /\ UNCHANGED <<listVars, sem, poolVars, pc, item, adding, walkVars>>

-----------------------------------------------------------------------------
WorkerStep(w) ==
  \/ StartThread(w)
  \/ LoopTest(w)
  \/ SemWait(w)
  \/ ExitTest(w)
  \/ GetFirst(w)
  \/ \E i \in Item : CallbackQueues(w, i)
  \/ PostReady(w)
  \/ Unlink(w)
  \/ FreeItem(w)
  \/ LinkDone(w)
  \/ UnlockDone(w)

MainStep ==
  \/ \E w \in Worker : Spawn(w)
  \/ InitLists
  \/ \E i \in Item : MainQueues(i)
  \/ PostReady(Main)
  \/ Produced
  \/ FindFailed
  \/ Poll
  \/ StartCompare
  \/ EmptyReadyList
  \/ Succeeded
  \/ CleanChecks
  \/ CleanFrees
  \/ CleanEnds
  \/ PoolExit
  \/ QueueExit
  \/ PostExit
  \/ PostsDone
  \/ JoinAll

Failure == MainExits \/ \E w \in Worker : Crash(w) \/ CallbackExits(w)

(* The process is over. *)
Ended ==
  /\ mpc \in {"deleted", "failed", "aborted", "crashed"}
  /\ UNCHANGED vars

Next == MainStep \/ (\E w \in Worker : WorkerStep(w)) \/ Failure \/ Ended

Spec == Init /\ [][Next]_vars

(* Threads are scheduled, locks are released, directories are finite and   *)
(* callbacks return: whoever can take a step eventually does.  Failures    *)
(* may come but need not.                                                  *)
FairSpec ==
  /\ Spec
  /\ WF_vars(MainStep)
  /\ \A w \in Worker : WF_vars(WorkerStep(w))

-----------------------------------------------------------------------------
(* Properties. *)

(* Threads that hold a token of the semaphore and have not used it. *)
Holding == {w \in Worker : pc[w] \in {"woken", "first"}}
Posting == {p \in Proc : adding[p] # None}

(* Until work_queue_exit posts its own, every token stands for one entry   *)
(* that is linked and unclaimed: in the semaphore, in a thread's hand, or  *)
(* still owed by the thread that linked an entry (work-queue.c:99-104).    *)
(* So the thread that wakes always finds work, although the entry it gets  *)
(* need not be the one whose post woke it.                                 *)
TokensMatchWork ==
  ~tpExit =>
    sem + Cardinality(Holding) + Cardinality(Posting) = Cardinality(Unclaimed)

(* After wq->exit is set no thread goes looking for work, and the list it  *)
(* would look in is empty (work-queue.c:114-123).                          *)
NoWorkAfterExit ==
  tpExit => ready = <<>> /\ \A w \in Worker : pc[w] # "first"

(* An entry is in one thread's hands at most, is on the ready list for as  *)
(* long as its callback runs, and only then (list.c:106-113).              *)
InHand == {"running", "freeing", "finishing", "unlocking"}
OwnedOnce ==
  /\ \A w \in Worker : pc[w] \in InHand <=> item[w] # None
  /\ \A v, w \in Worker : item[v] # None /\ item[v] = item[w] => v = w
  /\ \A i \in Item : (i \in Linked \cap inUse) <=>
                      (\E w \in Worker : pc[w] = "running" /\ item[w] = i)

(* Nothing is freed twice and no callback works on a freed item, up to the *)
(* moment it hands the item to the done list (mem.c:63-93 would report it).*)
FreesOnce ==
  /\ \A w \in Worker :
       pc[w] \in {"running", "freeing", "finishing"} => heap[item[w]] = "live"
  /\ mpc = "walk" /\ cursor # 0 => heap[done[cursor]] = "live"

(* Once main has seen the ready list empty the queue is quiet and stays    *)
(* so: no callback runs, none is about to, and no one can add an item but  *)
(* main.  This is what makes work_queue_empty_ready_list find nothing to   *)
(* free (work-queue.c:151-154).                                            *)
StaysQuiet ==
  mpc \in {"findDone", "compareDone"} \cup Shutdown =>
    /\ ready = <<>>
    /\ \A w \in Worker : pc[w] \notin {"first", "running"}
    /\ Posting = {}

(* No find callback runs or waits to run while compare items are queued    *)
(* and run: the hash table has no writer left (find-dupes.c:512, 574).     *)
NoLateFind ==
  mpc \in {"compare", "comparePoll", "compareDone"} =>
    /\ Linked \cap FindItem = {}
    /\ \A w \in Worker : pc[w] = "running" => item[w] \in CompareItem

(* The item a callback was given is its own until the callback returns:    *)
(* "cb takes ownership of wi" (work-queue.c:34).                           *)
CallbackOwnsItem ==
  \A w \in Worker : pc[w] \in InHand => heap[item[w]] = "live"

(* The process ends: both wait loops are left, every thread of the pool    *)
(* leaves its loop and is joined.                                          *)
Terminates == <>(mpc \in {"deleted", "failed", "aborted", "crashed"})

(* The abstract task pool this implements. *)
TaskBar ==
  [i \in Item |->
    IF heap[i] = "unborn" THEN "new"
    ELSE IF i \notin Linked THEN "finished"
    ELSE IF i \in inUse THEN "running" ELSE "queued"]

StageBar ==
  CASE mpc \in {"spawn", "find", "findPoll"} -> "finding"
    [] mpc = "findDone" -> "found"
    [] mpc \in {"compare", "comparePoll"} -> "comparing"
    [] mpc = "compareDone" -> "compared"
    [] mpc = "clean" -> "closing"
    [] mpc \in Shutdown -> "down"
    [] OTHER -> "dead"

TP == INSTANCE TaskPool WITH task <- TaskBar, stage <- StageBar

(* Every submitted item is run exactly once and main moves on only when    *)
(* all of them have finished.                                              *)
Implements == TP!FairSpec

===============================================================================
