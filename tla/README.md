# Verification of clean-dupes

TLA+ models, TLC runs and TLAPS proofs for clean-dupes: the `find-dupes`
program, which searches directories for duplicate files with a pool of threads,
and the `clean-dupes.sh` script, which turns its lists into moves. Paths such as
`find-dupes.c:512` are relative to `src/`.

## The system

| Component | State | Operations | Talks to |
|---|---|---|---|
| work queue, `lib/work-queue.c` | `ready_list`, `done_list`, semaphore `work_ready`, flag `exit` | init, add, get, finish, empty, exit, delete | calls the pool and the lists; runs the callback of each item on a pool thread |
| thread pool, `lib/thread-pool.c` | threads, flag `exit` | init, the run loop, exit, delete (join) | calls `work_queue_run` |
| list, `lib/list.c`, `lib/list.h` | ring of entries, `in_use` marks, a mutex per list | init, add, remove, get first, count, is empty, walks | shared by all threads |
| find, `find.c` | none of its own | `find_files`, its callback, `process_file`, `file_count` | reads directories, queues an item per sub-directory, inserts into the hash table |
| hash table, `lib/hash-table.c` | array of lists, list of empty files | init, insert, index, walk | filled by find, emptied by compare |
| compare, `compare.c` | `matched` and digest of each file, counts of each item | `compare_files`, its callback | takes one bucket per item, writes `dupes.lst` and `unique.lst` |
| main and signals, `find-dupes.c` | options, `sig_events`, result | stages: find, wait, empty list, compare, wait, print, clean | calls everything; the handlers set `sig_events.term` |
| list files, `list-file.c` | none | open, print | called by main |
| `clean-dupes.sh` | the two lists, the backup directory | gen-dupes, gen-moves, move-files | runs `find-dupes`, `mkdir`, `mv` |
| options and utilities, `find-dupes.c`, `lib/util.c` | the parsed options | `opts_init`, `opts_parse`, `to_unsigned`, `check_exists` | called by main before anything else |
| digest and mmap | the digest of each entry | `digest_hash_file`, `digest_compare` | called by compare; a file that cannot be mapped ends the program |
| memory, `lib/mem.c` | a mark in the header of each block | `mem_alloc`, `mem_free` | called by all |
| log, `lib/log.c` | `init_done`, the log mutex | `_vlog`, `on_error` | called by all threads |
| timer | small | time, formatting | called by main |

How they interact. main creates the pool and queue, reads the source
directories itself and queues every sub-directory; callbacks queue
sub-directories in turn. main polls until the ready list is empty, which is its
only knowledge that all directories have been read. It then queues one item per
bucket, polls again, closes the lists, adds up the results from the done list,
frees it, and shuts the queue down. Signals are seen by a flag that the loops
read at certain points.

What is hard about it:

- The ready list serves two purposes. An item stays on it, marked `in_use`,
  while its callback runs, so that "empty" means "nothing queued or running"
  for a main that takes no other look.
- The semaphore and the list are updated apart; tokens and entries must agree.
- An item moves from one list to the other in two critical sections, and main
  looks at both lists in between.
- Shutdown mixes two flags and a burst of tokens that are not work.
- A signal may end any of the loops, in any thread, at a different time.
- Lists are walked without their mutex in two places, and an unlock goes through
  memory that another thread may already own.
- A group is built in a buffer grown by `realloc`, with room that is computed in
  one place and used in another; the table's size goes through three integer types.
- Files may change between the moment their size is read and the moment their
  contents are.
- The log mutex is created by whoever logs first.
- Source directories may overlap or be links to each other; nothing looks whether a
  file was found before. To `find-dupes` such a file is two equal entries, and
  `realpath` makes one file of the two lines in the script.
- The script stops at the first error and leaves half-written lists, half-moved
  groups and half-copied files for a user who runs it again.

What makes each part correct:

- queue, pool, list: every item is run once by one thread, freed once and not
  too early; no thread meets an empty list; empty stays empty; shutdown ends.
- list: an operation does to the ring what its name says to a sequence, and a
  walk that takes no lock sees the sequence before or after each write.
- find, hash table: when main goes on, every file is in the table, once; no file
  goes behind the end of the table.
- compare: what is in the lists is right at every moment, also when other files
  change; the buffer holds what is written to it.
- log: one call writes at a time and every call returns.
- main: a reported success is complete; files are open when written; the
  process ends with a report on every path.
- script: no data is lost; no last copy is taken, unless a file is listed under two
  names or a name is read as another's; a completed run cleans up.

## Modules

| Module | Models | Lines of argument |
|---|---|---|
| `List` | `lib/list.c` write by write | what the other modules' sequences stand for |
| `ListProofs` | theorems about `List` | addition, removal, what a walk sees |
| `TaskPool` | abstract: what main needs from the queue | tasks are submitted, run and finished once; main advances only when idle |
| `WorkQueue` | `work-queue.c`, `thread-pool.c`, `list.c` as used, main's driving of them | safety, termination, refinement of `TaskPool` |
| `WorkQueueProofs` | theorems about `WorkQueue` | inductive invariant, refinement |
| `FindDupes` | extends `WorkQueue` with `find.c`, `compare.c`, signals, lists and totals | the result of a run; refinement of `WorkQueue` |
| `FindDupesProofs` | theorems about `FindDupes` | it drives `WorkQueue`; open lists; types; what a step does to the queue |
| `ListsProofs` | more theorems about `FindDupes` | the search, a success, the lists |
| `Options` | `opts_parse`, `to_unsigned`, main's tests of the options | used by `Buckets` |
| `Buckets` | `hash-table.c`, `compare_files_cb` with its digests and buffer, `files.lst`, changing files | the data of a run |
| `BucketsProofs` | theorems about `Buckets` | the buffer, the index, types, naming, grouping |
| `Log` | the mutex of `_vlog` | its lazy creation |
| `LogProofs` | a theorem about `Log` | the mutex once created |
| `CleanDupes` | `clean-dupes.sh` | preservation, interruption and rerun |
| `CleanDupesProofs` | theorems about `CleanDupes` | types, no loss, one copy stays, the end |
| `DataLemmas` | no code | sets, sums and sequences, for the proof modules |
| `MCWorkQueue`, `MCFindDupes`, `MCBuckets`, `MCLog`, `MCCleanDupes` | instances for TLC | |

### WorkQueue

One action per critical section or per access to shared state that another
thread can tell apart. `ready` and `done` are sequences, `inUse` the marks,
`heap` the life of each item, `sem` the semaphore; `pc` and `item` place each
pool thread, `mpc` places main, `adding` is the item a thread has linked and not
posted yet (`work_queue_add_item` is two steps).

| Code | Actions |
|---|---|
| `thread_pool_init`, `work_queue_init` | `Spawn`, `InitLists` (in this order: threads run first) |
| `work_queue_add_item` | `LinkReady` by `MainQueues` or `CallbackQueues`, then `PostReady` |
| thread loop, `work_queue_get_item` | `StartThread`, `LoopTest`, `SemWait`, `ExitTest`, `GetFirst` |
| `find_files_cb` after its work | `Unlink`, `FreeItem` |
| `work_queue_finish_item` | `Unlink`, `LinkDone`, `UnlockDone` |
| wait loops | `Poll` |
| `work_queue_empty_ready_list` | `EmptyReadyList` |
| `compare_queue_clean` | `CleanChecks`, `CleanFrees`, `CleanEnds` (a walk without the mutex, with the entry read in advance) |
| `work_queue_delete` | `PoolExit`, `QueueExit`, `PostExit`, `PostsDone`, `JoinAll` |
| `exit` and `on_error` | `CallbackExits`, `MainExits`, and the failing branches of `GetFirst` and `CleanChecks` |

`list_add_tail` on the done list is two steps, because `list_insert_before`
unlocks through the entry it has just made reachable (`list.c:45`). Where a
thread touches memory that main has freed the behaviour is undefined: it may go
on or the process may die (`Crash`). `mem_alloc` marks a block and `mem_free`
exits for one that is not marked; `MemAlloc` and `MemFree` are that mark for the
work items, the only blocks that pass between threads. A lock taken and released within one step
is not a variable. What a callback does besides queueing children is one step,
since no other thread can tell.

### FindDupes

Each action that moves the queue is an action of `WorkQueue` with the work done
there added, so what is proved of the queue applies; the run checks this as
the property `ImplementsQueue`. Directories are sets, read in any order. A turn of the
readdir loop is placed where it looks at the signal: what follows the look in
the same turn cannot be told from the same before the signal. One turn of
compare's outer loop is one step, since a bucket belongs to its callback. The
size and digest of a file are constants. The table's lists keep their order.

### List

The ring as two functions, `next` and `prev`, over entries and list heads. Each
write of `list_insert_before` and `list_remove` is an operator of its own
(`InsertBefore1` to `InsertBefore3`, `Remove1`) and the whole operation the
composition. `Represents` says which sequence a ring stands for: both directions
of it. The module has no behaviour of its own; its theorems are what allows
`WorkQueue`, `FindDupes` and `Buckets` to use `Append` and removal, and what
`CleanFrees` rests on, which walks along `next` with no lock.

### Options and Buckets

`Options` turns the arguments into the options, with the widths of `strtoul` and
`unsigned int`. `Buckets` is a run seen from its data:

| Code | Actions |
|---|---|
| `opts_parse`, main up to the table, `hash_table_init` | `Init`, `Begin` |
| `process_file`, `hash_table_index`, `hash_table_insert`, `hash_table_insert_extra` | `ProcessFile` |
| main's look at the signal, `list_file_print` | `FindEnds`, `FindStops` |
| `compare_files` and the item taken by a thread | `Claim` |
| the outer and the inner loop of `compare_files_cb` | `Outer`, `Inner` |
| `digest_is_empty`, `digest_hash_file` for either file | `HashFirst`, `HashSecond` |
| `digest_compare`, `dupe_buffer_write_first`, `dupe_buffer_write_match`, the mark | `Test` |
| the look at the signal, the write of a group or a unique name | `WriteOut` |
| `file_table_entry_clean`, the item given back | `Leave`, `CompareEnds` |
| the world | `Signal`, `Change` |

`FindDupes` and `Buckets` cut the same code along different lines. `FindDupes` keeps
files constant and follows the queue, the stages of main and the totals;
`Buckets` lets files change, follows each pair, digest and byte of the buffer,
and takes from the queue only that each bucket goes to one thread once, which is
what `WorkQueue` shows. A step of `Buckets` ends where the callback next looks at
a file, the signal or a list file; the rest of a bucket is the callback's own.
The order of discovery is free, since threads read directories in any order.

An `Entry` is what one `process_file` inserts, and `target` gives the file it leads
to: with sources that overlap several entries lead to one file, hold the same data
and change together. `ProcessFile` takes each entry once, as each source is read
once; it never asks which file it is.

### Log

The word of glibc's mutex (external: 0 free, 1 held, 2 held with sleepers), the
flag `init_done` and the place of each thread in `_vlog`. `FirstByMain` says
that main logged before it made threads, as it does with `--debug` only.

### CleanDupes

The three steps, line by line where a list is read or written. `Stop` may come
at any moment and stands for a signal and for every failing test or command
(`set -e`). `GenDupesStops` leaves any prefix of a list, even one that ends
within a line. `mv` renames at once or copies first. The user runs any choice
of steps, again and again, with one backup directory and `--keep-pos` until a
new list of duplicates is made. Files may be created between invocations.

`Path` holds the names and `Real` the file that `realpath` finds for each; `files` has
data only under a file's own name, and `Held(p)` is what a name leads to. `reached`
is the set of names by which the source directories give files, so an overlap or a
link is a second name of a file. `Groups` groups names by what they lead to, as
`compare.c` does, and `Moves` resolves the name of its line before it looks whether
there is such a file.

## Runs

| Run | Bounds | What it shows |
|---|---|---|
| `wq_safety` | 3 threads, 3 directories, 3 buckets, symmetric | `TokensMatchWork`, `NoWorkAfterExit`, `OwnedOnce`, `FreesOnce`, `StaysQuiet`, `NoLateFind` over all interleavings and error paths |
| `wq_live` | 2 threads, 2 directories, 2 buckets, fair | the process ends (`Terminates`); the queue implements `TaskPool` with its fairness (`Implements`) |
| `fd_all` | 2 threads, 2 sources and a sub-directory, 4 files, 2 buckets, a signal at any time | `ListsAreRight`, `SuccessIsComplete`, `AllFound`, `FilesOpen`; `Succeeds` when nothing fails; `ImplementsQueue` |
| `buckets_all` | 2 threads, 3 entries of as many files or of 2, 14 command lines, 3-bit `unsigned int`, 5-bit `unsigned long`, a signal, one file that changes or goes | `BufferFits`, `IndexInRange`, `StableGrouped`, `NamedOnce`; `Finishes` |
| `clean_all` | 4 trees of 3 or 4 files, one whose sources overlap and one with a name read as another's; 2 backup directories, `--keep-pos` 2 and last | `NothingLost`, `KeepsOne`, `Cleaned` |
| `wq_own` | 2/2/2 | violated: an item is freed while its callback still uses it |
| `wq_nojobs` | no threads | violated: main waits for ever |
| `fd_abort` | as `fd_all` | violated: a signal during main's own find ends in `on_error` |
| `fd_counts` | as `fd_all` | violated: the printed totals miss a result |
| `log_lazy` | 3 threads, any number of calls | violated: a thread sleeps on the log mutex for ever |
| `clean_overlap` | one file, reached by two names, `--keep-pos` last | violated: the only copy is moved |
| `clean_back` | one pair, one file that comes back | violated: the backup of the first is overwritten |

Why the bounds are enough to meet the hard cases. Three threads let two race
for an entry while a third shuts down or is late to start; three items of a
kind let an item be claimed out of order and unlinked from the middle. The
number of posts, tokens and steps is bounded by these sets, so no counter is
cut off. In `fd_all` the two equal files are in different directories, so the
group needs both threads' work; a third file of the same size has another
digest; one file is empty; one bucket is empty. In `buckets_all` the table has two
lists for each bucket of `-b` instead of 1024: `-b 1`, `2` and `3` give tables of 2, 4
and 6 lists, of which the last leaves lists unused by its mask, 5, and the
product of `-b 4` wraps to no list. Table sizes beyond these are covered by the theorem
alone. The table of 6 is also that of the sources that overlap, where two of the
three entries lead to one file. Numbers are printed to the base 3, so
that the third file of a group is the first with the longest number and the
buffer is filled to its last byte. Files hold one of four contents: two of one
size, one of a size that shares their bucket in tables of 2 and 6 lists, one of no
bytes; what they hold at first
is sorted because they are found in any order. In `log_lazy` three threads are
the fewest: one creates the mutex, one holds it, one sleeps. `clean_all` has four
trees. `Pairs`, two groups of two, allows a moved and a half-moved group at once and
two files with the same last component. `OddNames` has a name the shell reads as no
file's and one the script refuses. `Stripped` has a name that the shell reads as that
of a file with no equal, which is then moved. `Overlapping` has a file that is
reached by two names and another equal to it, a group of three lines. The conditions
of `KeepsOne` hold in the first two; `Cleaned` is checked in all but `Stripped`, and
`NothingLost` in all four. With groups of two, `--keep-pos=1` mirrors 2. No name is moved
twice in `clean_all`; that happens in `clean_back`. `fd_all` is a run of sources that do
not overlap: what overlap does is seen in `buckets_all`, `clean_all` and `clean_overlap`.

No run states a deadlock where the system may stop: the end of the process is an
action of its own (`Ended`, `Over`), and the script's user can always run it
again. `wq_nojobs` alone turns the check off, because there main only polls.

Fairness. `FairSpec` and `FDSpec` ask weak fairness of main and of each
thread: POSIX threads are scheduled, mutexes are held for a few instructions,
`sleep` returns, directories and buckets are finite. `SemWait` of one thread is
not promised a token that others take; weak fairness is enough because each
token is one entry. `Buckets` asks the same of its main and threads. `Log` asks
it of each thread's steps but not of `Call`, and `LogReturns` speaks of runs that
log finitely often: a futex does not hand the lock over, so among endless calls
one may always come second, which is not the fault the run is about. Failures (`Failure`, `Fails`) and `Signal` have no fairness:
they need not happen, so termination never rests on them. `CleanDupes` states
safety only.

## Findings

1. `work_queue_finish_item` (`lib/work-queue.c:136-138`) leaves an item in no
   list and then in a list main frees without locking it. `wq_own`: use after
   free. `fd_counts`: totals too small.
2. `-j 0`, and `-j` with text that is no number, start no thread, and main waits
   for ever (`find-dupes.c:190`, `512`). `wq_nojobs`.
3. A signal while main reads a source directory goes to `exit_clean` without the
   wait the other signal paths make (`find-dupes.c:501`), and ends in
   `on_error`. `fd_abort`.
4. Overlapping source directories make a file its own duplicate (`find.c:125`), and
   `realpath` takes either of its names for the one file (`clean-dupes.sh.in:349`): with
   any `--keep-pos` but `all` the only copy is moved, although the other name is
   commented as kept. It is whole in the backup directory. `clean_overlap`.
5. `mv` in `move_files` overwrites an earlier backup (`clean-dupes.sh.in:363`) when a file
   has come back under its name. An equal file still stands under another name; what
   is lost is the backup under its own. `clean_back`.
6. `_vlog` sets `init_done` before it calls `mtx_init` (`lib/log.c:81-83`). A thread
   that comes between locks a mutex that is then made anew; a third that already
   sleeps on it is never woken. Its item stays on the ready list, so main polls that
   list for ever (`find-dupes.c:577`). With `-v` the first calls come from the compare
   callbacks. `log_lazy`.

What the checks confirm although the code looks suspicious: the ready list
really is empty whenever `work_queue_empty_ready_list` runs, so its unlocked walk
and its frees do nothing; threads that start before the lists are initialised
never touch them; a thread that wakes may take another's entry but always finds
one; interrupted lists are incomplete but never wrong; the empty line after a
group is written with no `realloc` and fits; a product of `-b` that wraps to 0 is
refused, and any other keeps every index below the table's end; a file that
changes during the run never changes how the others are grouped.

## Proofs

`WorkQueueProofs` proves, for any finite sets of threads and items (the only
assumptions are `WorkQueueAssumption`: finite, disjoint, `Main` and `None`
different from the rest), every invariant of `wq_safety` and the safety part of
the refinement.

None of the invariants is inductive alone. `IInv` adds to them what they lean on:

- `ReadyInv`: no entry is linked twice, and linked items are live;
- `HandInv`: an item a thread has unlinked is its alone and live until it hands
  it over, of the kind its callback says, and only a running find callback or
  main at its producing stages owes a post;
- `DoneInv`: the done list holds each item once, none of it linked, and what
  lies ahead of main's walk is not freed yet;
- `SpawnInv`: before the lists are initialised nothing is linked and no thread
  is past the semaphore;
- `ExitInv`: how the two flags follow main, and that no token is out between
  them.

The argument turns on `TokensMatchWork`. If the ready list is empty there is no
unclaimed entry, so no token, nobody between a token and its entry, and nobody
who still owes one; by `OwnedOnce` nobody runs a callback either; so nobody can
add an item, and the emptiness main saw once is stable (`StaysQuiet`). From that
follow `NoLateFind` and `NoWorkAfterExit`. The lemma of each conjunct splits on
the actions that can disturb it; `Inductive` puts them together.
`ImplementsTaskPool` maps each step to a step or a stutter of `TaskPool`, with
`AllQueued` (buckets are all queued when main waits for them) as the one extra
invariant.

`FindDupesProofs` shows that every step of `FindDupes` is a step of `WorkQueue` or
leaves the queue alone (`DrivesQueue`), so all of the above holds of the whole
program; then `FilesAreOpen`, from two more invariants: compare items are linked
only while main queues them or waits for them (`CompareLinked`), and the lists
are open at those stages (`OpenInv`). A running callback's item is linked, so the
two together give `FilesOpen`.

The rest of the argument does not look at the queue again. Four sets are what the
data can tell of it: `Linked`, `Runs` (which thread runs which item), `Born` and
`Unclaimed`. `StepView` says of every step of `FindDupes` what it does to the four
and to the data at once, in one of the ways that `ViewNext` lists: an item is born,
an item is begun, an entry is taken, an entry of a bucket is done with, a
callback ends, main goes on. Each later invariant is shown for `ViewNext`.

- `BaseInv` is `IInv`, `CompareLinked`, `CleanInv`, and the types. It gives
  `FDTypeCorrect`.
- `SearchInv`: who may hold entries (`TodoInv`), when buckets are queued
  (`StageInv`), which bucket a file is in (`TableInv`), that what a known
  directory contains is to be taken or was (`ReachInv`), and that after the search
  every file is in the table until its bucket is done (`CompleteInv`). `CompleteInv`
  needs that an empty ready list leaves nothing to be taken, which is
  `StaysQuiet`, and that every directory is reached from a source.
- `OnceInv`: an entry is in one thread's hands, or in one directory nobody has
  begun, or in the table once (`Apart`, `Distinct`), so that `total` counts the
  files (`TotalInv`). `AllFilesFound` follows.
- `CompareInv` adds what is marked, written and kept (`BucketInv`, `WrittenInv`,
  `KeptInv`, `SuccessInv`) and gives `SuccessComplete`.
- `ClosedInv` and `ListedInv`: an entry that is done with takes its equals along,
  and only such entries are listed. `ListsRight` follows with `OnceInv`.

`AllFilesFound` and `ListsRight` have the hypothesis `NoOverlap`, that no source
lies below another. The code does not check it; without it `total` counts a file
twice, and a group may hold one file twice, as `Buckets` has it. `SuccessComplete`
and the others need no such thing: overlap makes find-dupes say too much, never too
little. `FindDupesAssumption` says what
`FindDupes` takes for granted of the tree: finitely many files, no entry in two
directories, every sub-directory reached from a source and queued once.

`ListProofs` has no specification: it proves that `list_init` makes an empty ring
whatever the memory held, that `list_is_empty`'s one look is right, and that
`list_add_tail` and `list_remove` do to the ring what `Append` and `Without` do to the
sequence. The argument is by index: entry `k` of the sequence points to entries
`k-1` and `k+1`, with the head at both ends, and a write touches the two
neighbours of one place only because no entry is twice in the sequence. The same
theorems say what a walk along `next` sees between the writes.

`BucketsProofs` proves the four invariants of `buckets_all` and its types for all
names, tables, command lines, threads, files, signals and changes.

- `NoOverrun`, that `BufferFits` always holds. Each match reserves room for the
  longest number and two bytes more, and `sprintf` writes no more than that, so
  after it the length is below the capacity and the empty line fits (`RoomLeft`).
  `BInv` adds what keeps the operands sensible: types, a callback's bucket below
  `claimed` and its own (`OwnBucket`), its two positions within the chain
  (`InChain`).
- `IndexesFit`: the mask gives an index below `count` for every `-b` and every
  width. `&` is a recursive function on the bits; that it exists and is never
  more than its first operand is shown by induction (`ShapeInv` holds the rest).
  What is typed after `-b`, however often, leaves an `unsigned int` (`OptsTyped`, by
  induction on the arguments).
- `EachNamedOnce` and `GroupedByContent` rest on `DataInv`. Part of it holds of
  every run: a file is at one place of the list of its size (`PlacedInv`), nothing
  is written while files are found (`FindInv`, `FilesInv`), what is known of a
  file nobody touched is true of it (`StableInv`), a callback has compared its
  first file with those it has passed (`PairInv`), a group it builds is of
  files alike and not written yet (`GroupInv`), what is written and not marked is
  behind a callback (`FreshInv`), nothing is written twice (`WrittenInv`). Part of
  it speaks of a run without a signal and says why nothing is left out: an
  unmarked file is written or lies ahead of its callback (`ListedInv`), a marked
  one is in a group with an unmarked one (`TogetherInv`), two unmarked files of one
  size differ or are still to be compared (`ComparedInv`), and at the end nothing
  is ahead (`DoneInv`).

`NamedOnce` says of entries that none is named twice. Of files it says so only under
`NoOverlap`, that no two entries lead to one file, since a file that two sources
reach is named twice, in one group or twice among the unique if it changes between
the looks. `StableGrouped` needs no such condition: the two entries are equal and
are grouped.

A file that changes may be grouped with what it was or with what it is;
`GroupedByContent` speaks of the files that do not, among others that do.
Assumed is `BucketsAssumption`: no number prints longer than `Width`, contents
are told apart by size and digest, and no digest is the zero that marks one not
yet computed.

`CleanDupesProofs` proves the four invariants of `clean_all`, for any trees, `--keep-pos`,
lists cut at any place, steps in any order and any number of interruptions.

- `TypeCorrect`, with `ListInv`: a step goes on only with the list it reads.
- `AllKept` (`NothingLost`): only the user and `mv` touch files, and `mv` removes a
  name only when its backup is whole.
- `OneStays` (`KeepsOne`): of each name that is to go, the group keeps another with the
  same data that no later line has, and no name that goes leads to the same file
  (`DupesInv`); the moves list has only names that are to go (`MovesInv`). A moves
  list that was cut off is a prefix, so this holds of it as well.
- `CleanupDone` (`Cleaned`): generate_moves writes a line for each name that goes
  (`ReadInv`, `DoneInv`), move_files moves the file of each it has read (`GoneInv`), and
  of two names with one content in a complete list one goes (`TwinInv`).

`AllKept`, `OneStays` and `CleanupDone` say `[](OneData => ...)`: as long as no name has
stood for two files that differ. `clean_back` shows why; the files that are there at
first satisfy it, as do new files under new names. The code does not ensure it.
Nor does it ensure the two conditions that the properties themselves state:

- `NoOverlap`, in `KeepsOne`: no file is reached by two names. Otherwise the name
  that goes and the name that is kept may be one file, and nothing is left
  (`clean_overlap`). `Cleaned` does not need it, and neither does `NothingLost`. Where
  two lines of one file both go, the second meets no such file and the step stops.
- `ReadsNames`, in `KeepsOne` and `Cleaned`: `read` turns a name into itself or into one
  that no file has. A name with blanks at its ends that is another file's without
  them sends that file away, which `clean_all` does in its tree `Stripped`: the file is
  whole in the backup directory, but it had no equal.

`DataLemmas` holds what the modules share: sums and orders over finite sets, the
elements of sequences, and that the functions by which the community modules
define folds and flattening exist and have the values they should. Induction
over the naturals and over finite sets is done there on a set of counterexamples
with a least element, since the library's induction theorems take a formula as a
parameter and none of the installed provers can instantiate it.

`LogProofs` proves `SafeAfterMain`: if main has logged first, one call writes at a
time (`OneWriter`) and no unlock passes a sleeper by (`NobodyForgotten`), for any
number of threads. `log_lazy` is the other case.

Every invariant that a passing run checks is so proved for all values of the
constants, under the hypotheses named above where a theorem or a property has them. TLC checks the formulas first. No run states those of `ListProofs` and
`SafeAfterMain`: these stand on their proofs. What stays with TLC is liveness:
`Terminates`, `Succeeds`, `Finishes`, and the fairness in `Implements` and
`ImplementsQueue`, whose safety parts are `ImplementsTaskPool` and `DrivesQueue`.
Fairness needs ENABLED, which is beyond the prover. Of the assumptions on
constants TLC evaluates each on the instances of the runs.

## Not modelled

- `SIGALRM`: the handler sets a flag nobody acts on.
- Entries whose type readdir does not know, which the code skips; a file name
  that holds a newline; entries added to a directory while it is read.
- Assertions of a debug build: the default build defines `NDEBUG`. One of them can
  fail, `assert(!tpe->tp->exit)` (`lib/thread-pool.c:29`): `WorkQueue` reaches states
  where a thread has still to start after `PoolExit`.
- A digest that is zero although it was computed, excluded by assumption; two
  contents with one digest.
- A backup directory below a source directory, whose files a later run would list.
- The creation of the output directory, the headers of the lists, the text of
  messages, help and version.
- Allocation failure, which exits; `mem_realloc` and its kin on blocks that one
  thread owns; a match counter beyond 32 bits.
- Code that is never called: `list_insert_after`, `list_add_head`,
  `hash_table_remove`, the find functions of the table, `set_log_path`, which is
  under an `if (0)`; the test
  program at the end of `lib/work-queue.c`.
- Timer, build files, smoke tests.

## Plan

Done: every module above and a theorem for each invariant of a passing run.
Next, in this order:

1. `CleanDupesProofs`: `OneStays` for the files that no overlap and no misread name
   touches, in place of `NoOverlap` and `ReadsNames` for all.
2. A theorem that a group of `Buckets` is what `FindDupes` calls one, when no file
   changes, so that the two cuts of `compare.c` are tied by proof.
3. Lemmas of `BucketsProofs` that `ListsProofs` could share moved to `DataLemmas`.
