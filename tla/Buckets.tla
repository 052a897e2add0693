-------------------------------- MODULE Buckets --------------------------------
(***************************************************************************)
(* One run of find-dupes seen from its data: the options size the hash     *)
(* table, files go to the bucket of their size, and compare_files_cb walks *)
(* the buckets, computes digests when it first needs them and builds each  *)
(* group in a buffer it grows by realloc.  Meanwhile a signal may come and *)
(* files may change or go.  How the threads get their items is the matter  *)
(* of module WorkQueue; here a thread takes the oldest bucket nobody has.  *)
(***************************************************************************)
EXTENDS Options, FiniteSets, FiniteSetsExt

CONSTANTS
  CommandLine,   \* the command lines: arguments, sources and what they reach
  Scale,         \* lists per bucket of -b, 1024 in the code
  Worker,        \* threads, numbered from 1; the first opts.jobs of them run
  Entry,         \* what the source directories give, each when it is read
  File,          \* the files they lead to
  NameLen,       \* name_len of each entry
  Data,          \* what a file can hold: a size and the digest of the bytes
  Disks,         \* what may be found at first through each entry
  Gone,          \* there is no such file
  Zero,          \* a digest not computed yet
  Digits,        \* how many digits %u prints for a number
  Width,         \* digits of the largest, 10 in the code
  MaxChanged     \* bound on the files that change while entries lead to them

ASSUME BucketsAssumption ==
  /\ \A c \in CommandLine : Typable(c.args) /\ c.target \in [Entry -> File]
  /\ Scale \in Nat \ {0}
  /\ Worker \subseteq Nat \ {0}
  /\ IsFiniteSet(Entry)
  /\ NameLen \in [Entry -> Nat \ {0}]
  /\ \A d \in Data : d.size \in Nat /\ d.digest # Zero
  /\ \A d \in Data : d = [size |-> d.size, digest |-> d.digest]
  /\ Disks \subseteq [Entry -> Data]
  /\ Gone \notin Data
  /\ Width \in Nat
  /\ Digits \in [0..UIntMax -> 1..Width]
  /\ MaxChanged \in Nat

VARIABLES
  opts,          \* the parsed options
  readable,      \* for each source directory, whether it can be read
  target,        \* the file each entry leads to; of sources that overlap, or
                 \* are one, several entries lead to one file
  phase,         \* where main is
  term,          \* sig_events.term
  disk,          \* what is found through each entry
  changed,       \* entries that lead to files that have changed
  count,         \* ht->count
  chain,         \* ht->array, and what lies behind its end
  extras,        \* ht->extras
  key,           \* hte->key of each entry
  digest,        \* data->digest of each entry
  matched,       \* entries with data->matched
  claimed,       \* compare items taken off the queue
  pc,            \* where each thread is in compare_files_cb
  cb,            \* its bucket, the positions of hte_1 and hte_2, its group
  buf,           \* its d_buf: length, bytes allocated, end of the last write
  files,         \* files.lst
  empty,         \* empty.lst
  dupes,         \* dupes.lst, group by group
  unique         \* unique.lst

optVars == <<opts, readable, target>>
diskVars == <<disk, changed>>
tableVars == <<count, chain, extras, key>>
markVars == <<digest, matched>>
cbVars == <<pc, cb, buf>>
outVars == <<files, empty, dupes, unique>>
vars == <<optVars, phase, term, diskVars, tableVars, markVars, claimed, cbVars,
          outVars>>

Unsigned(n) == n % (UIntMax + 1)
Seen == {f \in Entry : key[f] # 0} \cup ToSet(extras)
Over == {"informed", "refused", "exited", "stopped", "done"}

NoBuffer == [len |-> 0, cap |-> 0, end |-> 0]
Idle == [bucket |-> 0, i |-> 1, j |-> 1, group |-> <<>>]

TypeOK ==
  /\ phase \in {"parse", "find", "compare"} \cup Over
  /\ term \in BOOLEAN
  /\ target \in [Entry -> File]
  /\ disk \in [Entry -> Data \cup {Gone}]
  /\ changed \subseteq Entry
  /\ count \in 0..UIntMax
  /\ chain \in [0..UIntMax -> Seq(Entry)]
  /\ extras \in Seq(Entry)
  /\ key \in [Entry -> Nat]
  /\ digest \in [Entry -> {d.digest : d \in Data} \cup {Zero}]
  /\ matched \subseteq Entry
  /\ claimed \in 0..count
  /\ pc \in [Worker -> {"idle", "outer", "inner", "first", "second", "test",
                        "last", "leave"}]
  /\ \A w \in Worker :
       /\ cb[w].bucket \in 0..UIntMax /\ cb[w].group \in Seq(Entry)
       /\ pc[w] # "idle" => /\ cb[w].i \in 1..(Len(chain[cb[w].bucket]) + 1)
                            /\ cb[w].j \in 1..(Len(chain[cb[w].bucket]) + 1)
       /\ buf[w] \in [len : Nat, cap : Nat, end : Nat]
  /\ files \in Seq(Entry) /\ empty \in Seq(Entry) /\ unique \in Seq(Entry)
  /\ dupes \in Seq(Seq(Entry))

Init ==
  /\ \E c \in CommandLine :
       opts = OptsParse(c.args) /\ readable = c.readable /\ target = c.target
  /\ phase = "parse" /\ term = FALSE
  /\ disk \in Disks /\ changed = {}
  /\ \A f, g \in Entry : target[f] = target[g] => disk[f] = disk[g]
  /\ count = 0
  /\ chain = [b \in 0..UIntMax |-> <<>>]
  /\ extras = <<>>
  /\ key = [f \in Entry |-> 0]
  /\ digest = [f \in Entry |-> Zero]
  /\ matched = {}
  /\ claimed = 0
  /\ pc = [w \in Worker |-> "idle"]
  /\ cb = [w \in Worker |-> Idle]
  /\ buf = [w \in Worker |-> NoBuffer]
  /\ files = <<>> /\ empty = <<>> /\ dupes = <<>> /\ unique = <<>>

-----------------------------------------------------------------------------
(* hash_table_init and hash_table_index *)

(* The product is an unsigned long, the parameter an unsigned int. *)
TableCount(buckets) == Unsigned(Scale * buckets)

(* Variant: a table of no lists is not refused. *)
AnySize(n) == TRUE

(* hash_table_init ends in on_error for fewer lists than one. *)
LargeEnough(n) == n >= 1

(* The operator & on unsigned ints, by their last bits and what is before.  *)
And[m \in 0..UIntMax] ==
  [n \in 0..UIntMax |->
     IF m = 0 THEN 0 ELSE 2 * And[m \div 2][n \div 2] + (m % 2) * (n % 2)]

BitAnd(m, n) == And[m][n]

Index(k) == BitAnd(Unsigned(count + UIntMax), Unsigned(k))

(* main up to the first source directory. *)
Begin ==
  /\ phase = "parse"
  /\ IF ~Starts(opts, readable)
     THEN /\ phase' = IF Informs(opts) THEN "informed" ELSE "refused"
          /\ UNCHANGED count
     ELSE IF LargeEnough(TableCount(opts.buckets))
     THEN phase' = "find" /\ count' = TableCount(opts.buckets)
     ELSE phase' = "exited" /\ UNCHANGED count
  /\ UNCHANGED <<optVars, term, diskVars, chain, extras, key, markVars, claimed,
                 cbVars, outVars>>

(* process_file: stat, then the tail of a list.  A file gone by then makes *)
(* get_file_size_stat64 exit.  One reading of a directory gives an entry   *)
(* once, which is all the guard on f says: process_file does not look for  *)
(* what it has, and enters a file as often as entries lead to it.          *)
ProcessFile(f) ==
  /\ phase = "find" /\ ~term
  /\ f \notin Seen
  /\ IF disk[f] = Gone
     THEN phase' = "exited" /\ UNCHANGED <<chain, extras, key>>
     ELSE /\ UNCHANGED phase
          /\ key' = [key EXCEPT ![f] = disk[f].size]
          /\ IF disk[f].size # 0
             THEN /\ chain' = [chain EXCEPT ![Index(disk[f].size)] = Append(@, f)]
                  /\ UNCHANGED extras
             ELSE extras' = Append(extras, f) /\ UNCHANGED chain
  /\ UNCHANGED <<optVars, term, diskVars, count, markVars, claimed, cbVars, outVars>>

(* hash_table_for_each_list *)
TableFiles == FlattenSeq([b \in 1..count |-> chain[b - 1]])

(* Every file still there was found; main looks at the signal and writes   *)
(* empty.lst and, with --file-list, files.lst.                             *)
FindEnds ==
  /\ phase = "find" /\ ~term
  /\ \A f \in Entry : f \in Seen \/ disk[f] = Gone
  /\ phase' = "compare"
  /\ empty' = extras
  /\ files' = IF opts.fileList THEN extras \o TableFiles ELSE files
  /\ UNCHANGED <<optVars, term, diskVars, tableVars, markVars, claimed, cbVars,
                 dupes, unique>>

FindStops ==
  /\ phase = "find" /\ term
  /\ phase' = "stopped"
  /\ UNCHANGED <<optVars, term, diskVars, tableVars, markVars, claimed, cbVars,
                 outVars>>

-----------------------------------------------------------------------------
(* compare_files_cb.  A bucket belongs to its callback, but its files, the *)
(* signal and the lists are shared; a step is made at each look at them.   *)

Running(w) == phase = "compare" /\ w <= opts.jobs
Goes(w, from, to) == Running(w) /\ pc[w] = from /\ pc' = [pc EXCEPT ![w] = to]
Chain(w) == chain[cb[w].bucket]
First(w) == Chain(w)[cb[w].i]
Second(w) == Chain(w)[cb[w].j]

(* compare_files queues every bucket. *)
LastBucket == count

(* hte_2 and the group move on together. *)
Pair(c, j, group) == [bucket |-> c.bucket, i |-> c.i, j |-> j, group |-> group]

(* The callback looks at the signal before anything else. *)
Claim(w) ==
  /\ claimed < LastBucket
  /\ Goes(w, "idle", IF term THEN "leave" ELSE "outer")
  /\ claimed' = claimed + 1
  /\ cb' = [cb EXCEPT ![w] = [Idle EXCEPT !.bucket = claimed]]
  /\ UNCHANGED <<optVars, phase, term, diskVars, tableVars, markVars, buf, outVars>>

(* Variant: the outer loop steps on from where the inner one ended. *)
AfterInner(w) == cb[w].j + 1

(* Variant: the step is left out for an entry that is passed over. *)
AtMatched(w) == IF First(w) \in matched THEN cb[w].i ELSE cb[w].i + 1

(* The step of list_for_each, which continue takes too. *)
Successor(w) == cb[w].i + 1

(* A matched entry is passed over. *)
Outer(w) ==
  /\ IF cb[w].i > Len(Chain(w))
     THEN Goes(w, "outer", "leave") /\ UNCHANGED <<cb, buf>>
     ELSE IF First(w) \in matched
     THEN /\ Goes(w, "outer", "outer")
          /\ cb' = [cb EXCEPT ![w].i = Successor(w)]
          /\ UNCHANGED buf
     ELSE /\ Goes(w, "outer", "inner")
          /\ cb' = [cb EXCEPT ![w] = Pair(@, @.i + 1, <<>>)]
          /\ buf' = [buf EXCEPT ![w] = NoBuffer]
  /\ UNCHANGED <<optVars, phase, term, diskVars, tableVars, markVars, claimed,
                 outVars>>

(* So is an entry that is matched or has another key. *)
Inner(w) ==
  /\ IF cb[w].j > Len(Chain(w))
     THEN Goes(w, "inner", "last") /\ UNCHANGED cb
     ELSE IF Second(w) \in matched \/ key[First(w)] # key[Second(w)]
     THEN Goes(w, "inner", "inner") /\ cb' = [cb EXCEPT ![w].j = @ + 1]
     ELSE Goes(w, "inner", "first") /\ UNCHANGED cb
  /\ UNCHANGED <<optVars, phase, term, diskVars, tableVars, markVars, claimed, buf,
                 outVars>>

(* Variant: the digest is computed for each pair anew. *)
AlwaysHash(d) == TRUE

DigestIsEmpty(d) == d = Zero

(* digest_hash_file: a file that cannot be opened ends the program, and so *)
(* does one of no bytes, which mmap refuses.                               *)
Mappable(f) == disk[f] # Gone /\ disk[f].size # 0

Hash(w, f, from, to) ==
  /\ Goes(w, from, to)
  /\ IF ~DigestIsEmpty(digest[f])
     THEN UNCHANGED <<digest, phase>>
     ELSE IF Mappable(f)
     THEN digest' = [digest EXCEPT ![f] = disk[f].digest] /\ UNCHANGED phase
     ELSE phase' = "exited" /\ UNCHANGED digest
  /\ UNCHANGED <<optVars, term, diskVars, tableVars, matched, claimed, cb, buf,
                 outVars>>

HashFirst(w) == pc[w] = "first" /\ Hash(w, First(w), "first", "second")
HashSecond(w) == pc[w] = "second" /\ Hash(w, Second(w), "second", "test")

(* dupe_buffer_write_first: "[1] ", the name and a newline. *)
WriteFirst(b, f) ==
  LET end == b.len + 4 + NameLen[f] + 1
  IN  [len |-> end, cap |-> end, end |-> end]

(* Variant: no room is asked for the byte sprintf writes after the line.   *)
WriteMatchShort(b, f, n) ==
  LET len == b.len + Digits[n] + 3 + NameLen[f] + 1
  IN  [len |-> len, cap |-> b.len + (Width + 3) + NameLen[f] + 1, end |-> len + 1]

(* dupe_buffer_write_match: the room is reserved for the longest number,   *)
(* sprintf writes the number there is, the line and a null byte.           *)
WriteMatch(b, f, n) ==
  LET len == b.len + Digits[n] + 3 + NameLen[f] + 1
  IN  [len |-> len, cap |-> b.len + (Width + 3) + NameLen[f] + 2, end |-> len + 1]

(* The empty line after a group goes over the null byte. *)
EndGroup(b) == [len |-> b.len + 1, cap |-> b.cap, end |-> b.len + 1]

(* Variant: the match is written but not marked. *)
Unmarked(f) == matched

Marked(f) == matched \cup {f}

(* digest_compare.  match_counter is the group's length less its first.    *)
Test(w) ==
  LET f == First(w)
      g == Second(w)
      group == IF cb[w].group = <<>> THEN <<f>> ELSE cb[w].group
  IN  /\ Goes(w, "test", "inner")
      /\ IF digest[f] = digest[g]
         THEN /\ matched' = Marked(g)
              /\ cb' = [cb EXCEPT ![w] = Pair(@, @.j + 1, Append(group, g))]
              /\ buf' = [buf EXCEPT ![w] =
                   WriteMatch(IF cb[w].group = <<>> THEN WriteFirst(@, f) ELSE @,
                              g, Unsigned(Len(group) + 1))]
         ELSE cb' = [cb EXCEPT ![w].j = @ + 1] /\ UNCHANGED <<matched, buf>>
      /\ UNCHANGED <<optVars, phase, term, diskVars, tableVars, digest, claimed,
                     outVars>>

(* The signal, then the group or the unique name is written. *)
WriteOut(w) ==
  /\ IF term
     THEN Goes(w, "last", "leave") /\ UNCHANGED <<cb, buf, dupes, unique>>
     ELSE /\ Goes(w, "last", "outer")
          /\ cb' = [cb EXCEPT ![w].i = Successor(w)]
          /\ IF cb[w].group # <<>>
             THEN /\ buf' = [buf EXCEPT ![w] = EndGroup(@)]
                  /\ dupes' = Append(dupes, cb[w].group)
                  /\ UNCHANGED unique
             ELSE unique' = Append(unique, First(w)) /\ UNCHANGED <<buf, dupes>>
  /\ UNCHANGED <<optVars, phase, term, diskVars, tableVars, markVars, claimed, files,
                 empty>>

(* file_table_entry_clean for every entry, then the item is given back. *)
Leave(w) ==
  /\ Goes(w, "leave", "idle")
  /\ chain' = [chain EXCEPT ![cb[w].bucket] = <<>>]
  /\ UNCHANGED <<optVars, phase, term, diskVars, count, extras, key, markVars, claimed,
                 cb, buf, outVars>>

(* The ready list is empty: what was queued was taken and given back. *)
CompareEnds ==
  /\ phase = "compare"
  /\ claimed = LastBucket /\ \A w \in Worker : pc[w] = "idle"
  /\ phase' = IF term THEN "stopped" ELSE "done"
  /\ UNCHANGED <<optVars, term, diskVars, tableVars, markVars, claimed, cbVars,
                 outVars>>

-----------------------------------------------------------------------------
(* SIGINT or SIGTERM, as often as it likes. *)
Signal ==
  /\ phase \in {"find", "compare"}
  /\ term' = TRUE
  /\ UNCHANGED <<optVars, phase, diskVars, tableVars, markVars, claimed, cbVars,
                 outVars>>

(* Somebody writes to a file or removes it, once; so it is for all entries *)
(* that lead to it.                                                        *)
Change(f, d) ==
  LET aliases == {g \in Entry : target[g] = target[f]}
  IN  /\ phase \in {"find", "compare"}
      /\ f \notin changed /\ d # disk[f]
      /\ Cardinality({target[g] : g \in changed}) < MaxChanged
      /\ disk' = [g \in Entry |-> IF g \in aliases THEN d ELSE disk[g]]
      /\ changed' = changed \cup aliases
      /\ UNCHANGED <<optVars, phase, term, tableVars, markVars, claimed, cbVars, outVars>>

MainStep == Begin \/ FindEnds \/ FindStops \/ CompareEnds \/ \E f \in Entry : ProcessFile(f)

WorkerStep(w) ==
  \/ Claim(w) \/ Outer(w) \/ Inner(w) \/ HashFirst(w) \/ HashSecond(w)
  \/ Test(w) \/ WriteOut(w) \/ Leave(w)

Ended == phase \in Over /\ UNCHANGED vars

Next ==
  \/ MainStep
  \/ \E w \in Worker : WorkerStep(w)
  \/ Signal
  \/ \E f \in Entry, d \in Data \cup {Gone} : Change(f, d)
  \/ Ended

(* Threads are scheduled; nobody has to send a signal or change a file.    *)
Spec ==
  /\ Init /\ [][Next]_vars
  /\ WF_vars(MainStep)
  /\ \A w \in Worker : WF_vars(WorkerStep(w))

-----------------------------------------------------------------------------
(* Properties. *)

(* No write goes beyond the bytes realloc was last asked for, neither the  *)
(* null byte of sprintf nor the empty line, which is written with no       *)
(* realloc (compare.c:42-68, 202).                                         *)
BufferFits == \A w \in Worker : buf[w].end <= buf[w].cap

(* Whatever is typed after -b, no file goes to a list behind the end of    *)
(* the array: assert(index < ht->count) (hash-table.c:47).                 *)
IndexInRange == \A b \in 0..UIntMax : chain[b] # <<>> => b < count

Grouped(f, g) == \E d \in ToSet(dupes) : {f, g} \subseteq ToSet(d)

(* Entries of files that do not change are grouped by what these hold,     *)
(* the two of a file that is reached twice among them, whatever other      *)
(* files do meanwhile: with no stranger at any time, and with every equal  *)
(* once the run is complete (compare.c:146-164).                           *)
StableGrouped ==
  \A f, g \in Seen \ changed :
    f # g /\ disk[f].size # 0 =>
      /\ Grouped(f, g) => disk[f] = disk[g]
      /\ phase = "done" /\ disk[f] = disk[g] => Grouped(f, g)

(* No entry is named twice in empty.lst, unique.lst and dupes.lst together *)
(* and none is left out: after a complete run every entry found is named,  *)
(* changed or not, in files.lst too (list-file.c:29, compare.c:191-226).   *)
(* So no file is named twice as long as sources do not overlap, and one    *)
(* that is reached twice is named twice (find.c:125).                      *)
NoOverlap == IsInjective(target)

NamedOnce ==
  LET Once(list) ==
        /\ IsInjective(list)
        /\ NoOverlap => IsInjective([n \in DOMAIN list |-> target[list[n]]])
      named == empty \o unique \o FlattenSeq(dupes)
  IN  /\ Once(named)
      /\ phase = "done" =>
           /\ ToSet(named) = Seen
           /\ opts.fileList => Once(files) /\ ToSet(files) = Seen

(* With a thread at least the run ends. *)
Finishes == <>(phase \in Over)

===============================================================================
