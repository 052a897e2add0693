------------------------------ MODULE CleanDupes ------------------------------
(***************************************************************************)
(* clean-dupes.sh: the three steps a user takes one after another or in    *)
(* one invocation, each of which may stop at any point, by a signal or by  *)
(* a failing command or test (set -e), and be run again.  find-dupes       *)
(* writes the dupes list into a backup directory that is new, a moves list *)
(* is generated from it, and the files the moves list names are moved.     *)
(* The lists are where the script puts them by default, in the backup      *)
(* directory; the user keeps to one such directory until a new list of     *)
(* duplicates is made, and to one --keep-pos.                              *)
(***************************************************************************)
EXTENDS Naturals, Sequences, FiniteSets, SequencesExt

CONSTANTS
  Path,          \* names of files, as find-dupes prints them or realpath does
  Backup,        \* backup directories
  Real,          \* what realpath makes of a name, the file's own
  Trees,         \* the files there may be, data or None under their own names,
                 \* and the names by which the source directories reach them
  NewFiles,      \* <<name, data>> the user may create, each once
  Read,          \* what the shell's read makes of a name, or None
  Unprintable,   \* names the regular expression of a line refuses
  KeepPos,       \* values of --keep-pos, of "all", "1", "2" and "last"
  Base,          \* the last component of a name
  None           \* no file, no list, no name

(* A list of duplicates is a sequence of names, a blank line ends a group, *)
(* and a list that was cut off may end in a line that has no end.          *)
Blank == "blank"
Cut == "cut"
Partial == "partial"         \* data of a file mv has not finished to copy
Step == {"dupes", "moves", "move"}

ASSUME CleanDupesAssumption ==
  /\ IsFiniteSet(Path)
  /\ {None, Blank, Cut} \cap Path = {}
  /\ Real \in [Path -> Path] /\ \A p \in Path : Real[Real[p]] = Real[p]
  /\ Read \in [Path -> Path \cup {None}]
  /\ Unprintable \subseteq Path
  /\ KeepPos \subseteq {"all", "1", "2", "last"}
  /\ \A t \in Trees :
       /\ DOMAIN t.files = Path /\ t.reached \subseteq Path
       /\ \A p \in Path : t.files[p] # None => Real[p] = p
  /\ \A n \in NewFiles : n[1] \in Path /\ Real[n[1]] = n[1] /\ n[2] # None

VARIABLES
  files,         \* data of each file in the source directories
  store,         \* data of each file below each backup directory
  made,          \* backup directories that exist
  current,       \* the one in use
  keepPos,       \* --keep-pos
  reached,       \* names by which the source directories given reach files:
                 \* overlapping or linked ones reach a file by several names
  dupesLst,      \* lines of the dupes list
  movesLst,      \* lines of the moves list
  stage,         \* what the script does
  steps,         \* steps of this invocation that are still to do
  line,          \* number of the line the script reads next
  group,         \* the names of a group
  idx,           \* how many of them process_group has written
  passed,        \* steps that came to their end, for the current lists
  seen           \* every <<name, data>> there has been

fileVars == <<files, store, seen>>
argVars == <<keepPos, reached>>
listVars == <<made, current, argVars, dupesLst, movesLst>>
loopVars == <<line, group, idx>>
vars == <<fileVars, listVars, loopVars, stage, steps, passed>>

Stage == {"idle", "ready", "read", "group", "move", "copying"}

TypeOK ==
  /\ DOMAIN files = Path
  /\ DOMAIN store = Backup /\ \A b \in Backup : DOMAIN store[b] = Path
  /\ made \subseteq Backup
  /\ current \in made \cup {None}
  /\ keepPos \in KeepPos /\ reached \subseteq Path
  /\ dupesLst # None => dupesLst \in Seq(Path \cup {Blank, Cut})
  /\ movesLst # None =>
       movesLst \in Seq([path : Path \cup {None}, keep : BOOLEAN])
  /\ stage \in Stage
  /\ steps \subseteq Step /\ passed \subseteq Step
  /\ line \in Nat \ {0}
  /\ group \in Seq(Path \cup {None})
  /\ idx \in 0..Len(group)

Init ==
  /\ \E tree \in Trees : files = tree.files /\ reached = tree.reached
  /\ store = [b \in Backup |-> [p \in Path |-> None]]
  /\ made = {}
  /\ current = None
  /\ keepPos \in KeepPos
  /\ dupesLst = None
  /\ movesLst = None
  /\ stage = "idle"
  /\ steps = {}
  /\ line = 1
  /\ group = <<>>
  /\ idx = 0
  /\ passed = {}
  /\ seen = {<<p, files[p]>> : p \in {q \in Path : files[q] # None}}

-----------------------------------------------------------------------------
(* The user. *)

Run(some) ==
  /\ stage = "idle"
  /\ some # {}
  /\ steps' = some
  /\ stage' = "ready"
  /\ UNCHANGED <<fileVars, listVars, loopVars, passed>>

CreateFile(p, d) ==
  /\ stage = "idle"
  /\ <<p, d>> \notin seen
  /\ files[p] = None
  /\ files' = [files EXCEPT ![p] = d]
  /\ seen' = seen \cup {<<p, d>>}
  /\ UNCHANGED <<store, listVars, loopVars, stage, steps, passed>>

(* The script is over, and its variables with it. *)
Ends ==
  /\ stage' = "idle" /\ steps' = {}
  /\ line' = 1 /\ group' = <<>> /\ idx' = 0

(* A signal, a command or test that fails: on_err exits the script and     *)
(* what was done stays done.                                               *)
Stop ==
  /\ stage # "idle"
  /\ Ends
  /\ UNCHANGED <<fileVars, listVars, passed>>

(* A step ended: the next one of the invocation may begin. *)
Pass(step) ==
  /\ passed' = passed \cup {step}
  /\ steps' = steps \ {step}
  /\ stage' = "ready"
  /\ line' = 1 /\ group' = <<>> /\ idx' = 0

-----------------------------------------------------------------------------
(* --gen-dupes *)

(* What there is under a name. *)
Held(p) == files[Real[p]]

(* The groups find-dupes lists (module FindDupes): the names of equal      *)
(* files.  A file that is reached by two names is two entries, equal to    *)
(* each other (find.c:125).                                                *)
Groups ==
  LET Found == {p \in reached : Held(p) # None}
      Same(p) == {q \in Found : Held(q) = Held(p)}
  IN  {Same(p) : p \in {q \in Found : Cardinality(Same(q)) > 1}}

(* The order of the names of each group. *)
Inside ==
  {f \in [Groups -> UNION {SetToSeqs(g) : g \in Groups}] :
     \A g \in Groups : ToSet(f[g]) = g}

(* A group is its names, a line each, and a blank line. *)
Lines(order, f) ==
  FlattenSeq([i \in DOMAIN order |-> Append(f[order[i]], Blank)])

Listings == {Lines(order, f) : order \in SetToSeqs(Groups), f \in Inside}

NewDirectory(b, list) ==
  /\ made' = made \cup {b}
  /\ current' = b
  /\ dupesLst' = list
  /\ movesLst' = None
  /\ UNCHANGED <<fileVars, argVars>>

GenDupes ==
  /\ stage = "ready" /\ "dupes" \in steps
  /\ \E b \in Backup \ made : \E list \in Listings : NewDirectory(b, list)
  /\ passed' = {"dupes"}
  /\ steps' = steps \ {"dupes"}
  /\ UNCHANGED <<loopVars, stage>>

(* find-dupes was stopped: there is no list yet, or one that ends anywhere,*)
(* in a line or between.                                                   *)
CutOff(list) ==
  {SubSeq(list, 1, n) : n \in 0..Len(list)} \cup
  {Append(SubSeq(list, 1, n - 1), Cut) : n \in {k \in DOMAIN list : list[k] \in Path}}

GenDupesStops ==
  /\ stage = "ready" /\ "dupes" \in steps
  /\ \E b \in Backup \ made :
       \E list \in {None} \cup UNION {CutOff(l) : l \in Listings} : NewDirectory(b, list)
  /\ passed' = {}
  /\ Ends

-----------------------------------------------------------------------------
(* --gen-moves: generate_moves and process_group *)

GenMoves ==
  /\ stage = "ready" /\ "dupes" \notin steps /\ "moves" \in steps
  /\ dupesLst # None
  /\ movesLst' = <<>>
  /\ passed' = passed \ {"moves", "move"}
  /\ stage' = "read"
  /\ line' = 1 /\ group' = <<>> /\ idx' = 0
  /\ UNCHANGED <<fileVars, made, current, argVars, dupesLst, steps>>

Reads(lines) == stage = "read" /\ line <= Len(dupesLst) /\ dupesLst[line] \in lines

ReadName ==
  /\ Reads(Path \ Unprintable)
  /\ group' = Append(group, Read[dupesLst[line]])
  /\ line' = line + 1
  /\ UNCHANGED <<fileVars, listVars, idx, stage, steps, passed>>

(* Variant: a blank line that is the last one ends no group. *)
EndsGroupBefore(n) == n < Len(dupesLst)

(* A blank line ends a group, and so does a line that has no end. *)
EndsGroup(n) == n <= Len(dupesLst)

ReadGroupEnd ==
  /\ Reads({Blank, Cut})
  /\ dupesLst[line] = Cut => group # <<>>
  /\ stage' = IF group # <<>> /\ EndsGroup(line) THEN "group" ELSE "read"
  /\ line' = line + 1
  /\ UNCHANGED <<fileVars, listVars, group, idx, steps, passed>>

(* Variant: the position is compared with an index that begins at 0. *)
KeptFromZero(i, n) ==
  \/ keepPos = "all"
  \/ keepPos = "last" /\ i = n
  \/ keepPos = "1" /\ i - 1 = 1
  \/ keepPos = "2" /\ i - 1 = 2

(* The lines process_group comments out. *)
Kept(i, n) ==
  \/ keepPos = "all"
  \/ keepPos = "last" /\ i = n
  \/ keepPos = "1" /\ i = 1
  \/ keepPos = "2" /\ i = 2

WriteLine ==
  /\ stage = "group" /\ idx < Len(group)
  /\ movesLst' = Append(movesLst, [path |-> group[idx + 1],
                                   keep |-> Kept(idx + 1, Len(group))])
  /\ idx' = idx + 1
  /\ UNCHANGED <<fileVars, made, current, argVars, dupesLst, line, group, stage,
                 steps, passed>>

(* Variant: i is not set back, as if it were one variable for all groups.  *)
GroupEndsAt ==
  /\ stage = "group" /\ idx = Len(group)
  /\ stage' = "read"
  /\ group' = <<>>
  /\ UNCHANGED <<fileVars, listVars, line, idx, steps, passed>>

GroupEnds ==
  /\ stage = "group" /\ idx = Len(group)
  /\ stage' = "read"
  /\ group' = <<>> /\ idx' = 0
  /\ UNCHANGED <<fileVars, listVars, line, steps, passed>>

GenMovesEnds ==
  /\ stage = "read" /\ line > Len(dupesLst)
  /\ Pass("moves")
  /\ UNCHANGED <<fileVars, listVars>>

-----------------------------------------------------------------------------
(* --move-files *)

MoveFiles ==
  /\ stage = "ready" /\ steps = {"move"}
  /\ movesLst # None
  /\ passed' = passed \ {"move"}
  /\ stage' = "move"
  /\ line' = 1
  /\ UNCHANGED <<fileVars, listVars, group, idx, steps>>

SkipLine ==
  /\ stage = "move" /\ line <= Len(movesLst)
  /\ movesLst[line].keep
  /\ line' = line + 1
  /\ UNCHANGED <<fileVars, listVars, group, idx, stage, steps, passed>>

(* Variant: every file goes to the top of the backup directory. *)
DestFlat(p) == CHOOSE q \in Path : Base[q] = Base[p]

(* A file keeps its whole own path below the backup directory. *)
Dest(p) == p

(* The file that realpath finds for the line the script has read. *)
Moves(p) ==
  /\ line <= Len(movesLst)
  /\ ~movesLst[line].keep /\ movesLst[line].path # None
  /\ p = Real[movesLst[line].path]
  /\ files[p] # None

(* mv copies, over what is there, when it cannot rename. *)
CopyBegins(p) ==
  /\ stage = "move" /\ Moves(p)
  /\ stage' = "copying"
  /\ store' = [store EXCEPT ![current][Dest(p)] = Partial]
  /\ UNCHANGED <<files, seen, listVars, loopVars, steps, passed>>

Moved(p) ==
  /\ stage \in {"move", "copying"} /\ Moves(p)
  /\ stage' = "move"
  /\ store' = [store EXCEPT ![current][Dest(p)] = files[p]]
  /\ files' = [files EXCEPT ![p] = None]
  /\ line' = line + 1
  /\ UNCHANGED <<seen, listVars, group, idx, steps, passed>>

MoveFilesEnds ==
  /\ stage = "move" /\ line > Len(movesLst)
  /\ Pass("move")
  /\ UNCHANGED <<fileVars, listVars>>

-----------------------------------------------------------------------------
Next ==
  \/ \E some \in SUBSET Step : Run(some)
  \/ \E new \in NewFiles : CreateFile(new[1], new[2])
  \/ Stop
  \/ GenDupes
  \/ GenDupesStops
  \/ GenMoves
  \/ ReadName
  \/ ReadGroupEnd
  \/ WriteLine
  \/ GroupEnds
  \/ GenMovesEnds
  \/ MoveFiles
  \/ SkipLine
  \/ \E p \in Path : CopyBegins(p)
  \/ \E p \in Path : Moved(p)
  \/ MoveFilesEnds

Spec == Init /\ [][Next]_vars

-----------------------------------------------------------------------------
(* Properties. *)

(* Whatever is interrupted and run again, every file there has ever been   *)
(* is whole, under its own name, in its place or in a backup directory:    *)
(* "All data will be preserved in the move operation." (README.md:13),     *)
(* even where the script takes one file for two, or a name for another.    *)
NothingLost ==
  \A f \in seen :
    files[f[1]] = f[2] \/ \E b \in Backup : store[b][f[1]] = f[2]

(* No file is reached by two names.  Overlapping sources, the same source  *)
(* twice and a source that is a link to another break it.                  *)
NoOverlap == \A p, q \in reached : Real[p] = Real[q] => p = q

(* The shell reads each name that is listed as itself or as no file's.  A  *)
(* name that begins or ends in a blank may break it (clean-dupes.sh.in:269)*)
ReadsNames == \A p \in reached : Read[p] \in {p, None}

(* Only duplicates are moved, never the last copy in place: what there was *)
(* before is still found in the source directories.                        *)
LastCopyStays == \A f \in seen : \E p \in Path : files[p] = f[2]

(* Under these two conditions it is so, wherever lists are cut off and     *)
(* steps interrupted (clean-dupes.sh.in:221).                              *)
KeepsOne == NoOverlap /\ ReadsNames => LastCopyStays

(* After all three steps have passed, no two files that were listed as     *)
(* equal are both still in place, those of the last group neither, unless  *)
(* all were to be kept.  That one of them is, is KeepsOne's part.          *)
Cleaned ==
  ReadsNames /\ passed = Step /\ keepPos # "all" =>
    \A p, q \in ToSet(dupesLst) \cap Path :
      Held(p) # None /\ Held(p) = Held(q) => Real[p] = Real[q]

===============================================================================
