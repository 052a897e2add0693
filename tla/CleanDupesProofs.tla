--------------------------- MODULE CleanDupesProofs ---------------------------
(***************************************************************************)
(* Proofs about clean-dupes.sh.                                            *)
(***************************************************************************)
EXTENDS CleanDupes, DataLemmas

(* What is assumed of names, which most steps use.                         *)
LEMMA NamesAre ==
  /\ IsFiniteSet(Path) /\ {None, Blank, Cut} \cap Path = {}
  /\ Read \in [Path -> Path \cup {None}] /\ Unprintable \subseteq Path
  /\ KeepPos \subseteq {"all", "1", "2", "last"}
BY CleanDupesAssumption

(* realpath makes a file's own name of a name, and leaves that as it is.   *)
LEMMA RealsAre == Real \in [Path -> Path] /\ \A p \in Path : Real[Real[p]] = Real[p]
BY CleanDupesAssumption

(* What the user makes is a file under its own name.                       *)
LEMMA NewFilesAre ==
  \A n \in NewFiles : n[1] \in Path /\ Real[n[1]] = n[1] /\ n[2] # None
BY CleanDupesAssumption

USE NamesAre

(* A line of the moves list. *)
Line == [path : Path \cup {None}, keep : BOOLEAN]

(* There is a list only where there is a directory for it, and no step     *)
(* goes on without the list it reads or writes.                            *)
ListInv ==
  /\ dupesLst # None \/ movesLst # None => current \in made
  /\ stage \in {"read", "group"} => dupesLst # None /\ movesLst \in Seq(Line)
  /\ stage \in {"move", "copying"} => movesLst # None

(* The ghost of all files holds those that are there.                      *)
SeenInv ==
  /\ \A p \in Path : files[p] # None => <<p, files[p]>> \in seen
  /\ \A f \in seen : f[1] \in Path /\ f[2] # None /\ f = <<f[1], f[2]>>

(* So it has what a name of one of them shows.                             *)
LEMMA HeldSeen ==
  ASSUME SeenInv, NEW p \in Path, Held(p) # None
  PROVE  <<Real[p], Held(p)>> \in seen
<1>1. Real[p] \in Path
  BY RealsAre
<1> QED BY <1>1 DEF SeenInv, Held

(* No name has been used for two files that differ.                        *)
OneData == \A f, g \in seen : f[1] = g[1] => f = g

TypeInv == TypeOK /\ ListInv

-----------------------------------------------------------------------------
(* The groups find-dupes lists are finite sets of names.                   *)
LEMMA GroupType ==
  ASSUME reached \subseteq Path, NEW G \in Groups
  PROVE  G \in SUBSET Path /\ IsFiniteSet(G) /\ Cardinality(G) \in Nat
<1>1. G \in SUBSET Path
  BY DEF Groups
<1> QED BY <1>1, FS_Subset, FS_CardinalityType

(* A set as a sequence. *)
LEMMA OrderType ==
  ASSUME NEW S, IsFiniteSet(S), NEW s \in SetToSeqs(S)
  PROVE  s \in Seq(S) /\ IsInjective(s)
<1> DEFINE D == 1..Cardinality(S)
<1>1. Cardinality(S) \in Nat
  BY FS_CardinalityType
<1>2. s \in [D -> S] /\ \A i, j \in D : i # j => s[i] # s[j]
  BY DEF SetToSeqs
<1>3. s \in Seq(S)
  BY <1>1, <1>2
<1>4. DOMAIN s = D
  BY <1>2
<1> QED BY <1>2, <1>3, <1>4 DEF IsInjective

(* What a listing is made of: its groups in some order, each in some order *)
(* of its names and followed by a blank line.                              *)
Parts(list, order, s) ==
  /\ order \in Seq(Groups) /\ IsInjective(order)
  /\ s \in Seq(Seq(Path)) /\ Len(s) = Len(order)
  /\ \A i \in 1..Len(s) : IsInjective(s[i]) /\ ToSet(s[i]) = order[i]
  /\ list = FlattenSeq([i \in 1..Len(s) |-> Append(s[i], Blank)])

(* Each listing the model begins with has such parts.                      *)
LEMMA ListingParts ==
  ASSUME reached \subseteq Path, NEW list \in Listings
  PROVE  \E order, s : Parts(list, order, s)
<1>1. PICK order \in SetToSeqs(Groups), f \in Inside : list = Lines(order, f)
  BY DEF Listings
<1>2. IsFiniteSet(Groups)
  <2>1. IsFiniteSet(SUBSET Path)
    BY FS_SUBSET
  <2>2. Groups \in SUBSET (SUBSET Path)
    BY GroupType
  <2> QED BY <2>1, <2>2, FS_Subset
<1>3. order \in Seq(Groups) /\ IsInjective(order)
  BY <1>2, OrderType
<1>4. ASSUME NEW g \in Groups
      PROVE  f[g] \in Seq(Path) /\ IsInjective(f[g]) /\ ToSet(f[g]) = g
  <2>1. PICK h \in Groups : f[g] \in SetToSeqs(h)
    BY DEF Inside
  <2>2. f[g] \in Seq(h) /\ IsInjective(f[g])
    BY <2>1, GroupType, OrderType
  <2>3. f[g] \in Seq(Path)
    BY <2>1, <2>2, GroupType
  <2> QED BY <2>2, <2>3 DEF Inside
<1> DEFINE s == [i \in 1..Len(order) |-> f[order[i]]]
<1>5. \A i \in 1..Len(order) : order[i] \in Groups
  BY <1>3
<1>6. s \in Seq(Seq(Path)) /\ Len(s) = Len(order)
  BY <1>3, <1>4, <1>5
<1>7. \A i \in 1..Len(s) : IsInjective(s[i]) /\ ToSet(s[i]) = order[i]
  BY <1>4, <1>5, <1>6
<1>8. \A i \in 1..Len(order) : s[i] = f[order[i]]
  OBVIOUS
<1> HIDE DEF s
<1>9. list = FlattenSeq([i \in 1..Len(s) |-> Append(s[i], Blank)])
  <2>1. DOMAIN order = 1..Len(order)
    BY <1>3
  <2>2. [i \in DOMAIN order |-> Append(f[order[i]], Blank)]
         = [i \in 1..Len(s) |-> Append(s[i], Blank)]
    BY <2>1, <1>6, <1>8
  <2> QED BY <1>1, <2>2 DEF Lines
<1>10. Parts(list, order, s)
  BY <1>3, <1>6, <1>7, <1>9 DEF Parts
<1> QED BY <1>10

(* So a listing is a sequence of names and blank lines.                    *)
LEMMA ListingType ==
  ASSUME reached \subseteq Path, NEW list \in Listings
  PROVE  list \in Seq(Path \cup {Blank})
<1>1. PICK order, s : Parts(list, order, s)
  BY ListingParts
<1> DEFINE t == [i \in 1..Len(s) |-> Append(s[i], Blank)]
<1>2. s \in Seq(Seq(Path)) /\ list = FlattenSeq(t)
  BY <1>1 DEF Parts
<1>3. \A i \in 1..Len(s) : Append(s[i], Blank) \in Seq(Path \cup {Blank})
  <2> TAKE i \in 1..Len(s)
  <2>1. s[i] \in Seq(Path)
    BY <1>2
  <2>2. s[i] \in Seq(Path \cup {Blank})
    BY <2>1
  <2> QED BY <2>2
<1>4. t \in Seq(Seq(Path \cup {Blank}))
  BY <1>2, <1>3
<1> HIDE DEF t
<1> QED BY <1>2, <1>4, FlattenType

(* And so is one that was cut off, but for the line that has no end.       *)
LEMMA CutOffType ==
  ASSUME reached \subseteq Path, NEW list \in Listings, NEW cut \in CutOff(list)
  PROVE  cut \in Seq(Path \cup {Blank, Cut})
<1>1. list \in Seq(Path \cup {Blank, Cut}) /\ Len(list) \in Nat /\ DOMAIN list = 1..Len(list)
  BY ListingType
<1>2. \A n \in 0..Len(list) : SubSeq(list, 1, n) \in Seq(Path \cup {Blank, Cut})
  BY <1>1
<1>3. CASE cut \in {SubSeq(list, 1, n) : n \in 0..Len(list)}
  BY <1>2, <1>3
<1>4. CASE cut \in {Append(SubSeq(list, 1, n - 1), Cut) :
                      n \in {k \in DOMAIN list : list[k] \in Path}}
  <2>1. PICK n \in DOMAIN list : cut = Append(SubSeq(list, 1, n - 1), Cut)
    BY <1>4
  <2>2. n - 1 \in 0..Len(list)
    BY <1>1
  <2> QED BY <1>2, <2>1, <2>2
<1> QED BY <1>3, <1>4 DEF CutOff

-----------------------------------------------------------------------------
(* No file, list or step is there before the script first runs.            *)
LEMMA InitTypeInv == Init => TypeInv /\ SeenInv
<1> SUFFICES ASSUME Init PROVE TypeInv /\ SeenInv
  OBVIOUS
<1>1. DOMAIN files = Path /\ reached \subseteq Path
  BY CleanDupesAssumption DEF Init
<1>2. TypeOK
  BY <1>1 DEF Init, TypeOK, Stage, Step
<1>3. ListInv
  BY DEF Init, ListInv
<1>4. SeenInv
  BY <1>1 DEF Init, SeenInv
<1> QED BY <1>2, <1>3, <1>4 DEF TypeInv

(* The part of TypeOK that is about the loops of the script.               *)
LoopType == line \in Nat \ {0} /\ group \in Seq(Path \cup {None}) /\ idx \in 0..Len(group)

(* A new directory is the one in use, with a list for it.                  *)
LEMMA NewDirectoryTyped ==
  ASSUME TypeInv, NEW b \in Backup, NEW list, NewDirectory(b, list),
         list = None \/ list \in Seq(Path \cup {Blank, Cut})
  PROVE  /\ made' \subseteq Backup /\ current' \in made'
         /\ dupesLst' # None => dupesLst' \in Seq(Path \cup {Blank, Cut})
         /\ movesLst' = None /\ keepPos' \in KeepPos /\ reached' \subseteq Path
         /\ UNCHANGED fileVars
BY DEF TypeInv, TypeOK, NewDirectory, argVars

(* Every step keeps the types, the lists and the stages together.          *)
LEMMA TypeStep == TypeInv /\ [Next]_vars => TypeInv'
<1> SUFFICES ASSUME TypeInv, [Next]_vars PROVE TypeInv'
  OBVIOUS
<1> USE DEF TypeInv
<1>1. ASSUME NEW some \in SUBSET Step, Run(some) PROVE TypeInv'
  BY <1>1 DEF Run, TypeOK, ListInv, Stage, fileVars, listVars, argVars, loopVars
<1>2. ASSUME NEW p \in Path, NEW d, CreateFile(p, d) PROVE TypeInv'
  BY <1>2 DEF CreateFile, TypeOK, ListInv, fileVars, listVars, argVars, loopVars
<1>3. CASE Stop
  BY <1>3 DEF Stop, Ends, TypeOK, ListInv, Stage, fileVars, listVars, argVars
<1>4. CASE GenDupes
  <2>1. PICK list \in Listings, b \in Backup : NewDirectory(b, list)
    BY <1>4 DEF GenDupes
  <2>2. list \in Seq(Path \cup {Blank, Cut})
    <3>1. list \in Seq(Path \cup {Blank})
      BY ListingType DEF TypeOK
    <3> QED BY <3>1
  <2> QED BY <1>4, <2>1, <2>2, NewDirectoryTyped
          DEF GenDupes, TypeOK, ListInv, Stage, Step, fileVars, loopVars
<1>5. CASE GenDupesStops
  <2>1. PICK list \in {None} \cup UNION {CutOff(l) : l \in Listings}, b \in Backup :
          NewDirectory(b, list)
    BY <1>5 DEF GenDupesStops
  <2>2. list = None \/ list \in Seq(Path \cup {Blank, Cut})
    BY CutOffType DEF TypeOK
  <2> QED BY <1>5, <2>1, <2>2, NewDirectoryTyped
          DEF GenDupesStops, Ends, TypeOK, ListInv, Stage, Step, fileVars
<1>6. CASE GenMoves
  BY <1>6 DEF GenMoves, TypeOK, ListInv, Stage, Line, fileVars, argVars
<1>7. CASE ReadName
  <2>1. Read[dupesLst[line]] \in Path \cup {None}
    BY <1>7 DEF ReadName, Reads
  <2>2. LoopType'
    BY <1>7, <2>1 DEF ReadName, TypeOK, LoopType
  <2> QED BY <1>7, <2>2
          DEF ReadName, Reads, LoopType, TypeOK, ListInv, Stage, fileVars, listVars, argVars
<1>8. CASE ReadGroupEnd
  BY <1>8 DEF ReadGroupEnd, Reads, TypeOK, ListInv, Stage, fileVars, listVars, argVars
<1>9. CASE WriteLine
  <2>1. Append(movesLst, [path |-> group[idx + 1],
                          keep |-> Kept(idx + 1, Len(group))]) \in Seq(Line)
    <3>1. group[idx + 1] \in Path \cup {None}
      BY <1>9 DEF WriteLine, TypeOK
    <3>2. Kept(idx + 1, Len(group)) \in BOOLEAN
      BY DEF Kept
    <3>3. movesLst \in Seq(Line)
      BY <1>9 DEF WriteLine, ListInv
    <3> QED BY <3>1, <3>2, <3>3 DEF Line
  <2> QED BY <1>9, <2>1 DEF WriteLine, TypeOK, ListInv, Stage, Line, fileVars, argVars
<1>10. CASE GroupEnds
  BY <1>10 DEF GroupEnds, TypeOK, ListInv, Stage, fileVars, listVars, argVars
<1>11. CASE GenMovesEnds
  BY <1>11 DEF GenMovesEnds, Pass, TypeOK, ListInv, Stage, Step, fileVars, listVars, argVars
<1>12. CASE MoveFiles
  BY <1>12 DEF MoveFiles, TypeOK, ListInv, Stage, fileVars, listVars, argVars
<1>13. CASE SkipLine
  BY <1>13 DEF SkipLine, TypeOK, ListInv, Stage, fileVars, listVars, argVars
<1>14. ASSUME NEW p \in Path, CopyBegins(p) PROVE TypeInv'
  BY <1>14 DEF CopyBegins, TypeOK, ListInv, Stage, listVars, argVars, loopVars
<1>15. ASSUME NEW p \in Path, Moved(p) PROVE TypeInv'
  BY <1>15 DEF Moved, TypeOK, ListInv, Stage, listVars, argVars
<1>16. CASE MoveFilesEnds
  BY <1>16 DEF MoveFilesEnds, Pass, TypeOK, ListInv, Stage, Step, fileVars, listVars, argVars
<1>17. CASE UNCHANGED vars
  BY <1>17 DEF vars, TypeOK, ListInv, fileVars, listVars, argVars, loopVars
<1> QED BY <1>1, <1>2, <1>3, <1>4, <1>5, <1>6, <1>7, <1>8, <1>9, <1>10, <1>11,
           <1>12, <1>13, <1>14, <1>15, <1>16, <1>17, NewFilesAre DEF Next

(* clean-dupes.sh keeps the types of its files, lists and loops, wherever  *)
(* it is stopped and with whichever step it is started again.              *)
THEOREM TypeCorrect == Spec => []TypeOK
<1>1. Spec => []TypeInv
  BY InitTypeInv, TypeStep, PTL DEF Spec
<1>2. TypeInv => TypeOK
  BY DEF TypeInv
<1> QED BY <1>1, <1>2, PTL

-----------------------------------------------------------------------------
(* Only three steps touch a file: the user makes one, and mv copies one    *)
(* or moves it.                                                            *)
LEMMA FilesChange ==
  ASSUME [Next]_vars
  PROVE  \/ UNCHANGED fileVars
         \/ \E n \in NewFiles : CreateFile(n[1], n[2])
         \/ \E p \in Path : CopyBegins(p) \/ Moved(p)
<1>1. GenDupes \/ GenDupesStops => UNCHANGED fileVars
  BY DEF GenDupes, GenDupesStops, NewDirectory
<1> QED BY <1>1 DEF Next, Run, Stop, GenMoves, ReadName, ReadGroupEnd, WriteLine,
             GroupEnds, GenMovesEnds, MoveFiles, SkipLine, MoveFilesEnds, vars

(* What there has been is not forgotten, and a file that is there has been *)
(* noted.                                                                  *)
LEMMA SeenStep ==
  ASSUME TypeInv, SeenInv, [Next]_vars
  PROVE  SeenInv' /\ seen \subseteq seen'
<1>1. DOMAIN files = Path
  BY DEF TypeInv, TypeOK
<1>2. CASE UNCHANGED fileVars
  BY <1>2 DEF SeenInv, fileVars
<1>3. ASSUME NEW n \in NewFiles, CreateFile(n[1], n[2])
      PROVE  SeenInv' /\ seen \subseteq seen'
  <2> DEFINE p == n[1]  d == n[2]
  <2>1. p \in Path /\ d # None
    BY NewFilesAre
  <2>2. files' = [files EXCEPT ![p] = d] /\ seen' = seen \cup {<<p, d>>}
    BY <1>3 DEF CreateFile
  <2> HIDE DEF p, d
  <2> QED BY <1>1, <2>1, <2>2 DEF SeenInv
<1>4. ASSUME NEW p \in Path, CopyBegins(p) \/ Moved(p)
      PROVE  SeenInv' /\ seen \subseteq seen'
  <2>1. UNCHANGED seen /\ (files' = files \/ files' = [files EXCEPT ![p] = None])
    BY <1>4 DEF CopyBegins, Moved
  <2> QED BY <1>1, <2>1 DEF SeenInv
<1> QED BY <1>2, <1>3, <1>4, FilesChange DEF fileVars

(* mv replaces only what is there under the same name: the file itself.    *)
LEMMA LostStep ==
  ASSUME TypeInv, SeenInv, OneData, NothingLost, [Next]_vars
  PROVE  NothingLost'
<1>1. DOMAIN files = Path /\ DOMAIN store = Backup /\ \A b \in Backup : DOMAIN store[b] = Path
  BY DEF TypeInv, TypeOK
<1>2. CASE UNCHANGED fileVars
  BY <1>2 DEF NothingLost, fileVars
<1>3. ASSUME NEW n \in NewFiles, CreateFile(n[1], n[2]) PROVE NothingLost'
  <2> DEFINE p == n[1]  d == n[2]
  <2>1. p \in Path /\ d # None
    BY NewFilesAre
  <2>2. /\ files[p] = None /\ UNCHANGED store
        /\ files' = [files EXCEPT ![p] = d] /\ seen' = seen \cup {<<p, d>>}
    BY <1>3 DEF CreateFile
  <2> HIDE DEF p, d
  <2>3. ASSUME NEW f \in seen
        PROVE  files'[f[1]] = f[2] \/ \E b \in Backup : store'[b][f[1]] = f[2]
    <3>1. f[1] \in Path /\ f[2] # None
      BY DEF SeenInv
    <3> QED BY <1>1, <2>2, <3>1 DEF NothingLost
  <2>4. files'[<<p, d>>[1]] = <<p, d>>[2]
    BY <1>1, <2>1, <2>2
  <2> QED BY <2>2, <2>3, <2>4 DEF NothingLost
<1>4. ASSUME NEW p \in Path, CopyBegins(p) \/ Moved(p) PROVE NothingLost'
  <2>1. files[p] # None /\ UNCHANGED seen
    BY <1>4 DEF CopyBegins, Moved, Moves
  <2>2. current \in Backup
    BY <1>4 DEF CopyBegins, Moved, TypeInv, TypeOK, ListInv
  <2>3. ASSUME NEW f \in seen, f[1] = p PROVE f[2] = files[p]
    <3>1. <<p, files[p]>> \in seen /\ <<p, files[p]>>[1] = p /\ <<p, files[p]>>[2] = files[p]
      BY <2>1 DEF SeenInv
    <3> QED BY <2>3, <3>1 DEF OneData
  <2>4. CASE CopyBegins(p)
    <3>1. files' = files /\ store' = [store EXCEPT ![current][p] = Partial]
      BY <2>4 DEF CopyBegins, Dest
    <3>2. ASSUME NEW f \in seen
          PROVE  files'[f[1]] = f[2] \/ \E b \in Backup : store'[b][f[1]] = f[2]
      <4>1. CASE f[1] = p
        BY <2>3, <3>1, <4>1
      <4>2. CASE f[1] # p
        <5>1. f[1] \in Path
          BY DEF SeenInv
        <5>2. \A b \in Backup : store'[b][f[1]] = store[b][f[1]]
          BY <1>1, <2>2, <3>1, <4>2, <5>1
        <5> QED BY <3>1, <5>2 DEF NothingLost
      <4> QED BY <4>1, <4>2
    <3> QED BY <2>1, <3>2 DEF NothingLost
  <2>5. CASE Moved(p)
    <3>1. /\ files' = [files EXCEPT ![p] = None]
          /\ store' = [store EXCEPT ![current][p] = files[p]]
      BY <2>5 DEF Moved, Dest
    <3>2. ASSUME NEW f \in seen
          PROVE  files'[f[1]] = f[2] \/ \E b \in Backup : store'[b][f[1]] = f[2]
      <4>1. CASE f[1] = p
        <5>1. store'[current][p] = files[p]
          BY <1>1, <2>2, <3>1
        <5> QED BY <2>2, <2>3, <4>1, <5>1
      <4>2. CASE f[1] # p
        <5>1. f[1] \in Path
          BY DEF SeenInv
        <5>2. \A b \in Backup : store'[b][f[1]] = store[b][f[1]]
          BY <1>1, <2>2, <3>1, <4>2, <5>1
        <5> QED BY <1>1, <3>1, <4>2, <5>1, <5>2 DEF NothingLost
      <4> QED BY <4>1, <4>2
    <3> QED BY <2>1, <3>2 DEF NothingLost
  <2> QED BY <1>4, <2>4, <2>5
<1> QED BY <1>2, <1>3, <1>4, FilesChange

(* As long as no name has stood for two files that differ, every file is   *)
(* whole, in its place or in a backup directory, at every moment: whichever*)
(* steps were interrupted, whatever the lists say and the shell reads.     *)
THEOREM AllKept == Spec => [](OneData => NothingLost)
<1> DEFINE Whole == OneData => NothingLost
<1>1. Init => TypeInv /\ SeenInv /\ Whole
  <2>1. Init => NothingLost
    BY DEF Init, NothingLost
  <2> QED BY <2>1, InitTypeInv
<1>2. TypeInv /\ SeenInv /\ Whole /\ [Next]_vars => (TypeInv /\ SeenInv /\ Whole)'
  <2> SUFFICES ASSUME TypeInv, SeenInv, Whole, [Next]_vars
               PROVE  (TypeInv /\ SeenInv /\ Whole)'
    OBVIOUS
  <2>1. TypeInv' /\ SeenInv' /\ seen \subseteq seen'
    BY TypeStep, SeenStep
  <2>2. OneData' => OneData
    BY <2>1 DEF OneData
  <2>3. OneData' => NothingLost'
    BY <2>2, LostStep
  <2> QED BY <2>1, <2>3
<1> QED BY <1>1, <1>2, PTL DEF Spec

-----------------------------------------------------------------------------
(* The structure of a list of duplicates. *)

(* A list of the groups in H: each is there once, its names are one after  *)
(* another, there are two or more and a blank line ends them.              *)
IsListing(L, H) ==
  /\ L \in Seq(Path \cup {Blank})
  /\ L # <<>> => L[Len(L)] = Blank
  /\ \A i \in DOMAIN L : L[i] \in Path => L[i] \in UNION H
  /\ \A i, j \in DOMAIN L : L[i] \in Path /\ L[i] = L[j] => i = j
  /\ \A i, j \in DOMAIN L : i <= j /\ (\A k \in i..j : L[k] \in Path) =>
       \E G \in H : L[i] \in G /\ L[j] \in G
  /\ \A e \in DOMAIN L : L[e] = Blank => e > 2 /\ L[e - 1] \in Path /\ L[e - 2] \in Path
  /\ \A G \in H : \A i, j \in DOMAIN L :
       i <= j /\ L[i] \in G /\ L[j] \in G => \A k \in i..j : L[k] \in Path

(* The names of a group are all those of some data, and two or more.       *)
LEMMA GroupsAre ==
  ASSUME reached \subseteq Path, NEW G \in Groups
  PROVE  /\ Cardinality(G) > 1
         /\ \A p \in G : /\ p \in reached /\ p \in Path /\ Held(p) # None
                         /\ \A q \in reached : q \in G <=> Held(q) = Held(p)
<1> DEFINE Found == {p \in reached : Held(p) # None}
           Same(p) == {q \in Found : Held(q) = Held(p)}
<1>1. PICK p \in Found : Cardinality(Same(p)) > 1 /\ G = Same(p)
  BY DEF Groups
<1> QED BY <1>1

(* A name is in one group.                                                 *)
LEMMA GroupsApart ==
  ASSUME reached \subseteq Path, NEW G \in Groups, NEW H \in Groups, G # H
  PROVE  G \cap H = {}
<1>1. ASSUME NEW p \in G, p \in H PROVE G = H
  <2>1. G \subseteq reached /\ H \subseteq reached
    BY GroupsAre
  <2>2. \A q \in reached : (q \in G <=> Held(q) = Held(p)) /\ (q \in H <=> Held(q) = Held(p))
    BY <1>1, GroupsAre
  <2> QED BY <2>1, <2>2
<1> QED BY <1>1

(* A listing grows by a group at its end.                                  *)
LEMMA ListingGrows ==
  ASSUME NEW L, NEW H \in SUBSET SUBSET Path, IsListing(L, H),
         NEW G \in SUBSET Path, G \cap UNION H = {},
         NEW w \in Seq(Path), IsInjective(w), ToSet(w) = G, Len(w) > 1
  PROVE  IsListing(L \o Append(w, Blank), H \cup {G})
<1> DEFINE M == L \o Append(w, Blank)
           a == Len(L)
           b == Len(w)
<1>1. L \in Seq(Path \cup {Blank}) /\ a \in Nat /\ DOMAIN L = 1..a /\ b \in Nat
  BY DEF IsListing
<1>2. /\ M \in Seq(Path \cup {Blank}) /\ Len(M) = a + b + 1 /\ DOMAIN M = 1..(a + b + 1)
      /\ \A i \in 1..a : M[i] = L[i]
      /\ \A i \in 1..b : M[a + i] = w[i]
      /\ M[a + b + 1] = Blank
  <2>1. /\ Append(w, Blank) \in Seq(Path \cup {Blank}) /\ Len(Append(w, Blank)) = b + 1
        /\ \A i \in 1..b : Append(w, Blank)[i] = w[i]
        /\ Append(w, Blank)[b + 1] = Blank
    OBVIOUS
  <2> DEFINE v == Append(w, Blank)
  <2> HIDE DEF v
  <2> QED BY <1>1, <2>1 DEF v
<1> HIDE DEF M
<1>3. Blank \notin Path
  OBVIOUS
<1>4. /\ \A i \in 1..b : w[i] \in G
      /\ \A i, j \in 1..b : w[i] = w[j] => i = j
  BY DEF ToSet, IsInjective
<1> HIDE DEF a, b
<1>5. \A i \in (a + 1)..(a + b) :
        i - a \in 1..b /\ M[i] = w[i - a] /\ M[i] \in G /\ M[i] \in Path
  <2> TAKE i \in (a + 1)..(a + b)
  <2>1. i - a \in 1..b /\ a + (i - a) = i
    BY <1>1
  <2> QED BY <1>2, <1>4, <2>1
<1>6. \A i \in 1..a : M[i] \notin G
  BY <1>1, <1>2, <1>3 DEF IsListing
<1>7. a > 0 => M[a] = Blank
  <2>1. a > 0 => a \in 1..a /\ L # <<>>
    BY <1>1 DEF a
  <2>2. L # <<>> => L[a] = Blank
    BY DEF IsListing, a
  <2> QED BY <1>2, <2>1, <2>2
<1>8. \A i \in DOMAIN M : \/ i \in 1..a \/ i \in (a + 1)..(a + b) \/ i = a + b + 1
  BY <1>1, <1>2
<1>9. M # <<>> => M[Len(M)] = Blank
  BY <1>2
<1>10. ASSUME NEW i \in DOMAIN M, M[i] \in Path PROVE M[i] \in UNION (H \cup {G})
  <2>1. CASE i \in 1..a
    BY <1>1, <1>2, <1>10, <2>1 DEF IsListing
  <2>2. CASE i \in (a + 1)..(a + b)
    BY <1>5, <2>2
  <2> QED BY <1>2, <1>3, <1>8, <1>10, <2>1, <2>2
<1>11. ASSUME NEW i \in DOMAIN M, NEW j \in DOMAIN M, M[i] \in Path, M[i] = M[j]
       PROVE  i = j
  <2>1. CASE i \in 1..a /\ j \in 1..a
    BY <1>1, <1>2, <1>11, <2>1 DEF IsListing
  <2>2. CASE i \in (a + 1)..(a + b) /\ j \in (a + 1)..(a + b)
    <3>1. i - a = j - a
      BY <1>4, <1>5, <1>11, <2>2
    <3> QED BY <1>1, <2>2, <3>1
  <2> QED BY <1>2, <1>3, <1>5, <1>6, <1>8, <1>11, <2>1, <2>2
<1>12. ASSUME NEW i \in DOMAIN M, NEW j \in DOMAIN M, i <= j, \A k \in i..j : M[k] \in Path
       PROVE  \E K \in H \cup {G} : M[i] \in K /\ M[j] \in K
  <2>1. i \in i..j /\ j \in i..j /\ (a \in i..j => a > 0) /\ i \in Nat /\ j \in Nat
    BY <1>1, <1>2, <1>12
  <2>2. CASE j \in 1..a
    <3>1. i \in 1..a /\ \A k \in i..j : M[k] = L[k]
      BY <1>1, <1>2, <1>12, <2>1, <2>2
    <3>2. \A k \in i..j : L[k] \in Path
      BY <1>12, <3>1
    <3>3. PICK K \in H : L[i] \in K /\ L[j] \in K
      <4>1. i \in DOMAIN L /\ j \in DOMAIN L
        BY <1>1, <2>2, <3>1
      <4> QED BY <1>12, <3>2, <4>1 DEF IsListing
    <3> QED BY <2>1, <3>1, <3>3
  <2>3. CASE i \in (a + 1)..(a + b) /\ j \in (a + 1)..(a + b)
    BY <1>5, <2>3
  <2>4. CASE i \in 1..a /\ j \in (a + 1)..(a + b)
    <3>1. a \in i..j
      BY <1>1, <2>4
    <3> QED BY <1>3, <1>7, <1>12, <2>1, <3>1
  <2> QED BY <1>1, <1>2, <1>3, <1>8, <1>12, <2>1, <2>2, <2>3, <2>4
<1>13. ASSUME NEW e \in DOMAIN M, M[e] = Blank
       PROVE  e > 2 /\ M[e - 1] \in Path /\ M[e - 2] \in Path
  <2>1. CASE e \in 1..a
    <3>1. e > 2 /\ L[e - 1] \in Path /\ L[e - 2] \in Path
      BY <1>1, <1>2, <1>13, <2>1 DEF IsListing
    <3>2. e - 1 \in 1..a /\ e - 2 \in 1..a
      BY <1>1, <2>1, <3>1
    <3> QED BY <1>2, <3>1, <3>2
  <2>2. CASE e = a + b + 1
    <3>1. e - 1 \in (a + 1)..(a + b) /\ e - 2 \in (a + 1)..(a + b) /\ e > 2
      BY <1>1, <2>2 DEF b
    <3> QED BY <1>5, <3>1
  <2> QED BY <1>3, <1>5, <1>8, <1>13, <2>1, <2>2
<1>14. ASSUME NEW K \in H \cup {G}, NEW i \in DOMAIN M, NEW j \in DOMAIN M,
              i <= j, M[i] \in K, M[j] \in K, NEW k \in i..j
       PROVE  M[k] \in Path
  <2>1. i \in Nat /\ j \in Nat /\ k \in Nat /\ Blank \notin G
    BY <1>2, <1>3
  <2>2. CASE K = G
    <3>1. i \in (a + 1)..(a + b) /\ j \in (a + 1)..(a + b)
      BY <1>2, <1>6, <1>8, <1>14, <2>1, <2>2
    <3>2. k \in (a + 1)..(a + b)
      BY <1>1, <2>1, <3>1
    <3> QED BY <1>5, <3>2
  <2>3. CASE K \in H
    <3>1. (\A x \in K : x \notin G) /\ Blank \notin K
      BY <1>3, <2>3
    <3>2. i \in 1..a /\ j \in 1..a
      BY <1>2, <1>5, <1>8, <1>14, <3>1
    <3>3. k \in 1..a /\ L[i] \in K /\ L[j] \in K
      BY <1>1, <1>2, <1>14, <2>1, <3>2
    <3>4. L[k] \in Path
      BY <1>1, <1>14, <2>3, <3>2, <3>3 DEF IsListing
    <3> QED BY <1>2, <3>3, <3>4
  <2> QED BY <2>2, <2>3
<1>15. IsListing(M, H \cup {G})
  BY <1>2, <1>9, <1>10, <1>11, <1>12, <1>13, <1>14, SMTT(30) DEF IsListing
<1> QED BY <1>15 DEF M
(* A list of find-dupes is such a list of some of the groups there are.    *)
LEMMA ListingShape ==
  ASSUME reached \subseteq Path, NEW list \in Listings
  PROVE  \E H \in SUBSET Groups : IsListing(list, H)
<1>1. PICK order, s : Parts(list, order, s)
  BY ListingParts
<1>2. /\ order \in Seq(Groups) /\ IsInjective(order)
      /\ s \in Seq(Seq(Path)) /\ Len(s) = Len(order) /\ Len(s) \in Nat
      /\ \A i \in 1..Len(s) : IsInjective(s[i]) /\ ToSet(s[i]) = order[i]
  BY <1>1 DEF Parts
<1> DEFINE t == [i \in 1..Len(s) |-> Append(s[i], Blank)]
           S(n) == {order[i] : i \in 1..n}
<1>3. list = FlattenSeq(t)
  BY <1>1 DEF Parts
<1>4. t \in Seq(Seq(Path \cup {Blank})) /\ Len(t) = Len(s)
  <2>1. \A i \in 1..Len(s) : Append(s[i], Blank) \in Seq(Path \cup {Blank})
    <3> TAKE i \in 1..Len(s)
    <3>1. s[i] \in Seq(Path)
      BY <1>2
    <3>2. s[i] \in Seq(Path \cup {Blank})
      BY <3>1
    <3> QED BY <3>2
  <2> QED BY <1>2, <2>1
<1>5. \A i \in 1..Len(s) : t[i] = Append(s[i], Blank)
  OBVIOUS
<1> HIDE DEF t
<1>6. IsListing(<<>>, {})
  BY DEF IsListing
<1>7. ASSUME NEW n \in Nat, n + 1 \in 1..Len(s), NEW L, IsListing(L, S(n))
      PROVE  IsListing(L \o t[n + 1], S(n + 1))
  <2> DEFINE w == s[n + 1]  G == order[n + 1]
  <2>1. G \in Groups /\ G \in SUBSET Path /\ Cardinality(G) > 1
    <3>1. G \in Groups
      BY <1>2, <1>7
    <3> QED BY <3>1, GroupType, GroupsAre
  <2>2. w \in Seq(Path) /\ IsInjective(w) /\ ToSet(w) = G
    BY <1>2, <1>7
  <2>3. Len(w) > 1
    BY <2>1, <2>2, LengthIsSize
  <2>4. S(n) \in SUBSET SUBSET Path /\ \A K \in S(n) : G \cap K = {}
    <3> SUFFICES ASSUME NEW i \in 1..n PROVE order[i] \in SUBSET Path /\ G \cap order[i] = {}
      OBVIOUS
    <3>1. i \in DOMAIN order /\ n + 1 \in DOMAIN order /\ i # n + 1 /\ order[i] \in Groups
      BY <1>2, <1>7
    <3>2. order[i] # G
      BY <3>1, <1>2 DEF IsInjective
    <3> QED BY <2>1, <3>1, <3>2, GroupType, GroupsApart
  <2>5. G \cap UNION S(n) = {}
    BY <2>4
  <2>6. S(n + 1) = S(n) \cup {G}
    OBVIOUS
  <2>7. t[n + 1] = Append(w, Blank)
    BY <1>5, <1>7
  <2> HIDE DEF w, G, S
  <2>8. IsListing(L \o Append(w, Blank), S(n) \cup {G})
    BY <1>7, <2>1, <2>2, <2>3, <2>4, <2>5, ListingGrows
  <2> QED BY <2>6, <2>7, <2>8
<1>8. CASE Len(s) = 0
  <2>1. t = <<>>
    BY <1>4, <1>8
  <2>2. list = <<>>
    BY <1>3, <2>1 DEF FlattenSeq
  <2> QED BY <1>6, <2>2
<1>9. CASE Len(s) # 0
  <2>1. PICK g : /\ g[1] = t[1] /\ g[Len(t)] = FlattenSeq(t)
                 /\ \A i \in 1..(Len(t) - 1) : g[i + 1] = g[i] \o t[i + 1]
    BY <1>4, <1>9, FlattenSteps
  <2> DEFINE Good == {n \in Nat : n \in 1..Len(s) => IsListing(g[n], S(n))}
  <2>2. 0 \in Good
    OBVIOUS
  <2>3. ASSUME NEW n \in Nat, n \in Good PROVE n + 1 \in Good
    <3> SUFFICES ASSUME n + 1 \in 1..Len(s) PROVE IsListing(g[n + 1], S(n + 1))
      OBVIOUS
    <3>1. CASE n = 0
      <4>1. S(n) = {}
        BY <3>1
      <4>2. t[n + 1] \in Seq(Path \cup {Blank}) /\ n + 1 = 1
        BY <1>4, <3>1
      <4>3. <<>> \o t[n + 1] = t[n + 1]
        BY <4>2
      <4> HIDE DEF S
      <4>4. IsListing(<<>> \o t[n + 1], S(n + 1))
        BY <1>6, <1>7, <4>1
      <4> QED BY <2>1, <4>2, <4>3, <4>4
    <3>2. CASE n # 0
      <4>1. IsListing(g[n], S(n))
        BY <2>3, <3>2
      <4> HIDE DEF S
      <4>2. IsListing(g[n] \o t[n + 1], S(n + 1))
        BY <1>7, <4>1
      <4>3. g[n + 1] = g[n] \o t[n + 1]
        <5>1. n \in 1..(Len(t) - 1)
          BY <1>2, <1>4, <3>2
        <5> QED BY <2>1, <5>1
      <4> QED BY <4>2, <4>3
    <3> QED BY <3>1, <3>2
  <2> HIDE DEF Good
  <2>4. Nat \subseteq Good
    BY <2>2, <2>3, NaturalInduction
  <2>5. IsListing(list, S(Len(s)))
    <3> HIDE DEF S
    <3>1. Len(s) \in Good /\ Len(s) \in 1..Len(s)
      BY <1>2, <1>9, <2>4
    <3>2. IsListing(g[Len(s)], S(Len(s)))
      BY <3>1 DEF Good
    <3> QED BY <1>3, <1>4, <2>1, <3>2
  <2>6. S(Len(s)) \in SUBSET Groups
    BY <1>2
  <2> QED BY <2>5, <2>6
<1> QED BY <1>8, <1>9

(* The names at positions s to e - 1 are a group, which line e ends.       *)
IsGroup(L, s, e) ==
  /\ e \in DOMAIN L /\ L[e] \notin Path
  /\ s \in 1..(e - 1)
  /\ \A k \in s..(e - 1) : L[k] \in Path
  /\ s = 1 \/ L[s - 1] \notin Path

(* The positions whose files are to be moved, their names and the files.   *)
Goes(L) ==
  {i \in DOMAIN L : \E s, e \in DOMAIN L : /\ IsGroup(L, s, e) /\ i \in s..(e - 1)
                                           /\ ~ Kept(i - s + 1, e - s)}
GoesNames(L) == {L[i] : i \in Goes(L)}
GoesFiles(L) == {Real[L[i]] : i \in Goes(L)}

(* L is the beginning of list, or ends in a line that should be a name.    *)
IsCut(L, list) ==
  /\ L \in Seq(Path \cup {Blank, Cut})
  /\ Len(L) <= Len(list)
  /\ \A i \in DOMAIN L :
       L[i] = list[i] \/ (i = Len(L) /\ L[i] = Cut /\ list[i] \in Path)

(* A list that was cut off is one of these, and so is the whole list.      *)
LEMMA CutOffIsCut ==
  ASSUME reached \subseteq Path, NEW list \in Listings, NEW L, L = list \/ L \in CutOff(list)
  PROVE  IsCut(L, list)
<1>1. /\ list \in Seq(Path \cup {Blank, Cut}) /\ Len(list) \in Nat
      /\ DOMAIN list = 1..Len(list)
  BY ListingType
<1>2. CASE L = list
  BY <1>1, <1>2 DEF IsCut
<1>3. CASE L \in {SubSeq(list, 1, n) : n \in 0..Len(list)}
  <2>1. PICK n \in 0..Len(list) : L = SubSeq(list, 1, n)
    BY <1>3
  <2>2. /\ L \in Seq(Path \cup {Blank, Cut}) /\ Len(L) = n
        /\ \A i \in 1..n : L[i] = list[i]
    <3>1. 1 \in Nat /\ n \in Nat /\ n <= Len(list)
      BY <1>1
    <3>2. L = [i \in 1..n |-> list[i]]
      BY <1>1, <2>1, <3>1
    <3> QED BY <1>1, <3>1, <3>2
  <2> QED BY <1>1, <2>2 DEF IsCut
<1>4. CASE L \in {Append(SubSeq(list, 1, n - 1), Cut) :
                    n \in {k \in DOMAIN list : list[k] \in Path}}
  <2>1. PICK n \in DOMAIN list : list[n] \in Path /\ L = Append(SubSeq(list, 1, n - 1), Cut)
    BY <1>4
  <2> DEFINE M == SubSeq(list, 1, n - 1)
  <2>2. /\ M \in Seq(Path \cup {Blank, Cut}) /\ Len(M) = n - 1
        /\ \A i \in 1..(n - 1) : M[i] = list[i]
    BY <1>1, <2>1
  <2> HIDE DEF M
  <2>3. /\ L \in Seq(Path \cup {Blank, Cut}) /\ Len(L) = n /\ L[n] = Cut
        /\ \A i \in 1..(n - 1) : L[i] = list[i]
    BY <1>1, <2>1, <2>2 DEF M
  <2> QED BY <1>1, <2>1, <2>3 DEF IsCut
<1> QED BY <1>2, <1>3, <1>4 DEF CutOff

(* A position is in one group.                                             *)
LEMMA OneGroup ==
  ASSUME NEW L, NEW n \in Nat, DOMAIN L = 1..n,
         NEW s \in DOMAIN L, NEW e \in DOMAIN L, NEW t \in DOMAIN L, NEW d \in DOMAIN L,
         IsGroup(L, s, e), IsGroup(L, t, d), NEW i \in s..(e - 1), i \in t..(d - 1)
  PROVE  s = t /\ e = d
<1>1. ~ (e < d) /\ ~ (d < e)
  BY DEF IsGroup
<1>2. ASSUME s < t PROVE FALSE
  <2>1. t - 1 \in s..(e - 1) /\ t # 1
    BY <1>2
  <2> QED BY <2>1 DEF IsGroup
<1>3. ASSUME t < s PROVE FALSE
  <2>1. s - 1 \in t..(d - 1) /\ s # 1
    BY <1>3
  <2> QED BY <2>1 DEF IsGroup
<1> QED BY <1>1, <1>2, <1>3

(* Of the names of each group whose files are to be moved one more does    *)
(* not go that has the same data, wherever the list was cut.               *)
LEMMA ListKeeps ==
  ASSUME TypeOK, NEW list \in Listings, NEW L, IsCut(L, list), NEW i \in Goes(L)
  PROVE  /\ L[i] \in reached /\ Held(L[i]) # None
         /\ \E q \in reached : Held(q) = Held(L[i]) /\ q \notin GoesNames(L)
<1>0. reached \subseteq Path
  BY DEF TypeOK
<1>1. PICK H \in SUBSET Groups : IsListing(list, H)
  BY <1>0, ListingShape
<1> DEFINE n == Len(L)  m == Len(list)
<1>2. /\ n \in Nat /\ m \in Nat /\ n <= m /\ DOMAIN L = 1..n /\ DOMAIN list = 1..m
      /\ \A j \in 1..n : L[j] = list[j] \/ (j = n /\ L[j] = Cut /\ list[j] \in Path)
      /\ \A j \in 1..m : list[j] \in Path \/ list[j] = Blank
  BY <1>1 DEF IsCut, IsListing
<1> HIDE DEF n, m
<1>3. PICK s \in 1..n, e \in 1..n :
        IsGroup(L, s, e) /\ i \in s..(e - 1) /\ ~ Kept(i - s + 1, e - s)
  BY <1>2 DEF Goes
<1>4. /\ L[e] \notin Path /\ s < e /\ (\A k \in s..(e - 1) : L[k] \in Path)
      /\ s = 1 \/ L[s - 1] \notin Path
  BY <1>3 DEF IsGroup
<1>5. Blank \notin Path /\ Cut \notin Path
  OBVIOUS
<1>6. \A j \in 1..n : L[j] \in Path => list[j] = L[j]
  BY <1>2, <1>5
<1>7. \A j, k \in 1..m : list[j] \in Path /\ list[j] = list[k] => j = k
  BY <1>1, <1>2 DEF IsListing
<1>8. \A j \in Goes(L) : j \in 1..n /\ L[j] \in Path
  BY <1>2 DEF Goes, IsGroup
<1>9. ASSUME NEW a \in 1..m, NEW b \in 1..m, a <= b, \A k \in a..b : list[k] \in Path
      PROVE  /\ list[a] \in reached /\ list[b] \in reached
             /\ Held(list[a]) # None /\ Held(list[a]) = Held(list[b])
  <2>1. \A x, y \in DOMAIN list : x <= y /\ (\A k \in x..y : list[k] \in Path) =>
          \E G \in H : list[x] \in G /\ list[y] \in G
    BY <1>1 DEF IsListing
  <2>2. PICK G \in H : list[a] \in G /\ list[b] \in G
    BY <1>2, <1>9, <2>1
  <2> QED BY <1>0, <2>2, GroupsAre
<1>10. \A k \in s..(e - 1) : k \in 1..n /\ k \in 1..m /\ list[k] = L[k] /\ list[k] \in Path
  BY <1>2, <1>4, <1>6
<1>11. L[i] \in reached /\ Held(L[i]) # None
  <2>1. i \in 1..m /\ i <= i /\ \A k \in i..i : list[k] \in Path
    BY <1>3, <1>10
  <2> QED BY <1>3, <1>9, <1>10, <2>1
<1>12. \A k \in s..(e - 1) : L[k] \in reached /\ Held(L[k]) = Held(L[i])
  <2> TAKE k \in s..(e - 1)
  <2>1. CASE k <= i
    <3>1. \A x \in k..i : list[x] \in Path
      BY <1>3, <1>10, <2>1
    <3> QED BY <1>3, <1>9, <1>10, <2>1, <3>1
  <2>2. CASE i <= k
    <3>1. \A x \in i..k : list[x] \in Path
      BY <1>3, <1>10, <2>2
    <3> QED BY <1>3, <1>9, <1>10, <2>2, <3>1
  <2> QED BY <1>3, <2>1, <2>2
<1>13. CASE L[e] = Cut
  <2>1. e = n /\ list[e] \in Path /\ e \in 1..m
    <3>1. Cut # Blank
      BY DEF Cut, Blank
    <3> QED BY <1>2, <1>3, <1>5, <1>13, <3>1
  <2>2. list[e] \in reached /\ Held(list[e]) = Held(L[i])
    <3>1. \A x \in i..e : list[x] \in Path
      BY <1>3, <1>10, <2>1
    <3>2. i \in 1..m /\ i <= e /\ list[i] = L[i]
      BY <1>3, <1>10
    <3> QED BY <1>9, <2>1, <3>1, <3>2
  <2>3. list[e] \notin GoesNames(L)
    <3>1. ASSUME NEW j \in Goes(L), L[j] = list[e] PROVE FALSE
      <4>1. j = e
        BY <1>2, <1>6, <1>7, <1>8, <2>1, <3>1
      <4> QED BY <1>4, <1>8, <4>1
    <3> QED BY <3>1 DEF GoesNames
  <2> QED BY <1>11, <2>1, <2>2, <2>3
<1>14. CASE L[e] # Cut
  <2>1. list[e] = Blank /\ e \in 1..m
    BY <1>2, <1>4, <1>14
  <2>2. e > 2 /\ list[e - 1] \in Path /\ list[e - 2] \in Path
    BY <1>1, <1>2, <2>1 DEF IsListing
  <2>3. s <= e - 2
    <3> SUFFICES ASSUME s = e - 1 PROVE FALSE
      BY <1>4
    <3>1. s # 1 /\ s - 1 \in 1..n /\ s - 1 # n /\ s - 1 = e - 2
      BY <1>2, <1>3, <2>2
    <3>2. L[s - 1] = list[e - 2]
      BY <1>2, <3>1
    <3> QED BY <1>4, <2>2, <3>1, <3>2
  <2>4. PICK c \in s..(e - 1) : Kept(c - s + 1, e - s)
    <3>1. keepPos \in {"all", "1", "2", "last"}
      BY DEF TypeOK
    <3>2. CASE keepPos \in {"all", "1"}
      <4>1. Kept(s - s + 1, e - s) /\ s \in s..(e - 1)
        BY <1>4, <3>2 DEF Kept
      <4> QED BY <4>1
    <3>3. CASE keepPos = "2"
      <4>1. Kept((s + 1) - s + 1, e - s) /\ s + 1 \in s..(e - 1)
        BY <2>3, <3>3 DEF Kept
      <4> QED BY <4>1
    <3>4. CASE keepPos = "last"
      <4>1. Kept((e - 1) - s + 1, e - s) /\ e - 1 \in s..(e - 1)
        BY <1>4, <3>4 DEF Kept
      <4> QED BY <4>1
    <3> QED BY <3>1, <3>2, <3>3, <3>4
  <2>5. L[c] \notin GoesNames(L)
    <3>1. ASSUME NEW j \in Goes(L), L[j] = L[c] PROVE FALSE
      <4>1. j = c
        BY <1>2, <1>6, <1>7, <1>8, <1>10, <3>1
      <4>2. PICK t \in 1..n, d \in 1..n :
              IsGroup(L, t, d) /\ j \in t..(d - 1) /\ ~ Kept(j - t + 1, d - t)
        BY <1>2 DEF Goes
      <4>3. s = t /\ e = d
        <5>1. c \in s..(e - 1) /\ c \in t..(d - 1) /\ n \in Nat /\ DOMAIN L = 1..n
          BY <1>2, <2>4, <4>1, <4>2
        <5> QED BY <1>3, <4>2, <5>1, OneGroup
      <4> QED BY <2>4, <4>1, <4>2, <4>3
    <3> QED BY <3>1 DEF GoesNames
  <2> QED BY <1>10, <1>11, <1>12, <2>5
<1> QED BY <1>13, <1>14

(* Two files of a whole list with the same data are of one group, and at   *)
(* most one of them stays.                                                 *)
LEMMA ListParts ==
  ASSUME TypeOK, keepPos # "all", NEW list \in Listings,
         NEW i \in DOMAIN list, NEW j \in DOMAIN list, i < j,
         list[i] \in Path, list[j] \in Path, Held(list[i]) = Held(list[j])
  PROVE  i \in Goes(list) \/ j \in Goes(list)
<1>0. reached \subseteq Path
  BY DEF TypeOK
<1>1. PICK H \in SUBSET Groups : IsListing(list, H)
  BY <1>0, ListingShape
<1> DEFINE m == Len(list)
<1>2. /\ m \in Nat /\ DOMAIN list = 1..m
      /\ \A k \in 1..m : list[k] \in Path \/ list[k] = Blank
      /\ list[m] = Blank
  <2>1. list \in Seq(Path \cup {Blank}) /\ (list # <<>> => list[m] = Blank)
    BY <1>1 DEF IsListing
  <2> QED BY <2>1
<1> HIDE DEF m
<1>3. Blank \notin Path
  OBVIOUS
<1>4. \A k \in i..j : list[k] \in Path
  <2>1. \A k \in DOMAIN list : list[k] \in Path => list[k] \in UNION H
    BY <1>1 DEF IsListing
  <2>2. PICK G \in H : list[i] \in G
    BY <2>1
  <2>3. list[j] \in G
    <3>1. list[j] \in reached
      BY <1>0, <2>1, GroupsAre
    <3> QED BY <1>0, <2>2, <3>1, GroupsAre
  <2>4. \A x, y \in DOMAIN list :
          x <= y /\ list[x] \in G /\ list[y] \in G => \A k \in x..y : list[k] \in Path
    BY <1>1 DEF IsListing
  <2>5. i <= j
    BY <1>2
  <2> QED BY <2>2, <2>3, <2>4, <2>5
<1>5. PICK e \in 1..m : j < e /\ list[e] = Blank /\ \A k \in j..(e - 1) : list[k] \in Path
  <2> DEFINE T == {k \in 1..m : j < k /\ list[k] = Blank}
  <2>1. m \in T
    BY <1>2, <1>3
  <2>2. T \in SUBSET Nat
    BY <1>2
  <2> HIDE DEF T
  <2>3. PICK e \in T : \A k \in T : e <= k
    BY <2>1, <2>2, LeastNatural
  <2>4. e \in 1..m /\ j < e /\ list[e] = Blank
    BY DEF T
  <2>5. ASSUME NEW k \in j..(e - 1) PROVE list[k] \in Path
    <3>1. k \in 1..m /\ k < e
      BY <1>2, <2>4
    <3>2. k \notin T
      BY <1>2, <2>3, <2>4, <3>1
    <3> QED BY <1>2, <3>1, <3>2 DEF T
  <2> QED BY <2>4, <2>5
<1>6. PICK s \in 1..i : (s = 1 \/ list[s - 1] \notin Path) /\ \A k \in s..i : list[k] \in Path
  <2> DEFINE T == {k \in 1..i : \A x \in k..i : list[x] \in Path}
  <2>1. i \in T
    BY <1>2
  <2>2. T \in SUBSET Nat
    BY <1>2
  <2> HIDE DEF T
  <2>3. PICK s \in T : \A k \in T : s <= k
    BY <2>1, <2>2, LeastNatural
  <2>4. s \in 1..i /\ \A k \in s..i : list[k] \in Path
    BY DEF T
  <2>5. ASSUME s # 1, list[s - 1] \in Path PROVE FALSE
    <3>1. s - 1 \in 1..i
      BY <1>2, <2>4, <2>5
    <3>2. \A x \in (s - 1)..i : x = s - 1 \/ x \in s..i
      BY <1>2, <2>4
    <3>3. s - 1 \in T
      BY <2>4, <2>5, <3>1, <3>2 DEF T
    <3> QED BY <2>3, <2>4, <3>3
  <2> QED BY <2>4, <2>5
<1>7. \A k \in s..(e - 1) : list[k] \in Path
  <2> TAKE k \in s..(e - 1)
  <2>1. k \in s..i \/ k \in i..j \/ k \in j..(e - 1)
    BY <1>2
  <2> QED BY <1>4, <1>5, <1>6, <2>1
<1>8. IsGroup(list, s, e) /\ s \in DOMAIN list /\ i \in s..(e - 1) /\ j \in s..(e - 1)
  BY <1>2, <1>3, <1>5, <1>6, <1>7 DEF IsGroup
<1>9. ~ Kept(i - s + 1, e - s) \/ ~ Kept(j - s + 1, e - s)
  <2>1. i \in Nat /\ j \in Nat /\ s \in Nat /\ e \in Nat
    BY <1>2
  <2> QED BY <2>1 DEF Kept
<1> QED BY <1>2, <1>8, <1>9 DEF Goes

(* What is listed is reached and there.                                    *)
LEMMA ListedThere ==
  ASSUME reached \subseteq Path, NEW list \in Listings,
         NEW i \in DOMAIN list, list[i] \in Path
  PROVE  list[i] \in reached /\ Held(list[i]) # None
<1>1. PICK H \in SUBSET Groups : IsListing(list, H)
  BY ListingShape
<1>2. PICK G \in H : list[i] \in G
  BY <1>1 DEF IsListing
<1> QED BY <1>2, GroupsAre

-----------------------------------------------------------------------------
(* What the lists say of the files. *)

(* What is listed was reached, and where no two names are one file, of     *)
(* each file that is to be moved another stays that has its data.          *)
DupesInv ==
  dupesLst # None =>
    /\ \A i \in DOMAIN dupesLst :
         dupesLst[i] \in Path =>
           dupesLst[i] \in reached /\ \E f \in seen : f[1] = Real[dupesLst[i]]
    /\ NoOverlap => \A i \in Goes(dupesLst) : \E f \in seen, q \in Path :
         f[1] = Real[dupesLst[i]] /\ files[q] = f[2] /\ q \notin GoesFiles(dupesLst)

(* The moves list has no name that does not go.                            *)
MovesInv ==
  movesLst # None \/ stage \in {"read", "group"} =>
    /\ dupesLst # None
    /\ \A l \in DOMAIN movesLst :
         ~ movesLst[l].keep /\ movesLst[l].path # None =>
           movesLst[l].path \in GoesNames(dupesLst)

(* Position i of the list of duplicates has its line in the moves list.    *)
Written(i) ==
  \E l \in DOMAIN movesLst :
    ~ movesLst[l].keep /\ movesLst[l].path = Read[dupesLst[i]]

(* The position of the first name of the group that is read or written.    *)
At == IF stage = "group" THEN line - 1 - Len(group) ELSE line - Len(group)

(* Where generate_moves is in the list, and what it has written so far.    *)
ReadInv ==
  stage \in {"read", "group"} =>
    /\ At >= 1 /\ line - 1 <= Len(dupesLst)
    /\ At = 1 \/ dupesLst[At - 1] \notin Path
    /\ \A k \in 1..Len(group) : dupesLst[At + k - 1] \in Path
                                /\ group[k] = Read[dupesLst[At + k - 1]]
    /\ stage = "read" => idx = 0
    /\ stage = "group" => group # <<>> /\ dupesLst[line - 1] \notin Path
    /\ \A i \in Goes(dupesLst) : i < At + idx => Written(i)
    /\ passed \cap {"moves", "move"} = {}

(* A moves list that was finished is complete.                             *)
DoneInv == "moves" \in passed => \A i \in Goes(dupesLst) : Written(i)

(* The sources and --keep-pos are what they were, and the list of          *)
(* duplicates changes only with a new one.                                 *)
LEMMA ListChange ==
  ASSUME [Next]_vars
  PROVE  /\ keepPos' = keepPos /\ reached' = reached
         /\ (NoOverlap' <=> NoOverlap) /\ (ReadsNames' <=> ReadsNames)
         /\ GenDupes \/ GenDupesStops \/ UNCHANGED <<made, current, dupesLst>>
<1>1. /\ keepPos' = keepPos /\ reached' = reached
      /\ GenDupes \/ GenDupesStops \/ UNCHANGED <<made, current, dupesLst>>
  BY DEF Next, Run, CreateFile, Stop, GenDupes, GenDupesStops, NewDirectory, GenMoves,
         ReadName, ReadGroupEnd, WriteLine, GroupEnds, GenMovesEnds, MoveFiles, SkipLine,
         CopyBegins, Moved, MoveFilesEnds, vars, listVars, argVars, fileVars
<1> QED BY <1>1 DEF NoOverlap, ReadsNames

(* What is to be moved depends on the list and --keep-pos alone.           *)
LEMMA SameList ==
  ASSUME UNCHANGED <<dupesLst, keepPos>>
  PROVE  /\ Goes(dupesLst)' = Goes(dupesLst)
         /\ GoesNames(dupesLst)' = GoesNames(dupesLst)
         /\ GoesFiles(dupesLst)' = GoesFiles(dupesLst)
BY DEF Goes, GoesNames, GoesFiles, IsGroup, Kept

(* A new list names files that are there, and one of each group stays.     *)
LEMMA NewList ==
  ASSUME TypeOK, SeenInv, NEW list \in Listings, NEW L, L = None \/ IsCut(L, list),
         NEW b \in Backup, NewDirectory(b, L)
  PROVE  DupesInv' /\ (stage' \notin {"read", "group"} => MovesInv')
<1>1. dupesLst' = L /\ movesLst' = None /\ UNCHANGED <<files, seen, keepPos, reached>>
  BY DEF NewDirectory, fileVars, argVars
<1>2. Goes(dupesLst)' = Goes(L) /\ GoesFiles(dupesLst)' = GoesFiles(L)
  BY <1>1 DEF Goes, GoesFiles, IsGroup, Kept
<1>3. ASSUME L # None PROVE DupesInv'
  <2>0. reached \subseteq Path
    BY DEF TypeOK
  <2>1. IsCut(L, list)
    BY <1>3
  <2>2. ASSUME NEW i \in DOMAIN L, L[i] \in Path
        PROVE  L[i] \in reached /\ \E f \in seen : f[1] = Real[L[i]]
    <3>1. L[i] = list[i] /\ i \in DOMAIN list
      BY <2>0, <2>1, <2>2, ListingType DEF IsCut
    <3>2. L[i] \in reached /\ Held(L[i]) # None
      BY <2>0, <2>2, <3>1, ListedThere
    <3>3. <<Real[L[i]], Held(L[i])>> \in seen
      BY <2>2, <3>2, HeldSeen
    <3> QED BY <3>2, <3>3
  <2>3. ASSUME NoOverlap, NEW i \in Goes(L)
        PROVE  \E f \in seen, q \in Path :
                 f[1] = Real[L[i]] /\ files[q] = f[2] /\ q \notin GoesFiles(L)
    <3>1. PICK q \in reached : Held(q) = Held(L[i]) /\ q \notin GoesNames(L)
      BY <2>1, ListKeeps
    <3>2. L[i] \in reached /\ Held(L[i]) # None
      BY <2>1, ListKeeps
    <3>3. Real[q] \notin GoesFiles(L)
      <4>1. ASSUME NEW k \in Goes(L), Real[q] = Real[L[k]] PROVE FALSE
        <5>1. L[k] \in reached
          BY <2>1, ListKeeps
        <5>2. q = L[k]
          BY <2>3, <4>1, <5>1 DEF NoOverlap
        <5> QED BY <3>1, <5>2 DEF GoesNames
      <4> QED BY <4>1 DEF GoesFiles
    <3>4. L[i] \in Path /\ Real[q] \in Path
      BY <2>0, <3>2, RealsAre
    <3>5. <<Real[L[i]], Held(L[i])>> \in seen
      BY <3>2, <3>4, HeldSeen
    <3>6. files[Real[q]] = Held(L[i])
      BY <3>1 DEF Held
    <3> QED BY <3>3, <3>4, <3>5, <3>6
  <2>4. NoOverlap' => NoOverlap
    BY <1>1 DEF NoOverlap
  <2> QED BY <1>1, <1>2, <2>2, <2>3, <2>4 DEF DupesInv
<1>4. DupesInv'
  BY <1>1, <1>3 DEF DupesInv
<1> QED BY <1>1, <1>4 DEF MovesInv

(* A file that is moved is one that goes.                                  *)
LEMMA MovedGoes ==
  ASSUME TypeInv, MovesInv, NEW p \in Path, Moved(p)
  PROVE  dupesLst # None /\ p \in GoesFiles(dupesLst)
<1> DEFINE path == movesLst[line].path
<1>1. /\ movesLst # None /\ path # None /\ line <= Len(movesLst) /\ line \in Nat \ {0}
      /\ p = Real[path] /\ ~ movesLst[line].keep
      /\ movesLst \in Seq(Line)
  BY DEF Moved, Moves, TypeInv, TypeOK, ListInv, Line
<1>2. line \in DOMAIN movesLst
  BY <1>1
<1>3. dupesLst # None /\ path \in GoesNames(dupesLst)
  BY <1>1, <1>2 DEF MovesInv
<1> QED BY <1>1, <1>3 DEF GoesNames, GoesFiles

(* Nothing else makes the list of duplicates untrue: only files that it    *)
(* lets go are moved.                                                      *)
LEMMA DupesStep ==
  ASSUME TypeInv, SeenInv, DupesInv, MovesInv, [Next]_vars
  PROVE  DupesInv'
<1>1. CASE GenDupes
  <2>1. PICK list \in Listings, b \in Backup : NewDirectory(b, list)
    BY <1>1 DEF GenDupes
  <2>2. TypeOK /\ reached \subseteq Path
    BY DEF TypeInv, TypeOK
  <2>3. IsCut(list, list)
    BY <2>2, CutOffIsCut
  <2> QED BY <2>1, <2>2, <2>3, NewList
<1>2. CASE GenDupesStops
  <2>1. PICK L \in {None} \cup UNION {CutOff(l) : l \in Listings}, b \in Backup :
          NewDirectory(b, L)
    BY <1>2 DEF GenDupesStops
  <2>2. CASE L = None
    <3>1. dupesLst' = None
      BY <2>1, <2>2 DEF NewDirectory
    <3> QED BY <3>1 DEF DupesInv
  <2>3. CASE L # None
    <3>1. PICK list \in Listings : L \in CutOff(list)
      BY <2>3
    <3>2. TypeOK /\ reached \subseteq Path
      BY DEF TypeInv, TypeOK
    <3>3. IsCut(L, list)
      BY <3>1, <3>2, CutOffIsCut
    <3> QED BY <2>1, <3>2, <3>3, NewList
  <2> QED BY <2>2, <2>3
<1>3. CASE ~ GenDupes /\ ~ GenDupesStops
  <2>1. UNCHANGED <<dupesLst, reached>> /\ (NoOverlap' <=> NoOverlap)
    BY <1>3, ListChange
  <2>2. Goes(dupesLst)' = Goes(dupesLst) /\ GoesFiles(dupesLst)' = GoesFiles(dupesLst)
    BY <1>3, ListChange, SameList
  <2>3. seen \subseteq seen' /\ DOMAIN files = Path
    BY SeenStep DEF TypeInv, TypeOK
  <2>4. ASSUME dupesLst # None, NEW q \in Path, q \notin GoesFiles(dupesLst), files[q] # None
        PROVE  files'[q] = files[q]
    <3>1. CASE UNCHANGED fileVars
      BY <3>1 DEF fileVars
    <3>2. ASSUME NEW n \in NewFiles, CreateFile(n[1], n[2]) PROVE files'[q] = files[q]
      <4> DEFINE p == n[1]  d == n[2]
      <4>1. files[p] = None /\ files' = [files EXCEPT ![p] = d]
        BY <3>2 DEF CreateFile
      <4> HIDE DEF p, d
      <4> QED BY <2>3, <2>4, <4>1
    <3>3. ASSUME NEW p \in Path, CopyBegins(p) PROVE files'[q] = files[q]
      BY <3>3 DEF CopyBegins
    <3>4. ASSUME NEW p \in Path, Moved(p) PROVE files'[q] = files[q]
      <4>1. p \in GoesFiles(dupesLst)
        BY <2>4, <3>4, MovedGoes
      <4>2. files' = [files EXCEPT ![p] = None] /\ p # q
        BY <2>4, <3>4, <4>1 DEF Moved
      <4> QED BY <2>3, <4>2
    <3> QED BY <3>1, <3>2, <3>3, <3>4, FilesChange
  <2>5. ASSUME NoOverlap, dupesLst # None, NEW i \in Goes(dupesLst)
        PROVE  \E f \in seen', q \in Path :
                 f[1] = Real[dupesLst[i]] /\ files'[q] = f[2] /\ q \notin GoesFiles(dupesLst)
    <3>1. PICK f \in seen, q \in Path :
            f[1] = Real[dupesLst[i]] /\ files[q] = f[2] /\ q \notin GoesFiles(dupesLst)
      BY <2>5 DEF DupesInv
    <3>2. files[q] # None
      BY <3>1 DEF SeenInv
    <3> QED BY <2>3, <2>4, <2>5, <3>1, <3>2
  <2>6. ASSUME dupesLst # None, NEW i \in DOMAIN dupesLst, dupesLst[i] \in Path
        PROVE  dupesLst[i] \in reached /\ \E f \in seen' : f[1] = Real[dupesLst[i]]
    BY <2>3, <2>6 DEF DupesInv
  <2> QED BY <2>1, <2>2, <2>5, <2>6 DEF DupesInv
<1> QED BY <1>1, <1>2, <1>3

(* The line process_group writes next stands for a position of the group.  *)
LEMMA NextLine ==
  ASSUME TypeInv, ReadInv, WriteLine
  PROVE  LET i == At + idx
             n == Len(group)
         IN  /\ i \in DOMAIN dupesLst /\ dupesLst[i] \in Path
             /\ movesLst' = Append(movesLst, [path |-> Read[dupesLst[i]],
                                              keep |-> Kept(idx + 1, n)])
             /\ i \in Goes(dupesLst) <=> ~ Kept(idx + 1, n)
             /\ movesLst \in Seq(Line) /\ movesLst' \in Seq(Line)
<1> DEFINE i == At + idx
           n == Len(group)
           L == dupesLst
           e == line - 1
           m == Len(L)
<1>1. stage = "group" /\ idx < n /\ L # None /\ movesLst \in Seq(Line) /\ stage' = "group"
  BY DEF WriteLine, TypeInv, ListInv
<1>2. /\ L \in Seq(Path \cup {Blank, Cut}) /\ line \in Nat \ {0} /\ idx \in Nat
      /\ group \in Seq(Path \cup {None})
  BY <1>1 DEF TypeInv, TypeOK
<1>3. n \in Nat /\ m \in Nat /\ DOMAIN L = 1..m
  BY <1>2
<1>4. /\ At = e - n /\ At >= 1 /\ e <= m
      /\ At = 1 \/ L[At - 1] \notin Path
      /\ \A k \in 1..n : L[At + k - 1] \in Path /\ group[k] = Read[L[At + k - 1]]
      /\ L[e] \notin Path
  BY <1>1, <1>2 DEF ReadInv, At
<1> HIDE DEF n, m, e
<1>5. e \in Int /\ e \in 1..m
  BY <1>1, <1>2, <1>3, <1>4 DEF e
<1>6. i \in At..(e - 1) /\ i \in 1..m /\ i - At + 1 = idx + 1 /\ e - At = n
  BY <1>1, <1>2, <1>3, <1>4, <1>5
<1>7. \A k \in At..(e - 1) : L[k] \in Path
  <2> TAKE k \in At..(e - 1)
  <2>1. k - At + 1 \in 1..n /\ At + (k - At + 1) - 1 = k
    BY <1>3, <1>4, <1>5
  <2> QED BY <1>4, <2>1
<1>8. IsGroup(L, At, e) /\ At \in 1..m
  BY <1>3, <1>4, <1>5, <1>6, <1>7 DEF IsGroup
<1>9. i \in Goes(L) <=> ~ Kept(idx + 1, n)
  <2>1. ~ Kept(idx + 1, n) => i \in Goes(L)
    BY <1>3, <1>5, <1>6, <1>8 DEF Goes
  <2>2. ASSUME i \in Goes(L) PROVE ~ Kept(idx + 1, n)
    <3>1. PICK t \in 1..m, d \in 1..m :
            IsGroup(L, t, d) /\ i \in t..(d - 1) /\ ~ Kept(i - t + 1, d - t)
      BY <1>3, <2>2 DEF Goes
    <3>2. At = t /\ e = d
      <4> HIDE DEF i, L
      <4>1. At \in DOMAIN L /\ e \in DOMAIN L /\ t \in DOMAIN L /\ d \in DOMAIN L
        BY <1>3, <1>5, <1>8, <3>1
      <4>2. IsGroup(L, At, e) /\ IsGroup(L, t, d) /\ i \in At..(e - 1) /\ i \in t..(d - 1)
        BY <1>6, <1>8, <3>1
      <4> HIDE DEF At
      <4> QED BY <1>3, <4>1, <4>2, OneGroup, ZenonT(30)
    <3> QED BY <1>6, <3>1, <3>2
  <2> QED BY <2>1, <2>2
<1>10. group[idx + 1] = Read[L[i]] /\ L[i] \in Path
  <2>1. idx + 1 \in 1..n /\ At + (idx + 1) - 1 = i
    BY <1>1, <1>2, <1>3, <1>4, <1>5
  <2> QED BY <1>4, <2>1
<1>11. movesLst' = Append(movesLst, [path |-> Read[L[i]], keep |-> Kept(idx + 1, n)])
  BY <1>10 DEF WriteLine, n
<1>12. movesLst' \in Seq(Line)
  <2>1. TypeInv'
    <3>1. [Next]_vars
      BY DEF Next
    <3> QED BY <3>1, TypeStep
  <2> QED BY <1>1, <2>1 DEF TypeInv, ListInv
<1> QED BY <1>1, <1>3, <1>6, <1>9, <1>10, <1>11, <1>12 DEF n

(* What the moves list gains by a line.                                    *)
LEMMA LineGained ==
  ASSUME ReadsNames, TypeInv, DupesInv, ReadInv, WriteLine
  PROVE  /\ \A l \in DOMAIN movesLst : l \in DOMAIN movesLst' /\ movesLst'[l] = movesLst[l]
         /\ \A l \in DOMAIN movesLst' :
              \/ l \in DOMAIN movesLst
              \/ ~ movesLst'[l].keep /\ movesLst'[l].path # None =>
                   movesLst'[l].path \in GoesNames(dupesLst)
         /\ At + idx \in Goes(dupesLst) =>
              \E l \in DOMAIN movesLst' :
                ~ movesLst'[l].keep /\ movesLst'[l].path = Read[dupesLst[At + idx]]
<1> DEFINE i == At + idx
           r == [path |-> Read[dupesLst[i]], keep |-> Kept(idx + 1, Len(group))]
<1>1. /\ i \in DOMAIN dupesLst /\ dupesLst[i] \in Path
      /\ movesLst' = Append(movesLst, r)
      /\ i \in Goes(dupesLst) <=> ~ r.keep
      /\ r.path = Read[dupesLst[i]]
      /\ movesLst \in Seq(Line) /\ movesLst' \in Seq(Line)
  BY NextLine
<1> HIDE DEF i, r
<1>2. /\ Len(movesLst) \in Nat /\ DOMAIN movesLst = 1..Len(movesLst)
      /\ DOMAIN movesLst' = 1..(Len(movesLst) + 1)
      /\ movesLst'[Len(movesLst) + 1] = r
      /\ \A l \in 1..Len(movesLst) : movesLst'[l] = movesLst[l]
  BY <1>1
<1>3. r.path # None => r.path = dupesLst[i]
  <2>1. dupesLst # None
    BY DEF WriteLine, TypeInv, ListInv
  <2> QED BY <1>1, <2>1 DEF ReadsNames, DupesInv
<1>4. ~ r.keep /\ r.path # None => r.path \in GoesNames(dupesLst)
  BY <1>1, <1>3 DEF GoesNames
<1>5. \A l \in DOMAIN movesLst' : l \in DOMAIN movesLst \/ l = Len(movesLst) + 1
  BY <1>2
<1> QED BY <1>1, <1>2, <1>4, <1>5 DEF i

(* The moves list goes on naming files that others stand in for.           *)
LEMMA MovesStep ==
  ASSUME ReadsNames, TypeInv, DupesInv, MovesInv, ReadInv, [Next]_vars
  PROVE  MovesInv'
<1>1. CASE GenDupes \/ GenDupesStops
  <2>1. movesLst' = None /\ stage' \in {"ready", "idle"}
    BY <1>1 DEF GenDupes, GenDupesStops, NewDirectory, Ends, loopVars
  <2> QED BY <2>1 DEF MovesInv
<1>2. CASE ~ GenDupes /\ ~ GenDupesStops
  <2>1. UNCHANGED <<dupesLst, keepPos>>
    BY <1>2, ListChange
  <2>2. GoesNames(dupesLst)' = GoesNames(dupesLst)
    BY <2>1, SameList
  <2>3. CASE GenMoves
    <3>1. dupesLst # None /\ movesLst' = <<>>
      BY <2>3 DEF GenMoves
    <3> QED BY <2>1, <3>1 DEF MovesInv
  <2>4. CASE WriteLine
    <3>1. MovesInv /\ dupesLst # None /\ stage = "group"
      BY <2>4 DEF WriteLine, TypeInv, ListInv
    <3>2. \A l \in DOMAIN movesLst :
            ~ movesLst[l].keep /\ movesLst[l].path # None =>
              movesLst[l].path \in GoesNames(dupesLst)
      BY <3>1 DEF MovesInv
    <3> QED BY <2>1, <2>2, <2>4, <3>1, <3>2, LineGained DEF MovesInv
  <2>5. CASE UNCHANGED movesLst /\ (stage' \in {"read", "group"} => stage \in {"read", "group"})
    BY <2>1, <2>2, <2>5 DEF MovesInv
  <2>6. \/ GenMoves \/ WriteLine
        \/ UNCHANGED movesLst /\ (stage' \in {"read", "group"} => stage \in {"read", "group"})
    BY <1>2 DEF Next, Run, CreateFile, Stop, Ends, Pass, ReadName, ReadGroupEnd, Reads,
                GroupEnds, GenMovesEnds, MoveFiles, SkipLine, CopyBegins, Moved,
                MoveFilesEnds, vars, listVars, argVars
  <2> QED BY <2>3, <2>4, <2>5, <2>6
<1> QED BY <1>1, <1>2

(* generate_moves reads the list of duplicates from end to end, a group at *)
(* a time, and writes a line for each name that goes.                      *)
LEMMA ReadStep ==
  ASSUME ReadsNames, TypeInv, DupesInv, ReadInv, [Next]_vars
  PROVE  ReadInv'
<1> SUFFICES ASSUME stage' \in {"read", "group"} PROVE ReadInv'
  BY DEF ReadInv
<1>1. ~ GenDupes /\ ~ GenDupesStops
  BY DEF GenDupes, GenDupesStops, NewDirectory, Ends
<1>2. UNCHANGED <<dupesLst, keepPos>> /\ Goes(dupesLst)' = Goes(dupesLst)
  BY <1>1, ListChange, SameList
<1> DEFINE L == dupesLst
           Old(i) == \E l \in DOMAIN movesLst :
                       ~ movesLst[l].keep /\ movesLst[l].path = Read[L[i]]
           New(i) == \E l \in DOMAIN movesLst' :
                       ~ movesLst'[l].keep /\ movesLst'[l].path = Read[L[i]]
           m == Len(L)
           names == \A i \in Goes(L) : L[i] \in Path /\ i \in 1..m
<1>3. (\A i : Written(i) <=> Old(i)) /\ (\A i : Written(i)' <=> New(i))
  BY <1>2 DEF Written
<1>4. /\ L # None => L \in Seq(Path \cup {Blank, Cut})
      /\ line \in Nat \ {0} /\ group \in Seq(Path \cup {None}) /\ idx \in 0..Len(group)
      /\ Len(group) \in Nat /\ idx \in Nat
  BY DEF TypeInv, TypeOK
<1>5. L # None => m \in Nat /\ DOMAIN L = 1..m /\ names
  BY <1>4, SMTT(30) DEF Goes, IsGroup
<1> HIDE DEF m
<1>6. CASE GenMoves
  <2>1. /\ stage' = "read" /\ line' = 1 /\ group' = <<>> /\ idx' = 0 /\ L # None
        /\ passed' \cap {"moves", "move"} = {}
    BY <1>6 DEF GenMoves
  <2>2. At' = 1
    BY <2>1 DEF At
  <2>3. \A i \in Goes(L) : ~ (i < 1 + 0)
    BY <1>5, <2>1
  <2> QED BY <1>2, <1>5, <2>1, <2>2, <2>3 DEF ReadInv, m
<1>7. CASE ReadName
  <2>1. /\ stage = "read" /\ stage' = "read" /\ line <= m /\ L[line] \in Path
        /\ group' = Append(group, Read[L[line]]) /\ line' = line + 1
        /\ UNCHANGED <<movesLst, idx, passed>> /\ L # None
    BY <1>7 DEF ReadName, Reads, TypeInv, ListInv, listVars, argVars, m
  <2>2. /\ At = line - Len(group) /\ At >= 1 /\ (At = 1 \/ L[At - 1] \notin Path)
        /\ \A k \in 1..Len(group) : L[At + k - 1] \in Path /\ group[k] = Read[L[At + k - 1]]
        /\ idx = 0 /\ passed \cap {"moves", "move"} = {}
        /\ \A i \in Goes(L) : i < At + idx => Written(i)
    BY <2>1 DEF ReadInv, At
  <2>3. /\ Len(group') = Len(group) + 1 /\ group'[Len(group) + 1] = Read[L[line]]
        /\ \A k \in 1..Len(group) : group'[k] = group[k]
    <3>1. Read[L[line]] \in Path \cup {None}
      BY <2>1
    <3> QED BY <1>4, <2>1, <3>1
  <2>4. At' = At
    BY <1>4, <2>1, <2>2, <2>3 DEF At
  <2>5. \A k \in 1..Len(group') : L[At + k - 1] \in Path /\ group'[k] = Read[L[At + k - 1]]
    <3> TAKE k \in 1..Len(group')
    <3>1. CASE k \in 1..Len(group)
      BY <2>2, <2>3, <3>1
    <3>2. CASE k = Len(group) + 1
      <4>1. At + k - 1 = line
        BY <1>4, <2>2, <3>2
      <4> QED BY <2>1, <2>3, <3>2, <4>1
    <3> QED BY <1>4, <2>3, <3>1, <3>2
  <2>6. \A i : Written(i)' <=> Written(i)
    BY <1>3, <2>1
  <2>7. line' - 1 <= m
    BY <1>4, <2>1
  <2>8. \A k \in 1..Len(group') : /\ dupesLst'[At' + k - 1] \in Path
                                   /\ group'[k] = Read[dupesLst'[At' + k - 1]]
    BY <1>2, <2>4, <2>5
  <2>9. \A i \in Goes(dupesLst)' : i < At' + idx' => Written(i)'
    BY <1>2, <2>1, <2>2, <2>4, <2>6
  <2> QED BY <1>2, <2>1, <2>2, <2>4, <2>7, <2>8, <2>9 DEF ReadInv, m
<1>8. CASE ReadGroupEnd
  <2>1. /\ stage = "read" /\ line <= m /\ L[line] \in {Blank, Cut} /\ line' = line + 1
        /\ UNCHANGED <<group, movesLst, idx, passed>> /\ L # None
        /\ stage' = IF group # <<>> THEN "group" ELSE "read"
    BY <1>8 DEF ReadGroupEnd, Reads, EndsGroup, TypeInv, ListInv, listVars, argVars, m
  <2>2. /\ At = line - Len(group) /\ At >= 1 /\ (At = 1 \/ L[At - 1] \notin Path)
        /\ \A k \in 1..Len(group) : L[At + k - 1] \in Path /\ group[k] = Read[L[At + k - 1]]
        /\ idx = 0 /\ passed \cap {"moves", "move"} = {}
        /\ \A i \in Goes(L) : i < At + idx => Written(i)
    BY <2>1 DEF ReadInv, At
  <2>3. L[line] \notin Path
    BY <2>1
  <2>4. \A i : Written(i)' <=> Written(i)
    BY <1>3, <2>1
  <2>5. line' - 1 = line /\ line' - 1 <= m
    BY <1>4, <2>1
  <2>6. CASE group # <<>>
    <3>1. At' = At
      BY <1>4, <2>1, <2>2, <2>6 DEF At
    <3> QED BY <1>2, <2>1, <2>2, <2>3, <2>4, <2>5, <2>6, <3>1 DEF ReadInv, m
  <2>7. CASE group = <<>>
    <3>1. Len(group) = 0 /\ At = line /\ At' = line + 1 /\ At' - 1 = line
      BY <1>4, <2>1, <2>2, <2>7 DEF At
    <3>2. ASSUME NEW i \in Goes(L), i < At' + idx' PROVE Written(i)'
      <4>1. i # line
        BY <1>5, <2>1, <2>3
      <4>2. i < At + idx
        BY <1>4, <1>5, <2>1, <2>2, <3>1, <3>2, <4>1
      <4> QED BY <2>2, <2>4, <4>2
    <3>3. \A k \in 1..Len(group') : FALSE
      BY <2>1, <3>1
    <3>4. At' >= 1 /\ L[At' - 1] \notin Path
      BY <1>4, <2>3, <3>1
    <3> QED BY <1>2, <2>1, <2>2, <2>5, <2>7, <3>2, <3>3, <3>4 DEF ReadInv, m
  <2> QED BY <2>6, <2>7
<1>9. CASE WriteLine
  <2>1. /\ stage = "group" /\ stage' = "group" /\ idx' = idx + 1 /\ idx < Len(group)
        /\ UNCHANGED <<line, group, passed>> /\ L # None
    BY <1>9 DEF WriteLine, TypeInv, ListInv
  <2>2. At' = At /\ At = line - 1 - Len(group)
    BY <2>1 DEF At
  <2>3. ASSUME NEW i \in Goes(L), i < At + (idx + 1) PROVE Written(i)'
    <3>1. CASE i < At + idx
      <4>1. Old(i)
        BY <1>3, <2>1, <3>1 DEF ReadInv
      <4> QED BY <1>3, <1>9, <4>1, LineGained
    <3>2. CASE i = At + idx
      <4> QED BY <1>3, <1>9, <3>2, LineGained
    <3> QED BY <1>4, <1>5, <2>1, <2>2, <2>3, <3>1, <3>2
  <2> QED BY <1>2, <2>1, <2>2, <2>3 DEF ReadInv
<1>10. CASE GroupEnds
  <2>1. /\ stage = "group" /\ stage' = "read" /\ idx = Len(group) /\ idx' = 0 /\ group' = <<>>
        /\ UNCHANGED <<line, movesLst, passed>> /\ L # None
    BY <1>10 DEF GroupEnds, TypeInv, ListInv, listVars, argVars
  <2>2. /\ At = line - 1 - Len(group) /\ At >= 1 /\ line - 1 <= m
        /\ L[line - 1] \notin Path /\ passed \cap {"moves", "move"} = {}
        /\ \A i \in Goes(L) : i < At + idx => Written(i)
    BY <2>1 DEF ReadInv, At, m
  <2>3. At' = line /\ Len(group') = 0
    BY <1>4, <2>1 DEF At
  <2>4. \A i : Written(i)' <=> Written(i)
    BY <1>3, <2>1
  <2>5. ASSUME NEW i \in Goes(L), i < line + 0 PROVE Written(i)'
    <3>1. i # line - 1
      BY <1>5, <2>1, <2>2
    <3>2. i < At + idx
      BY <1>4, <1>5, <2>1, <2>2, <2>5, <3>1
    <3> QED BY <2>2, <2>4, <3>2
  <2>6. line >= 1
    BY <1>4
  <2> QED BY <1>2, <2>1, <2>2, <2>3, <2>5, <2>6 DEF ReadInv, m
<1>11. CASE UNCHANGED <<stage, line, group, idx, movesLst, passed>>
  <2>1. At' = At
    BY <1>11 DEF At
  <2>2. \A i : Written(i)' <=> Written(i)
    BY <1>3, <1>11
  <2> QED BY <1>2, <1>11, <2>1, <2>2 DEF ReadInv
<1> QED BY <1>1, <1>6, <1>7, <1>8, <1>9, <1>10, <1>11
        DEF Next, Run, CreateFile, Stop, Ends, Pass, GenMovesEnds, MoveFiles, SkipLine,
            CopyBegins, Moved, MoveFilesEnds, vars, listVars, argVars, loopVars

(* When generate_moves ends, it has written a line for all that goes: a    *)
(* group whose end it has not come to has none.                            *)
LEMMA DoneStep ==
  ASSUME TypeInv, ReadInv, DoneInv, [Next]_vars
  PROVE  DoneInv'
<1>1. CASE GenDupes \/ GenDupesStops
  BY <1>1 DEF DoneInv, GenDupes, GenDupesStops
<1>2. CASE ~ GenDupes /\ ~ GenDupesStops
  <2>1. UNCHANGED <<dupesLst, keepPos>> /\ Goes(dupesLst)' = Goes(dupesLst)
    BY <1>2, ListChange, SameList
  <2>2. UNCHANGED movesLst => \A i : Written(i)' <=> Written(i)
    BY <2>1 DEF Written
  <2>3. CASE GenMovesEnds
    <3> DEFINE L == dupesLst
               m == Len(L)
    <3>1. /\ stage = "read" /\ line > m /\ UNCHANGED movesLst /\ L # None
          /\ L \in Seq(Path \cup {Blank, Cut}) /\ line \in Nat \ {0}
          /\ group \in Seq(Path \cup {None})
      BY <2>3 DEF GenMovesEnds, listVars, argVars, TypeInv, TypeOK, ListInv
    <3>2. m \in Nat /\ DOMAIN L = 1..m /\ Len(group) \in Nat
      BY <3>1
    <3>3. /\ At = line - Len(group) /\ idx = 0
          /\ \A k \in 1..Len(group) : L[At + k - 1] \in Path
          /\ \A i \in Goes(L) : i < At + idx => Written(i)
      BY <3>1 DEF ReadInv, At
    <3> HIDE DEF m
    <3>4. ASSUME NEW i \in Goes(L), ~ (i < At) PROVE FALSE
      <4>1. PICK s \in 1..m, e \in 1..m : IsGroup(L, s, e) /\ i \in s..(e - 1)
        BY <3>2 DEF Goes
      <4>2. e - At + 1 \in 1..Len(group) /\ At + (e - At + 1) - 1 = e
        BY <3>1, <3>2, <3>3, <3>4, <4>1
      <4> QED BY <3>3, <4>1, <4>2 DEF IsGroup
    <3>5. \A i \in Goes(L) : i \in Nat
      BY <3>2 DEF Goes
    <3>6. \A i \in Goes(L) : i < At + idx
      BY <3>1, <3>2, <3>3, <3>4, <3>5
    <3> QED BY <2>1, <2>2, <3>1, <3>3, <3>6 DEF DoneInv
  <2>4. CASE GenMoves \/ WriteLine
    <3>1. "moves" \notin passed'
      BY <2>4 DEF GenMoves, WriteLine, ReadInv
    <3> QED BY <3>1 DEF DoneInv
  <2>5. CASE UNCHANGED movesLst /\ ("moves" \in passed' => "moves" \in passed)
    BY <2>1, <2>2, <2>5 DEF DoneInv
  <2> QED BY <1>2, <2>3, <2>4, <2>5
          DEF Next, Run, CreateFile, Stop, Ends, Pass, ReadName, ReadGroupEnd,
              GroupEnds, MoveFiles, SkipLine, CopyBegins, Moved, MoveFilesEnds, vars,
              listVars, argVars
<1> QED BY <1>1, <1>2

(* The lists and what they say of the files hold together.                 *)
ScriptInv == TypeInv /\ SeenInv /\ DupesInv /\ MovesInv /\ ReadInv /\ DoneInv

(* They do from the start.                                                 *)
LEMMA ScriptInit == Init => ScriptInv
<1> SUFFICES ASSUME Init PROVE ScriptInv
  OBVIOUS
<1>1. DupesInv /\ MovesInv /\ ReadInv /\ DoneInv
  BY DEF Init, DupesInv, MovesInv, ReadInv, DoneInv
<1> QED BY <1>1, InitTypeInv DEF ScriptInv

(* And in every step.                                                      *)
LEMMA ScriptStep == ReadsNames /\ ScriptInv /\ [Next]_vars => ScriptInv'
BY TypeStep, SeenStep, DupesStep, MovesStep, ReadStep, DoneStep DEF ScriptInv

(* What has been under one name only once is the same thing wherever the   *)
(* ghost of all files shows it.                                            *)
LEMMA OneDataBefore ==
  ASSUME ScriptInv, [Next]_vars
  PROVE  /\ OneData' => OneData
         /\ \A n \in NewFiles : OneData' /\ CreateFile(n[1], n[2]) =>
              \A f \in seen : f[1] # n[1]
<1>1. seen \subseteq seen'
  BY SeenStep DEF ScriptInv
<1>2. ASSUME NEW n \in NewFiles, OneData', CreateFile(n[1], n[2]), NEW f \in seen, f[1] = n[1]
      PROVE  FALSE
  <2> DEFINE p == n[1]  d == n[2]
  <2>1. <<p, d>> \in seen' /\ <<p, d>> \notin seen
    BY <1>2 DEF CreateFile
  <2>2. f \in seen' /\ <<p, d>>[1] = f[1]
    BY <1>1, <1>2
  <2> HIDE DEF p, d
  <2>3. f = <<p, d>>
    BY <1>2, <2>1, <2>2 DEF OneData
  <2> QED BY <2>1, <2>3
<1> QED BY <1>1, <1>2 DEF OneData

(* A file that is moved has the data of one that stays.                    *)
LEMMA MovedStays ==
  ASSUME NoOverlap, ScriptInv, OneData, NEW p \in Path, Moved(p)
  PROVE  /\ files[p] # None /\ files' = [files EXCEPT ![p] = None] /\ seen' = seen
         /\ \E q \in Path : q # p /\ files[q] = files[p]
<1>1. files[p] # None /\ files' = [files EXCEPT ![p] = None] /\ seen' = seen
  BY DEF Moved, Moves
<1>2. p \in GoesFiles(dupesLst) /\ dupesLst # None
  BY MovedGoes DEF ScriptInv
<1>3. PICK i \in Goes(dupesLst) : Real[dupesLst[i]] = p
  BY <1>2 DEF GoesFiles
<1>4. PICK f \in seen, q \in Path :
        f[1] = Real[dupesLst[i]] /\ files[q] = f[2] /\ q \notin GoesFiles(dupesLst)
  BY <1>2 DEF ScriptInv, DupesInv
<1>5. <<p, files[p]>> \in seen /\ <<p, files[p]>>[1] = f[1] /\ <<p, files[p]>>[2] = files[p]
  BY <1>1, <1>3, <1>4 DEF ScriptInv, SeenInv
<1>6. f = <<p, files[p]>>
  BY <1>5 DEF OneData
<1>7. q # p /\ files[q] = files[p]
  BY <1>2, <1>4, <1>5, <1>6
<1> QED BY <1>1, <1>7

(* The last copy in place is never moved.                                  *)
LEMMA KeepsStep ==
  ASSUME NoOverlap, ScriptInv, OneData, LastCopyStays, [Next]_vars
  PROVE  LastCopyStays'
<1>1. DOMAIN files = Path
  BY DEF ScriptInv, TypeInv, TypeOK
<1>2. CASE UNCHANGED fileVars
  BY <1>2 DEF LastCopyStays, fileVars
<1>3. ASSUME NEW n \in NewFiles, CreateFile(n[1], n[2]) PROVE LastCopyStays'
  <2> DEFINE p == n[1]  d == n[2]
  <2>1. p \in Path /\ d # None
    BY NewFilesAre
  <2>2. files[p] = None /\ files' = [files EXCEPT ![p] = d] /\ seen' = seen \cup {<<p, d>>}
    BY <1>3 DEF CreateFile
  <2> HIDE DEF p, d
  <2>3. ASSUME NEW f \in seen PROVE \E q \in Path : files'[q] = f[2]
    <3>1. PICK q \in Path : files[q] = f[2] /\ f[2] # None
      BY DEF LastCopyStays, ScriptInv, SeenInv
    <3> QED BY <1>1, <2>2, <3>1
  <2>4. files'[p] = <<p, d>>[2]
    BY <1>1, <2>1, <2>2
  <2> QED BY <2>1, <2>2, <2>3, <2>4 DEF LastCopyStays
<1>4. ASSUME NEW p \in Path, CopyBegins(p) PROVE LastCopyStays'
  BY <1>4 DEF CopyBegins, LastCopyStays
<1>5. ASSUME NEW p \in Path, Moved(p) PROVE LastCopyStays'
  <2>1. PICK q \in Path : q # p /\ files[q] = files[p]
    BY <1>5, MovedStays
  <2>2. files' = [files EXCEPT ![p] = None] /\ seen' = seen
    BY <1>5, MovedStays
  <2>3. ASSUME NEW f \in seen PROVE \E r \in Path : files'[r] = f[2]
    <3>1. PICK r \in Path : files[r] = f[2]
      BY DEF LastCopyStays
    <3>2. CASE r = p
      BY <1>1, <2>1, <2>2, <3>1, <3>2
    <3>3. CASE r # p
      BY <1>1, <2>2, <3>1, <3>3
    <3> QED BY <3>2, <3>3
  <2> QED BY <2>2, <2>3 DEF LastCopyStays
<1> QED BY <1>2, <1>3, <1>4, <1>5, FilesChange

(* Where the script takes no name for another and reaches no file by two   *)
(* names, which KeepsOne states, and as long as no name has stood for two  *)
(* files that differ, a file with the data of every file there has been    *)
(* stays in the source directories, however often the lists were cut off,  *)
(* made again and worked through.                                          *)
THEOREM OneStays == Spec => [](OneData => KeepsOne)
<1> DEFINE Stays == ReadsNames => ScriptInv /\ (NoOverlap /\ OneData => LastCopyStays)
<1>1. Init => Stays
  <2>1. Init => LastCopyStays
    BY DEF Init, LastCopyStays
  <2> QED BY <2>1, ScriptInit
<1>2. Stays /\ [Next]_vars => Stays'
  <2> SUFFICES ASSUME Stays, [Next]_vars, ReadsNames'
               PROVE  ScriptInv' /\ (NoOverlap' /\ OneData' => LastCopyStays')
    OBVIOUS
  <2>1. ReadsNames /\ (NoOverlap' => NoOverlap)
    BY ListChange
  <2>2. ScriptInv /\ (NoOverlap /\ OneData => LastCopyStays)
    BY <2>1
  <2>3. ScriptInv'
    BY <2>1, <2>2, ScriptStep
  <2>4. OneData' => OneData
    BY <2>2, OneDataBefore
  <2> QED BY <2>1, <2>2, <2>3, <2>4, KeepsStep
<1>3. Stays => (OneData => KeepsOne)
  BY DEF KeepsOne
<1> QED BY <1>1, <1>2, <1>3, PTL DEF Spec

-----------------------------------------------------------------------------
(* A cleanup that has passed. *)

(* The file of line l of the moves list is away and will not come back.    *)
Gone(l) ==
  ~ movesLst[l].keep =>
    /\ movesLst[l].path # None
    /\ files[Real[movesLst[l].path]] = None
    /\ \E f \in seen : f[1] = Real[movesLst[l].path]

(* move_files has moved what the lines it has read name, and all there is  *)
(* to move when it has passed.                                             *)
GoneInv ==
  /\ stage \in {"move", "copying"} => \A l \in DOMAIN movesLst : l < line => Gone(l)
  /\ "move" \in passed => \A l \in DOMAIN movesLst : Gone(l)

(* A name that is listed was reached, and its file has been there.         *)
Noted(i) ==
  dupesLst[i] \in Path =>
    dupesLst[i] \in reached /\ \E f \in seen : f[1] = Real[dupesLst[i]]

(* Two listed names of files that had the same data.                       *)
Twins(i, j, f, g) ==
  /\ dupesLst[i] \in Path /\ dupesLst[j] \in Path
  /\ f[1] = Real[dupesLst[i]] /\ g[1] = Real[dupesLst[j]]
  /\ f[2] = g[2]

(* Of two names of a whole list with the same data one goes at least.      *)
TwinInv ==
  "dupes" \in passed =>
    /\ dupesLst \in Seq(Path \cup {Blank}) /\ \A i \in DOMAIN dupesLst : Noted(i)
    /\ keepPos # "all" =>
         \A i, j \in DOMAIN dupesLst : \A f, g \in seen :
           i < j /\ Twins(i, j, f, g) => i \in Goes(dupesLst) \/ j \in Goes(dupesLst)

(* find-dupes lists all equal files as one group.                          *)
LEMMA TwinStep ==
  ASSUME ScriptInv, OneData', TwinInv, [Next]_vars
  PROVE  TwinInv'
<1> SUFFICES ASSUME "dupes" \in passed' PROVE TwinInv'
  BY DEF TwinInv
<1>1. CASE GenDupes
  <2>1. PICK L \in Listings, b \in Backup : NewDirectory(b, L)
    BY <1>1 DEF GenDupes
  <2>2. dupesLst' = L /\ UNCHANGED <<files, seen, keepPos, reached>>
    BY <2>1 DEF NewDirectory, fileVars, argVars
  <2>3. Goes(dupesLst)' = Goes(L) /\ reached \subseteq Path
    BY <2>2 DEF Goes, IsGroup, Kept, ScriptInv, TypeInv, TypeOK
  <2>4. ASSUME NEW i \in DOMAIN L, L[i] \in Path
        PROVE  /\ <<Real[L[i]], Held(L[i])>> \in seen
               /\ \A f \in seen : f[1] = Real[L[i]] => f[2] = Held(L[i])
    <3>1. <<Real[L[i]], Held(L[i])>> \in seen
      <4>1. Held(L[i]) # None
        BY <2>3, <2>4, ListedThere
      <4> QED BY <2>4, <4>1, HeldSeen DEF ScriptInv
    <3>2. OneData
      BY OneDataBefore
    <3>3. /\ <<Real[L[i]], Held(L[i])>>[1] = Real[L[i]]
          /\ <<Real[L[i]], Held(L[i])>>[2] = Held(L[i])
      OBVIOUS
    <3> QED BY <3>1, <3>2, <3>3 DEF OneData
  <2>5. ASSUME keepPos # "all", NEW i \in DOMAIN L, NEW j \in DOMAIN L, NEW f \in seen,
               NEW g \in seen, i < j, L[i] \in Path, L[j] \in Path,
               f[1] = Real[L[i]], g[1] = Real[L[j]], f[2] = g[2]
        PROVE  i \in Goes(L) \/ j \in Goes(L)
    <3>1. f[2] = Held(L[i]) /\ g[2] = Held(L[j])
      BY <2>4, <2>5
    <3> QED BY <2>5, <3>1, ListParts DEF ScriptInv, TypeInv
  <2>6. ASSUME NEW i \in DOMAIN L, L[i] \in Path
        PROVE  L[i] \in reached /\ \E f \in seen : f[1] = Real[L[i]]
    <3>1. /\ <<Real[L[i]], Held(L[i])>> \in seen
          /\ <<Real[L[i]], Held(L[i])>>[1] = Real[L[i]]
      BY <2>4, <2>6
    <3>2. L[i] \in reached
      BY <2>3, <2>6, ListedThere
    <3> QED BY <3>1, <3>2
  <2>7. L \in Seq(Path \cup {Blank})
    BY <2>3, ListingType
  <2>8. \A i \in DOMAIN dupesLst' : Noted(i)'
    BY <2>2, <2>6 DEF Noted
  <2>9. ASSUME NEW i \in DOMAIN dupesLst', NEW j \in DOMAIN dupesLst', NEW f \in seen',
               NEW g \in seen', keepPos' # "all", i < j, Twins(i, j, f, g)'
        PROVE  i \in Goes(dupesLst)' \/ j \in Goes(dupesLst)'
    <3>1. /\ L[i] \in Path /\ L[j] \in Path
          /\ f[1] = Real[L[i]] /\ g[1] = Real[L[j]] /\ f[2] = g[2]
      BY <2>2, <2>9 DEF Twins
    <3> QED BY <2>2, <2>3, <2>5, <2>9, <3>1
  <2> QED BY <2>2, <2>7, <2>8, <2>9 DEF TwinInv
<1>2. CASE GenDupesStops
  BY <1>2 DEF GenDupesStops
<1>3. CASE ~ GenDupes /\ ~ GenDupesStops
  <2>1. /\ UNCHANGED <<dupesLst, keepPos, reached>> /\ Goes(dupesLst)' = Goes(dupesLst)
        /\ seen \subseteq seen'
    BY <1>3, ListChange, SameList, SeenStep DEF ScriptInv
  <2>2. "dupes" \in passed
    BY <1>3 DEF Next, Run, CreateFile, Stop, Ends, Pass, GenMoves, ReadName,
       ReadGroupEnd,
                WriteLine, GroupEnds, GenMovesEnds, MoveFiles, SkipLine, CopyBegins,
                Moved,
                MoveFilesEnds, vars
  <2>3. ASSUME NEW i \in DOMAIN dupesLst, dupesLst[i] \in Path,
               NEW f \in seen', f[1] = Real[dupesLst[i]]
        PROVE  f \in seen
    <3>1. CASE UNCHANGED seen
      BY <3>1
    <3>2. ASSUME NEW n \in NewFiles, CreateFile(n[1], n[2]) PROVE f \in seen
      <4>1. seen' = seen \cup {<<n[1], n[2]>>} /\ <<n[1], n[2]>>[1] = n[1] /\ n[1] \in Path
        BY <3>2, NewFilesAre DEF CreateFile
      <4>2. Real[dupesLst[i]] = n[1] => \E h \in seen : h[1] = n[1]
        BY <2>2, <2>3, <4>1 DEF TwinInv, Noted
      <4>3. Real[dupesLst[i]] # n[1]
        BY <3>2, <4>2, OneDataBefore
      <4> QED BY <2>3, <4>1, <4>3
    <3> QED BY <3>1, <3>2, FilesChange DEF fileVars, CopyBegins, Moved
  <2>4. \A i : Noted(i) => Noted(i)'
    BY <2>1 DEF Noted
  <2>5. \A i, j \in DOMAIN dupesLst : \A f, g \in seen' :
          Twins(i, j, f, g)' => f \in seen /\ g \in seen /\ Twins(i, j, f, g)
    BY <2>1, <2>3 DEF Twins
  <2> QED BY <2>1, <2>2, <2>4, <2>5 DEF TwinInv
<1> QED BY <1>1, <1>2, <1>3

(* What is away stays away.                                                *)
LEMMA StaysGone ==
  ASSUME ScriptInv, OneData', [Next]_vars, NEW l, UNCHANGED movesLst, Gone(l)
  PROVE  Gone(l)'
<1> SUFFICES ASSUME ~ movesLst[l].keep PROVE Gone(l)'
  BY DEF Gone
<1> DEFINE q == Real[movesLst[l].path]
<1>1. movesLst[l].path # None /\ files[q] = None /\ \E f \in seen : f[1] = q
  BY DEF Gone
<1>2. seen \subseteq seen' /\ DOMAIN files = Path
  BY SeenStep DEF ScriptInv, TypeInv, TypeOK
<1>3. q \in Path
  BY <1>1 DEF ScriptInv, SeenInv
<1> HIDE DEF q
<1>4. files'[q] = None
  <2>1. CASE UNCHANGED files
    BY <1>1, <2>1
  <2>2. ASSUME NEW n \in NewFiles, CreateFile(n[1], n[2]) PROVE files'[q] = None
    <3>1. \A f \in seen : f[1] # n[1]
      BY <2>2, OneDataBefore
    <3>2. q # n[1] /\ files' = [files EXCEPT ![n[1]] = n[2]]
      BY <1>1, <2>2, <3>1 DEF CreateFile
    <3> QED BY <1>1, <1>2, <1>3, <3>2
  <2>3. ASSUME NEW p \in Path, Moved(p) PROVE files'[q] = None
    <3>1. files' = [files EXCEPT ![p] = None]
      BY <2>3 DEF Moved
    <3> QED BY <1>1, <1>2, <1>3, <3>1
  <2> QED BY <2>1, <2>2, <2>3, FilesChange DEF fileVars, CopyBegins
<1>5. movesLst'[l] = movesLst[l]
  OBVIOUS
<1> QED BY <1>1, <1>2, <1>4, <1>5 DEF Gone, q

(* move_files works through the list from end to end.                      *)
LEMMA GoneStep ==
  ASSUME ScriptInv, OneData', GoneInv, [Next]_vars
  PROVE  GoneInv'
<1> USE DEF ScriptInv
<1>1. CASE GenDupes \/ GenDupesStops
  <2>1. "move" \notin passed' /\ stage' \notin {"move", "copying"}
    BY <1>1 DEF GenDupes, GenDupesStops, NewDirectory, Ends
  <2> QED BY <2>1 DEF GoneInv
<1>2. CASE GenMoves \/ WriteLine
  <2>1. "move" \notin passed' /\ stage' \notin {"move", "copying"}
    BY <1>2 DEF GenMoves, WriteLine, ReadInv
  <2> QED BY <2>1 DEF GoneInv
<1>3. CASE MoveFiles
  <2>1. /\ "move" \notin passed' /\ line' = 1 /\ UNCHANGED movesLst
        /\ movesLst \in Seq(Line)
    BY <1>3 DEF MoveFiles, listVars, argVars, TypeInv, TypeOK, Line
  <2>2. \A l \in DOMAIN movesLst' : ~ (l < line')
    BY <2>1
  <2> QED BY <2>1, <2>2 DEF GoneInv
<1>4. CASE SkipLine
  <2>1. /\ stage = "move" /\ movesLst[line].keep /\ line' = line + 1
        /\ UNCHANGED <<movesLst, passed>> /\ movesLst \in Seq(Line) /\ line \in Nat
    BY <1>4 DEF SkipLine, listVars, argVars, TypeInv, TypeOK, ListInv, Line
  <2>2. ASSUME NEW l \in DOMAIN movesLst, l < line' PROVE Gone(l)'
    <3>1. l < line \/ l = line
      BY <2>1, <2>2
    <3>2. CASE l < line
      BY <2>1, <3>2, StaysGone DEF GoneInv
    <3>3. CASE l = line
      BY <2>1, <3>3 DEF Gone
    <3> QED BY <3>1, <3>2, <3>3
  <2> QED BY <2>1, <2>2, StaysGone DEF GoneInv
<1>5. ASSUME NEW p \in Path, Moved(p) PROVE GoneInv'
  <2>1. /\ stage \in {"move", "copying"} /\ line' = line + 1
        /\ p = Real[movesLst[line].path] /\ movesLst[line].path # None
        /\ UNCHANGED <<movesLst, passed>> /\ movesLst \in Seq(Line) /\ line \in Nat
        /\ files[p] # None /\ files' = [files EXCEPT ![p] = None] /\ seen' = seen
    BY <1>5 DEF Moved, Moves, listVars, argVars, TypeInv, TypeOK, ListInv, Line
  <2>2. ASSUME NEW l, l = line PROVE Gone(l)'
    <3>1. <<p, files[p]>> \in seen /\ <<p, files[p]>>[1] = p /\ DOMAIN files = Path
      BY <2>1 DEF SeenInv, TypeInv, TypeOK
    <3>2. Real[movesLst'[l].path] = p /\ movesLst'[l].path # None /\ files'[p] = None
      BY <2>1, <2>2, <3>1
    <3> QED BY <2>1, <3>1, <3>2 DEF Gone
  <2>3. ASSUME NEW l \in DOMAIN movesLst, l < line' PROVE Gone(l)'
    <3>1. l < line \/ l = line
      BY <2>1, <2>3
    <3>2. CASE l < line
      BY <2>1, <3>2, StaysGone DEF GoneInv
    <3> QED BY <2>2, <3>1, <3>2
  <2> QED BY <2>1, <2>3, StaysGone DEF GoneInv
<1>6. CASE MoveFilesEnds
  <2>1. /\ stage = "move" /\ line > Len(movesLst) /\ stage' = "ready"
        /\ UNCHANGED movesLst /\ movesLst \in Seq(Line) /\ line \in Nat
    BY <1>6 DEF MoveFilesEnds, Pass, listVars, argVars, TypeInv, TypeOK, ListInv, Line
  <2>2. \A l \in DOMAIN movesLst : l < line
    BY <2>1
  <2> QED BY <2>1, <2>2, StaysGone DEF GoneInv
<1>7. CASE /\ UNCHANGED movesLst
           /\ stage' \in {"move", "copying"} => stage \in {"move", "copying"} /\ line' = line
           /\ "move" \in passed' => "move" \in passed
  BY <1>7, StaysGone DEF GoneInv
<1> QED BY <1>1, <1>2, <1>3, <1>4, <1>5, <1>6, <1>7
        DEF Next, Run, CreateFile, Stop, Ends, Pass, ReadName, ReadGroupEnd, Reads,
            GroupEnds, GenMovesEnds, CopyBegins, vars, listVars, argVars, loopVars

(* Of two listed names of equal files one has a line, and its file is gone.*)
LEMMA OneOfTwo ==
  ASSUME ReadsNames, ScriptInv, GoneInv, TwinInv, passed = Step, keepPos # "all",
         NEW i \in DOMAIN dupesLst, NEW j \in DOMAIN dupesLst, i < j,
         dupesLst[i] \in Path, dupesLst[j] \in Path,
         Held(dupesLst[i]) = Held(dupesLst[j])
  PROVE  Held(dupesLst[i]) = None
<1> SUFFICES ASSUME Held(dupesLst[i]) # None PROVE FALSE
  OBVIOUS
<1> DEFINE L == dupesLst
           a == <<Real[L[i]], Held(L[i])>>
           b == <<Real[L[j]], Held(L[j])>>
<1>1. ASSUME NEW k \in Goes(L), k \in DOMAIN L, L[k] \in Path PROVE Held(L[k]) = None
  <2>1. PICK l \in DOMAIN movesLst : ~ movesLst[l].keep /\ movesLst[l].path = Read[L[k]]
    BY DEF ScriptInv, DoneInv, Written, Step
  <2>2. movesLst[l].path # None /\ files[Real[movesLst[l].path]] = None
    BY <2>1 DEF GoneInv, Gone, Step
  <2>3. L[k] \in reached
    BY <1>1 DEF TwinInv, Noted, Step
  <2> QED BY <1>1, <2>1, <2>2, <2>3 DEF ReadsNames, Held
<1>2. a \in seen /\ b \in seen
  BY HeldSeen DEF ScriptInv
<1>3. a[1] = Real[L[i]] /\ b[1] = Real[L[j]] /\ a[2] = b[2]
  OBVIOUS
<1>4. i \in Goes(L) \/ j \in Goes(L)
  <2> HIDE DEF a, b
  <2>1. Twins(i, j, a, b)
    BY <1>3 DEF Twins
  <2> QED BY <1>2, <2>1 DEF TwinInv, Step
<1> QED BY <1>1, <1>4

(* Where the script takes no name for another, which Cleaned states, and   *)
(* as long as no name has stood for two files that differ: when all three  *)
(* steps have passed, no more than one file is left of every group that    *)
(* was listed, whatever was interrupted and done again before and by       *)
(* however many names a file was reached.                                  *)
THEOREM CleanupDone == Spec => [](OneData => Cleaned)
<1> DEFINE Good == ReadsNames => ScriptInv /\ (OneData => GoneInv /\ TwinInv)
<1>1. Init => Good
  <2>1. Init => GoneInv /\ TwinInv
    BY DEF Init, GoneInv, TwinInv
  <2> QED BY <2>1, ScriptInit
<1>2. Good /\ [Next]_vars => Good'
  <2> SUFFICES ASSUME Good, [Next]_vars, ReadsNames'
               PROVE  ScriptInv' /\ (OneData' => GoneInv' /\ TwinInv')
    OBVIOUS
  <2>1. ReadsNames
    BY ListChange
  <2>2. ScriptInv /\ (OneData => GoneInv /\ TwinInv)
    BY <2>1
  <2>3. ScriptInv'
    BY <2>1, <2>2, ScriptStep
  <2>4. OneData' => OneData
    BY <2>2, OneDataBefore
  <2> QED BY <2>2, <2>3, <2>4, GoneStep, TwinStep
<1>3. Good => (OneData => Cleaned)
  <2> SUFFICES ASSUME Good, OneData, ReadsNames, passed = Step, keepPos # "all",
                      NEW p \in ToSet(dupesLst) \cap Path,
                      NEW q \in ToSet(dupesLst) \cap Path,
                      Held(p) # None, Held(p) = Held(q), p # q
               PROVE  FALSE
    BY DEF Cleaned
  <2>1. PICK i \in DOMAIN dupesLst, j \in DOMAIN dupesLst : dupesLst[i] = p /\ dupesLst[j] = q
    BY DEF ToSet
  <2>2. dupesLst \in Seq(Path \cup {Blank})
    BY DEF TwinInv, Step
  <2>3. i < j \/ j < i
    BY <2>1, <2>2
  <2> QED BY <2>1, <2>3, OneOfTwo
<1> QED BY <1>1, <1>2, <1>3, PTL DEF Spec

===============================================================================
