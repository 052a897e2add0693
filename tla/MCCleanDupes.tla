----------------------------- MODULE MCCleanDupes -----------------------------
(* CleanDupes on small trees, for the .cfg files.  In groups of two,        *)
(* --keep-pos=1 is the mirror image of 2, and of last where a list is cut. *)
EXTENDS CleanDupes, TLC

CONSTANTS a, b, c, d, e, u, l, s, B1, B2

Paths == {a, b, c, d, e, u, l, s}
Backups == {B1, B2}
Keeps == {"2", "last"}
KeepLast == {"last"}
Symmetry == Permutations(Backup)

(* The names l, of the file a, and s, which the shell reads as a, are met  *)
(* only where they are given.                                              *)
Tree(data, names) ==
  [files |-> [p \in Path |-> IF p \in DOMAIN data THEN data[p] ELSE None],
   reached |-> Path \ ({l, s} \ names)]

(* Two groups of two.                                                      *)
Pairs == Tree(a :> "x" @@ b :> "x" @@ c :> "y" @@ d :> "y", {})

(* Two groups with a name that the shell reads as the name of no file, e,  *)
(* and a name the script refuses, u.                                       *)
OddNames == Tree(a :> "x" @@ e :> "x" @@ b :> "y" @@ u :> "y", {})

(* A name, s, that the shell reads as that of a file that has no equal.    *)
Stripped == Tree(s :> "x" @@ b :> "x" @@ a :> "w" @@ e :> "v", {s})

(* Sources that overlap: a is reached by the name l too.                   *)
Overlapping == Tree(a :> "x" @@ b :> "x" @@ e :> "v", {l})
OnlyOne == Tree(a :> "x", {l})

MCTrees == {Pairs, OddNames, Stripped, Overlapping}
OnePair == {Tree(a :> "x" @@ b :> "x", {})}
OneFile == {OnlyOne}

MCReal == [p \in Path |-> IF p = l THEN a ELSE p]
MCRead == [p \in Path |-> CASE p = e -> None [] p = s -> a [] OTHER -> p]
Odd == {u}
MCBase == a :> 1 @@ b :> 2 @@ c :> 1 @@ d :> 3 @@ e :> 4 @@ u :> 5 @@ l :> 6 @@ s :> 7

(* A new file under a name of its own, where e is free; a file under a     *)
(* name that may have been moved.                                          *)
NewName == {<<e, "z">>}
ComesBack == {<<a, "z">>}
NoNew == {}

===============================================================================
