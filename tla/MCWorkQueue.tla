----------------------------- MODULE MCWorkQueue -----------------------------
(* WorkQueue with small sets of threads and items, for the .cfg files.     *)
(* Workers0 is what -j 0 gives: to_unsigned returns 0 for "0" and for text *)
(* that is no number, and opts_parse refuses UINT_MAX only.                *)
EXTENDS WorkQueue, TLC

CONSTANTS w1, w2, w3, f1, f2, f3, c1, c2, c3

Workers0 == {}
Workers2 == {w1, w2}
Workers3 == {w1, w2, w3}
Finds2 == {f1, f2}
Finds3 == {f1, f2, f3}
Compares2 == {c1, c2}
Compares3 == {c1, c2, c3}

(* Threads are interchangeable, and so are items of one kind. *)
Symmetry ==
  Permutations(Worker) \cup Permutations(FindItem) \cup Permutations(CompareItem)

===============================================================================
