----------------------------- MODULE MCFindDupes -----------------------------
(* FindDupes on a small tree of directories, for the .cfg files. *)
EXTENDS FindDupes, TLC

CONSTANTS w1, w2, top, sub, other, fa, fb, fc, fe

Workers2 == {w1, w2}
Subs == {sub}
Buckets == 0..1
Files == {fa, fb, fc, fe}

(* fa and fb are equal but in different directories, fc has their size     *)
(* only and is below another source, fe is empty; no file is in bucket 1.  *)
MCSize == fa :> 2 @@ fb :> 2 @@ fc :> 2 @@ fe :> 0
MCDigest == fa :> 1 @@ fb :> 1 @@ fc :> 2 @@ fe :> 0

Tree == top :> {sub, fa} @@ sub :> {fb, fe} @@ other :> {fc}
TwoSources == <<top, other>>

MCIndex(size) == size % Cardinality(Buckets)

===============================================================================
