------------------------------- MODULE MCBuckets -------------------------------
(* Buckets for TLC: unsigned ints of 3 bits, unsigned longs of 5, a        *)
(* table of 2 lists per bucket, numbers printed to the base 3.             *)
EXTENDS Buckets, TLC

CONSTANTS fa, fb, fc

Entries == {fa, fb, fc}
Files == Entries
Names == [f \in Entries |-> 1]
Threads == 1..2

(* Two files of one size; one of a size that shares their list in tables   *)
(* of 2 and 6 lists but not of 4; and one of no data.                      *)
FileData == {[size |-> 1, digest |-> 1], [size |-> 1, digest |-> 2],
             [size |-> 11, digest |-> 1], [size |-> 0, digest |-> 3]}

(* Entries are found in any order, so who is who does not matter, but for  *)
(* the two that may lead to one file.                                      *)
Rank(x) == 20 * x.size + x.digest
SortedDisks ==
  {d \in [Entries -> FileData] :
     /\ Rank(d[fa]) <= Rank(d[fb])
     /\ Rank(d[fb]) <= Rank(d[fc]) \/ d[fa] = d[fb]}

(* 1 and 2 digits for 1..2 and 3..7. *)
Base3 == [n \in 0..7 |-> IF n < 3 THEN 1 ELSE 2]

Num(n) == [digits |-> TRUE, value |-> n]
Text == [digits |-> FALSE, value |-> 0]
Arg(flag, typed) == [flag |-> flag, typed |-> typed]

(* Every entry leads to a file of its own; two sources reach one file. *)
Apart == [f \in Entries |-> f]
Overlapping == [f \in Entries |-> IF f = fb THEN fa ELSE f]
Sources(args, those) == [args |-> args, readable |-> those, target |-> Apart]
Line(args) == Sources(args, <<TRUE>>)

Lines == {
  Line(<<>>),                                    \* 2 lists
  Line(<<Arg("f", ""), Arg("b", Num(2)), Arg("j", Num(1))>>),
  [args |-> <<Arg("b", Num(3)), Arg("j", Num(1))>>,   \* 6 lists, mask 5
   readable |-> <<TRUE, TRUE>>, target |-> Overlapping],
  Line(<<Arg("b", Num(4))>>),                    \* the product wraps to 0
  Line(<<Arg("b", Text)>>),
  Line(<<Arg("b", Num(31))>>),                   \* ULONG_MAX
  Line(<<Arg("j", Num(9)), Arg("h", "")>>),      \* too big for an unsigned int
  Line(<<Arg("h", ""), Arg("b", Num(9))>>),
  Line(<<Arg("v", ""), Arg("V", "")>>),
  Line(<<Arg("o", "")>>),
  Line(<<Arg("o", "blocked")>>),
  Line(<<Arg("x", "")>>),
  Sources(<<>>, <<>>),
  Sources(<<>>, <<TRUE, FALSE>>)}

===============================================================================
