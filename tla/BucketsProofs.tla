----------------------------- MODULE BucketsProofs -----------------------------
(***************************************************************************)
(* What holds of a run of find-dupes for any files, sizes and digests, any *)
(* number of threads and lists, and whatever signals and changes come: the *)
(* buffer in which a group is built is never overrun, no index leaves the  *)
(* table, no entry is named twice and none is left out, and files that     *)
(* nobody touches are grouped by what they hold.                           *)
(***************************************************************************)
EXTENDS Buckets, DataLemmas

(* Where a callback has a first entry, and where it has a pair.            *)
AtEntry == {"inner", "first", "second", "test", "last"}
AtPair == {"first", "second", "test"}

(* The types of what the buffers depend on.                                *)
Typed ==
  /\ opts.buckets \in Nat
  /\ count \in 0..UIntMax
  /\ chain \in [0..UIntMax -> Seq(Entry)]
  /\ claimed \in Nat
  /\ pc \in [Worker -> {"idle", "outer", "leave"} \cup AtEntry]
  /\ cb \in [Worker -> [bucket : Nat, i : Nat, j : Nat, group : Seq(Entry)]]
  /\ buf \in [Worker -> [len : Nat, cap : Nat, end : Nat]]

(* A thread in a callback has a bucket of its own, which keeps its files   *)
(* until the thread leaves it, and its two positions are in it.            *)
OwnBucket ==
  /\ phase \in {"parse", "find"} => \A w \in Worker : pc[w] = "idle"
  /\ \A w \in Worker : pc[w] # "idle" =>
       cb[w].bucket < claimed /\ cb[w].bucket \in 0..UIntMax
  /\ \A v, w \in Worker :
       pc[v] # "idle" /\ pc[w] # "idle" /\ cb[v].bucket = cb[w].bucket => v = w

(* The two entries a callback looks at are in its bucket.                  *)
InChain ==
  \A w \in Worker :
    /\ cb[w].i >= 1 /\ cb[w].j >= 1
    /\ pc[w] \in AtEntry => cb[w].i <= Len(Chain(w))
    /\ pc[w] \in AtPair => cb[w].j <= Len(Chain(w))

(* Once a group is begun there is room for the empty line that ends it.    *)
RoomLeft ==
  \A w \in Worker :
    pc[w] \in AtEntry /\ cb[w].group # <<>> => buf[w].len + 1 <= buf[w].cap

(* The inductive invariant of the buffers.                                 *)
BInv == Typed /\ OwnBucket /\ InChain /\ RoomLeft /\ BufferFits

-----------------------------------------------------------------------------
(* The arithmetic of one match: what sprintf writes for any number is in   *)
(* the room asked for, and leaves a byte for the empty line.               *)
LEMMA MatchFits ==
  ASSUME NEW b \in [len : Nat, cap : Nat, end : Nat], NEW f \in Entry,
         NEW n \in 0..UIntMax
  PROVE  /\ WriteMatch(b, f, n) \in [len : Nat, cap : Nat, end : Nat]
         /\ WriteMatch(b, f, n).end <= WriteMatch(b, f, n).cap
         /\ WriteMatch(b, f, n).len + 1 <= WriteMatch(b, f, n).cap
<1>1. NameLen[f] \in Nat /\ Width \in Nat /\ Digits[n] \in 1..Width
  BY BucketsAssumption
<1> QED
  BY <1>1 DEF WriteMatch

(* The first line of a group leaves a buffer.                              *)
LEMMA FirstTyped ==
  ASSUME NEW b \in [len : Nat, cap : Nat, end : Nat], NEW f \in Entry
  PROVE  WriteFirst(b, f) \in [len : Nat, cap : Nat, end : Nat]
<1>1. NameLen[f] \in Nat
  BY BucketsAssumption
<1> QED
  BY <1>1 DEF WriteFirst

(* Appending a file to a list gives a list.                                *)
LEMMA Sequences ==
  /\ <<>> \in Seq(Entry)
  /\ \A s \in Seq(Entry), f \in Entry : Append(s, f) \in Seq(Entry)
OBVIOUS

(* A number cut to an unsigned int is one.                                 *)
LEMMA UnsignedRange == \A n \in Nat : Unsigned(n) \in 0..UIntMax
<1>1. UIntMax \in Nat
  BY OptionsAssumption
<1> QED
  BY <1>1 DEF Unsigned

(* The options hold what a command line can make of them. *)
Parsed(args) ==
  [jobs : 0..UIntMax, buckets : 0..UIntMax, fileList : BOOLEAN, help : BOOLEAN,
   version : BOOLEAN, refused : BOOLEAN,
   dir : {"makeable"} \cup {args[k].typed : k \in DOMAIN args}]

(* One turn of the getopt_long loop keeps it so.                           *)
LEMMA OptsApplyTyped ==
  ASSUME NEW args, Typable(args), NEW k \in DOMAIN args, NEW o \in Parsed(args)
  PROVE  OptsApply(o, args[k]) \in Parsed(args)
<1>1. UIntMax \in Nat /\ ULongMax \in Nat
  BY OptionsAssumption
<1>2. args[k].flag \in {"j", "b"} => ToUnsigned(args[k].typed) \in 0..UIntMax
  BY <1>1 DEF Typable, ToUnsigned, Strtoul
<1> DEFINE u == ToUnsigned(args[k].typed)
<1>3. CASE o.refused
  BY <1>3 DEF OptsApply
<1>4. CASE ~o.refused
  <2>1. CASE args[k].flag \in {"j", "b"}
    <3>1. u \in 0..UIntMax /\ (u = UIntMax) \in BOOLEAN
      BY <1>2, <2>1
    <3> HIDE DEF u
    <3>2. /\ [o EXCEPT !.jobs = u, !.refused = u = UIntMax] \in Parsed(args)
          /\ [o EXCEPT !.buckets = u, !.refused = u = UIntMax] \in Parsed(args)
      BY <3>1 DEF Parsed
    <3> QED BY <1>4, <2>1, <3>2 DEF OptsApply, u
  <2>2. CASE args[k].flag \notin {"j", "b"}
    <3>1. /\ [o EXCEPT !.dir = args[k].typed] \in Parsed(args)
          /\ [o EXCEPT !.fileList = TRUE] \in Parsed(args)
          /\ [o EXCEPT !.help = TRUE] \in Parsed(args)
          /\ [o EXCEPT !.version = TRUE] \in Parsed(args)
          /\ [o EXCEPT !.refused = TRUE] \in Parsed(args)
      BY DEF Parsed
    <3> QED BY <1>4, <2>2, <3>1 DEF OptsApply
  <2> QED BY <2>1, <2>2
<1> QED BY <1>3, <1>4

(* The loop of opts_parse as a fold: what a set of arguments is worth, its *)
(* last one applied last.                                                  *)
LastOf(T) == CHOOSE x \in T : \A y \in T : x >= y
ParseOf(g, args) ==
  g = [T \in SUBSET DOMAIN args |->
         IF T = {} THEN OptsInit ELSE OptsApply(g[T \ {LastOf(T)}], args[LastOf(T)])]

(* A set of positions that is not empty has a last one.                    *)
LEMMA LastIsIn ==
  ASSUME NEW n \in Nat, NEW T \in SUBSET (1..n), T # {}
  PROVE  LastOf(T) \in T
<1> DEFINE N == {n - x : x \in T}
<1>1. N \in SUBSET Nat /\ N # {}
  <2>1. \A x \in T : n - x \in Nat
    OBVIOUS
  <2> QED BY <2>1
<1> HIDE DEF N
<1>2. PICK m \in N : \A y \in N : m <= y
  BY <1>1, LeastNatural
<1> USE DEF N
<1>3. PICK x \in T : m = n - x
  OBVIOUS
<1>4. \A y \in T : x >= y
  <2>1. SUFFICES ASSUME NEW y \in T PROVE x >= y
    OBVIOUS
  <2>2. n - x <= n - y
    BY <1>2, <1>3
  <2> QED BY <2>2
<1> QED BY <1>4 DEF LastOf

(* There is such a fold.                                                   *)
LEMMA ParseExists ==
  ASSUME NEW args, Typable(args)
  PROVE  \E g : ParseOf(g, args)
<1> DEFINE S == DOMAIN args
           V == Parsed(args)
           Value(g, T) ==
             IF T = {} THEN OptsInit ELSE OptsApply(g[T \ {LastOf(T)}], args[LastOf(T)])
           Small(n) == {T \in SUBSET S : Cardinality(T) <= n}
           Parses(n, g) == \A T \in Small(n) : g[T] = Value(g, T)
           Good == {n \in Nat : \E g \in [Small(n) -> V] : Parses(n, g)}
<1>1. Len(args) \in Nat /\ S = 1..Len(args)
  BY DEF Typable
<1>2. \A T \in SUBSET S : IsFiniteSet(T) /\ Cardinality(T) \in Nat
  <2>1. IsFiniteSet(S)
    BY <1>1, FS_Interval
  <2> QED BY <2>1, FS_Subset, FS_CardinalityType
<1>3. \A T \in SUBSET S : T # {} => LastOf(T) \in T
  BY <1>1, LastIsIn
<1>4. OptsInit \in V
  BY OptionsAssumption DEF OptsInit, Parsed
<1>5. ASSUME NEW k \in S, NEW o \in V PROVE OptsApply(o, args[k]) \in V
  BY OptsApplyTyped
<1> HIDE DEF V, S
<1>6. 0 \in Good
  <2> DEFINE g == [T \in Small(0) |-> OptsInit]
  <2>1. \A T \in Small(0) : T = {}
    BY <1>2, FS_EmptySet
  <2>2. Parses(0, g) /\ g \in [Small(0) -> V]
    BY <1>4, <2>1
  <2> HIDE DEF g, Parses, Small
  <2> QED BY <2>2
<1>7. ASSUME NEW n \in Good PROVE n + 1 \in Good
  <2>1. PICK g \in [Small(n) -> V] : Parses(n, g)
    OBVIOUS
  <2> DEFINE h == [T \in Small(n + 1) |-> Value(g, T)]
  <2>2. ASSUME NEW T \in Small(n + 1), T # {}
        PROVE  LastOf(T) \in S /\ T \ {LastOf(T)} \in Small(n)
    <3>1. LastOf(T) \in T
      BY <1>3, <2>2
    <3>2. Cardinality(T \ {LastOf(T)}) = Cardinality(T) - 1
      BY <1>2, <3>1, FS_RemoveElement
    <3> QED BY <1>2, <3>1, <3>2
  <2>3. \A T \in Small(n) : T \in Small(n + 1) /\ h[T] = g[T]
    BY <1>2, <2>1
  <2>4. h \in [Small(n + 1) -> V]
    <3>1. ASSUME NEW T \in Small(n + 1) PROVE Value(g, T) \in V
      <4>1. CASE T = {}
        BY <1>4, <4>1
      <4>2. CASE T # {}
        <5>1. g[T \ {LastOf(T)}] \in V
          BY <2>2, <4>2
        <5> QED BY <1>5, <2>2, <4>2, <5>1
      <4> QED BY <4>1, <4>2
    <3> HIDE DEF Value
    <3> QED BY <3>1
  <2>5. Parses(n + 1, h)
    BY <2>2, <2>3
  <2>6. n + 1 \in Nat
    OBVIOUS
  <2> HIDE DEF h, Parses, Small
  <2> QED BY <2>4, <2>5, <2>6
<1> HIDE DEF Good
<1>8. Cardinality(S) \in Good
  <2>1. Nat \subseteq Good
    BY <1>6, <1>7, NaturalInduction
  <2> QED BY <1>2, <2>1
<1>9. PICK g \in [Small(Cardinality(S)) -> V] : Parses(Cardinality(S), g)
  BY <1>8 DEF Good
<1>10. Small(Cardinality(S)) = SUBSET S
  <2>1. IsFiniteSet(S)
    BY <1>2
  <2> QED BY <2>1, FS_Subset
<1>11. g = [T \in SUBSET S |-> Value(g, T)]
  BY <1>9, <1>10
<1> QED BY <1>11 DEF ParseOf, S

(* Whatever is typed, the numbers that opts_parse leaves are unsigned      *)
(* ints.                                                                   *)
LEMMA OptsTyped ==
  ASSUME NEW args, Typable(args)
  PROVE  OptsParse(args) \in Parsed(args)
<1> DEFINE g == CHOOSE g : ParseOf(g, args)
<1>1. ParseOf(g, args)
  BY ParseExists
<1>2. OptsParse(args) = g[DOMAIN args]
  BY Zenon DEF OptsParse, FoldLeft, MapThenFoldSet, Max, LastOf, ParseOf
<1> HIDE DEF g
<1> DEFINE S == DOMAIN args
           H == {T \in SUBSET S : g[T] \in Parsed(args)}
<1>3. Len(args) \in Nat /\ S = 1..Len(args) /\ IsFiniteSet(S)
  BY FS_Interval DEF Typable
<1>4. {} \in H
  BY <1>1, OptionsAssumption DEF ParseOf, OptsInit, Parsed
<1>5. ASSUME NEW T \in SUBSET S, T # {}, \A x \in T : T \ {x} \in H PROVE T \in H
  <2>1. LastOf(T) \in T
    BY <1>3, <1>5, LastIsIn
  <2>2. g[T] = OptsApply(g[T \ {LastOf(T)}], args[LastOf(T)])
    BY <1>1, <1>5 DEF ParseOf
  <2>3. g[T \ {LastOf(T)}] \in Parsed(args)
    BY <1>5, <2>1
  <2> QED BY <2>1, <2>2, <2>3, OptsApplyTyped
<1> HIDE DEF H, S
<1>6. SUBSET S \subseteq H
  <2>1. IsFiniteSet(S)
    BY <1>3
  <2> QED BY <1>4, <1>5, <2>1, SubsetInduction
<1> QED BY <1>2, <1>6 DEF H, S

(* Main begins with no thread in a bucket and with empty buffers.          *)
LEMMA InitBInv == Init => BInv
<1> SUFFICES ASSUME Init PROVE BInv
  OBVIOUS
<1>1. UIntMax \in Nat
  BY OptionsAssumption
<1>2. opts.buckets \in Nat
  <2>1. PICK c \in CommandLine : opts = OptsParse(c.args)
    BY DEF Init
  <2>2. opts \in Parsed(c.args)
    BY <2>1, OptsTyped, BucketsAssumption
  <2> QED BY <1>1, <2>2 DEF Parsed
<1>3. Typed
  BY <1>1, <1>2 DEF Init, Typed, Idle, NoBuffer, AtEntry
<1>4. OwnBucket /\ InChain /\ RoomLeft /\ BufferFits
  BY DEF Init, OwnBucket, InChain, RoomLeft, BufferFits, Idle, NoBuffer, AtEntry, AtPair
<1> QED
  BY <1>3, <1>4 DEF BInv

-----------------------------------------------------------------------------
(* The steps of main, of the environment, and of each thread. *)

(* Steps that touch neither the table's lists nor the threads: signals,    *)
(* changes of files, and main when it stops or ends.                       *)
LEMMA QuietStep ==
  ASSUME BInv, UNCHANGED <<opts, count, chain, claimed, cbVars>>,
         phase' \in {"parse", "find"} => phase \in {"parse", "find"}
  PROVE  BInv'
BY DEF BInv, Typed, OwnBucket, InChain, RoomLeft, BufferFits, Chain, cbVars

(* Parsing the options sizes the table.                                    *)
LEMMA BeginStep == ASSUME BInv, Begin PROVE BInv'
<1>1. UIntMax \in Nat /\ Scale \in Nat
  BY OptionsAssumption, BucketsAssumption
<1>2. TableCount(opts.buckets) \in 0..UIntMax
  <2>1. Scale * opts.buckets \in Nat
    BY <1>1 DEF BInv, Typed
  <2> QED
    BY <2>1, UnsignedRange DEF TableCount
<1>3. Typed'
  BY <1>2 DEF Begin, BInv, Typed, optVars, cbVars
<1>4. (OwnBucket /\ InChain /\ RoomLeft /\ BufferFits)'
  BY DEF Begin, BInv, OwnBucket, InChain, RoomLeft, BufferFits, Chain, cbVars
<1> QED
  BY <1>3, <1>4 DEF BInv

(* A file goes to the tail of its list; no thread is in it yet.            *)
LEMMA ProcessFileStep == ASSUME BInv, NEW f \in Entry, ProcessFile(f) PROVE BInv'
<1>1. chain' = chain \/ \E b : chain' = [chain EXCEPT ![b] = Append(chain[b], f)]
  BY DEF ProcessFile
<1>2. chain' \in [0..UIntMax -> Seq(Entry)]
  <2>1. chain \in [0..UIntMax -> Seq(Entry)]
    BY DEF BInv, Typed
  <2>2. ASSUME NEW b, chain' = [chain EXCEPT ![b] = Append(chain[b], f)]
        PROVE  chain' \in [0..UIntMax -> Seq(Entry)]
    <3>1. b \in 0..UIntMax => Append(chain[b], f) \in Seq(Entry)
      BY <2>1, Sequences
    <3> QED
      BY <2>1, <2>2, <3>1
  <2> QED
    BY <1>1, <2>1, <2>2
<1>3. UNCHANGED <<opts, count, claimed, pc, cb, buf>> /\ phase = "find"
  BY DEF ProcessFile, optVars, cbVars
<1>4. Typed'
  BY <1>2, <1>3 DEF BInv, Typed
<1>5. \A w \in Worker : pc[w] = "idle"
  BY <1>3 DEF BInv, OwnBucket
<1>6. (OwnBucket /\ InChain /\ RoomLeft /\ BufferFits)'
  BY <1>3, <1>5 DEF BInv, OwnBucket, InChain, RoomLeft, BufferFits, AtEntry, AtPair
<1> QED
  BY <1>4, <1>6 DEF BInv

(* A thread takes a bucket nobody has had, and begins at its head.         *)
LEMMA ClaimStep == ASSUME BInv, NEW w \in Worker, Claim(w) PROVE BInv'
<1> DEFINE c == [Idle EXCEPT !.bucket = claimed]
<1>1. /\ phase = "compare" /\ phase' = phase
      /\ claimed < count /\ claimed' = claimed + 1
      /\ UNCHANGED <<opts, count, chain, buf>>
      /\ cb' = [cb EXCEPT ![w] = c]
  BY DEF Claim, Goes, Running, optVars, tableVars, LastBucket
<1>2. PICK to \in {"leave", "outer"} : pc' = [pc EXCEPT ![w] = to]
  BY DEF Claim, Goes
<1>3. c = [bucket |-> claimed, i |-> 1, j |-> 1, group |-> <<>>]
  BY DEF Idle
<1>4. claimed \in 0..UIntMax /\ UIntMax \in Nat
  BY <1>1, OptionsAssumption DEF BInv, Typed
<1>5. to # "idle" /\ to \notin AtEntry /\ to \notin AtPair
  BY DEF AtEntry, AtPair
<1> HIDE DEF c
<1>6. Typed'
  <2>1. c \in [bucket : Nat, i : Nat, j : Nat, group : Seq(Entry)]
    BY <1>3, <1>4, Sequences
  <2>2. cb' \in [Worker -> [bucket : Nat, i : Nat, j : Nat, group : Seq(Entry)]]
    BY <1>1, <2>1 DEF BInv, Typed
  <2>3. pc' \in [Worker -> {"idle", "outer", "leave"} \cup AtEntry]
    BY <1>2 DEF BInv, Typed
  <2>4. claimed' \in Nat
    BY <1>1, <1>4
  <2>5. Typed
    BY DEF BInv
  <2> QED
    BY <1>1, <2>2, <2>3, <2>4, <2>5 DEF Typed
<1>7. \A v \in Worker : cb'[v] = IF v = w THEN c ELSE cb[v]
  BY <1>1 DEF BInv, Typed
<1>8. \A v \in Worker : pc'[v] = IF v = w THEN to ELSE pc[v]
  BY <1>2 DEF BInv, Typed
<1>9. \A v \in Worker \ {w} : pc[v] # "idle" => cb[v].bucket < claimed
  BY DEF BInv, OwnBucket
<1>10. OwnBucket'
  <2>1. phase' \in {"parse", "find"} => \A v \in Worker : pc'[v] = "idle"
    BY <1>1
  <2>2. \A v \in Worker : pc'[v] # "idle" =>
          cb'[v].bucket < claimed' /\ cb'[v].bucket \in 0..UIntMax
    <3>1. cb'[w].bucket = claimed
      BY <1>3, <1>7
    <3>2. ASSUME NEW v \in Worker, v # w, pc'[v] # "idle"
          PROVE  cb'[v].bucket < claimed' /\ cb'[v].bucket \in 0..UIntMax
      <4>1. cb'[v] = cb[v] /\ pc[v] # "idle"
        BY <1>7, <1>8, <3>2
      <4>2. cb[v].bucket < claimed /\ cb[v].bucket \in 0..UIntMax
        BY <4>1 DEF BInv, OwnBucket
      <4> QED
        BY <1>1, <1>4, <4>1, <4>2
    <3> QED
      BY <1>1, <1>4, <3>1, <3>2
  <2>3. \A u, v \in Worker :
          pc'[u] # "idle" /\ pc'[v] # "idle" /\ cb'[u].bucket = cb'[v].bucket => u = v
    BY <1>3, <1>4, <1>7, <1>8, <1>9 DEF BInv, OwnBucket
  <2> QED
    BY <2>1, <2>2, <2>3 DEF OwnBucket
<1>11. InChain'
  BY <1>1, <1>3, <1>5, <1>7, <1>8 DEF BInv, InChain, Chain
<1>12. (RoomLeft /\ BufferFits)'
  BY <1>1, <1>5, <1>7, <1>8 DEF BInv, RoomLeft, BufferFits
<1> QED
  BY <1>6, <1>10, <1>11, <1>12 DEF BInv

(* A thread within its bucket moves to another place, with other positions *)
(* and another buffer: what must be shown of each such step.               *)
Record == [bucket : Nat, i : Nat, j : Nat, group : Seq(Entry)]
Buffer == [len : Nat, cap : Nat, end : Nat]

(* If the new positions are in the bucket and the new buffer holds what    *)
(* was written, with room for the empty line, the invariant is kept.       *)
LEMMA ThreadStep ==
  ASSUME BInv, NEW w \in Worker,
         NEW to \in {"outer", "leave"} \cup AtEntry, NEW c \in Record, NEW b \in Buffer,
         pc[w] # "idle",
         pc' = [pc EXCEPT ![w] = to],
         cb' = [cb EXCEPT ![w] = c],
         buf' = [buf EXCEPT ![w] = b],
         UNCHANGED <<opts, count, chain, claimed>>,
         phase' \in {phase, "exited"},
         c.bucket = cb[w].bucket, c.i >= 1, c.j >= 1,
         to \in AtEntry => c.i <= Len(Chain(w)),
         to \in AtPair => c.j <= Len(Chain(w)),
         to \in AtEntry /\ c.group # <<>> => b.len + 1 <= b.cap,
         b.end <= b.cap
  PROVE  BInv'
<1> USE DEF BInv, Typed, Record, Buffer
<1>1. Typed'
  OBVIOUS
<1>2. \A v \in Worker : cb'[v].bucket = cb[v].bucket
  OBVIOUS
<1>3. to # "idle"
  BY DEF AtEntry
<1>4. OwnBucket'
  <2>1. \A v \in Worker : pc'[v] # "idle" <=> pc[v] # "idle"
    BY <1>3
  <2>2. phase' \in {"parse", "find"} => phase \in {"parse", "find"}
    OBVIOUS
  <2> HIDE DEF Typed
  <2> QED
    BY <1>2, <2>1, <2>2 DEF OwnBucket
<1>5. \A v \in Worker : Chain(v)' = Chain(v)
  BY <1>2 DEF Chain
<1>6. InChain'
  BY <1>5 DEF InChain
<1>7. RoomLeft'
  BY DEF RoomLeft
<1>8. BufferFits'
  BY DEF BufferFits
<1> QED
  BY <1>1, <1>4, <1>6, <1>7, <1>8

(* What the invariant says of one thread.                                  *)
LEMMA Here ==
  ASSUME BInv, NEW w \in Worker
  PROVE  /\ cb[w] \in Record /\ cb = [cb EXCEPT ![w] = cb[w]]
         /\ buf[w] \in Buffer /\ buf = [buf EXCEPT ![w] = buf[w]]
         /\ buf[w].end <= buf[w].cap
         /\ pc[w] # "idle" => Chain(w) \in Seq(Entry)
         /\ cb[w].i >= 1 /\ cb[w].j >= 1
         /\ pc[w] \in AtEntry => /\ cb[w].i <= Len(Chain(w))
                                 /\ First(w) \in Entry
                                 /\ cb[w].group # <<>> => buf[w].len + 1 <= buf[w].cap
         /\ pc[w] \in AtPair => /\ cb[w].j <= Len(Chain(w))
                                /\ Second(w) \in Entry
<1> USE DEF BInv, Typed, Record, Buffer
<1>1. cb[w] \in Record /\ cb = [cb EXCEPT ![w] = cb[w]]
  OBVIOUS
<1>2. buf[w] \in Buffer /\ buf = [buf EXCEPT ![w] = buf[w]]
  OBVIOUS
<1>3. buf[w].end <= buf[w].cap
  BY DEF BufferFits
<1>4. pc[w] # "idle" => Chain(w) \in Seq(Entry)
  BY DEF OwnBucket, Chain
<1>5. cb[w].i >= 1 /\ cb[w].j >= 1
  BY DEF InChain
<1>6. pc[w] \in AtEntry => pc[w] # "idle" /\ cb[w].i <= Len(Chain(w))
  BY DEF InChain, AtEntry
<1>7. pc[w] \in AtPair => pc[w] # "idle" /\ cb[w].j <= Len(Chain(w))
  BY DEF InChain, AtPair
<1>8. pc[w] \in AtEntry => First(w) \in Entry
  BY <1>1, <1>4, <1>5, <1>6 DEF First
<1>9. pc[w] \in AtPair => Second(w) \in Entry
  BY <1>1, <1>4, <1>5, <1>7 DEF Second
<1> QED
  BY <1>1, <1>2, <1>3, <1>4, <1>5, <1>6, <1>7, <1>8, <1>9 DEF RoomLeft

(* The outer loop: the next entry, or the end of the bucket.               *)
LEMMA OuterStep == ASSUME BInv, NEW w \in Worker, Outer(w) PROVE BInv'
<1> USE Here
<1>1. UNCHANGED <<opts, count, chain, claimed, phase>> /\ pc[w] = "outer"
  BY DEF Outer, optVars, tableVars, Goes
<1>2. CASE cb[w].i > Len(Chain(w))
  <2>1. pc' = [pc EXCEPT ![w] = "leave"] /\ cb' = cb /\ buf' = buf
    BY <1>2 DEF Outer, Goes
  <2> QED
    BY <1>1, <2>1, ThreadStep DEF AtEntry, AtPair
<1>3. CASE ~(cb[w].i > Len(Chain(w))) /\ First(w) \in matched
  <2> DEFINE c == [cb[w] EXCEPT !.i = @ + 1]
  <2>1. pc' = [pc EXCEPT ![w] = "outer"] /\ cb' = [cb EXCEPT ![w] = c] /\ buf' = buf
    BY <1>3 DEF Outer, Goes, Successor
  <2>2. c \in Record /\ c.bucket = cb[w].bucket /\ c.i >= 1 /\ c.j >= 1
    BY DEF Record
  <2> QED
    BY <1>1, <2>1, <2>2, ThreadStep DEF AtEntry, AtPair
<1>4. CASE ~(cb[w].i > Len(Chain(w))) /\ First(w) \notin matched
  <2> DEFINE c == Pair(cb[w], cb[w].i + 1, <<>>)
  <2>1. /\ pc' = [pc EXCEPT ![w] = "inner"] /\ cb' = [cb EXCEPT ![w] = c]
        /\ buf' = [buf EXCEPT ![w] = NoBuffer]
    BY <1>4 DEF Outer, Goes
  <2>2. c \in Record /\ c.bucket = cb[w].bucket /\ c.i = cb[w].i /\ c.j >= 1 /\ c.group = <<>>
    BY Sequences DEF Record, Pair
  <2>3. NoBuffer \in Buffer /\ NoBuffer.end <= NoBuffer.cap
    BY DEF NoBuffer, Buffer
  <2>4. cb[w].i <= Len(Chain(w))
    BY <1>1, <1>4 DEF Record
  <2> HIDE DEF c
  <2> QED
    BY <1>1, <2>1, <2>2, <2>3, <2>4, ThreadStep DEF AtEntry, AtPair
<1> QED
  BY <1>2, <1>3, <1>4

(* The inner loop: the next entry to compare with, or the end.             *)
LEMMA InnerStep == ASSUME BInv, NEW w \in Worker, Inner(w) PROVE BInv'
<1> USE Here
<1>1. UNCHANGED <<opts, count, chain, claimed, phase, buf>> /\ pc[w] = "inner"
  BY DEF Inner, optVars, tableVars, Goes
<1>2. pc[w] \in AtEntry /\ pc[w] # "idle"
  BY <1>1 DEF AtEntry
<1>3. CASE cb[w].j > Len(Chain(w))
  <2>1. pc' = [pc EXCEPT ![w] = "last"] /\ cb' = cb
    BY <1>3 DEF Inner, Goes
  <2> QED
    BY <1>1, <1>2, <2>1, ThreadStep DEF AtEntry, AtPair
<1>4. CASE ~(cb[w].j > Len(Chain(w))) /\
           (Second(w) \in matched \/ key[First(w)] # key[Second(w)])
  <2> DEFINE c == [cb[w] EXCEPT !.j = @ + 1]
  <2>1. pc' = [pc EXCEPT ![w] = "inner"] /\ cb' = [cb EXCEPT ![w] = c]
    BY <1>4 DEF Inner, Goes
  <2>2. /\ c \in Record /\ c.bucket = cb[w].bucket /\ c.i = cb[w].i /\ c.j >= 1
        /\ c.group = cb[w].group
    BY DEF Record
  <2> HIDE DEF c
  <2> QED
    BY <1>1, <1>2, <2>1, <2>2, ThreadStep DEF AtEntry, AtPair
<1>5. CASE ~(cb[w].j > Len(Chain(w))) /\
           ~(Second(w) \in matched \/ key[First(w)] # key[Second(w)])
  <2>1. pc' = [pc EXCEPT ![w] = "first"] /\ cb' = cb
    BY <1>5 DEF Inner, Goes
  <2>2. cb[w].j <= Len(Chain(w))
    BY <1>2, <1>5 DEF Record
  <2> QED
    BY <1>1, <1>2, <2>1, <2>2, ThreadStep DEF AtEntry, AtPair
<1> QED
  BY <1>3, <1>4, <1>5

(* Computing a digest moves no position and writes nothing.                *)
LEMMA HashStep ==
  ASSUME BInv, NEW w \in Worker, HashFirst(w) \/ HashSecond(w) PROVE BInv'
<1>1. UNCHANGED <<opts, count, chain, claimed, cb, buf>> /\ phase' \in {phase, "exited"}
  BY DEF HashFirst, HashSecond, Hash, optVars, tableVars
<1>2. \/ pc[w] = "first" /\ pc' = [pc EXCEPT ![w] = "second"]
      \/ pc[w] = "second" /\ pc' = [pc EXCEPT ![w] = "test"]
  BY DEF HashFirst, HashSecond, Hash, Goes
<1>3. pc[w] \in AtPair /\ pc[w] \in AtEntry /\ pc[w] # "idle"
  BY <1>2 DEF AtEntry, AtPair
<1>4. PICK to \in {"second", "test"} : pc' = [pc EXCEPT ![w] = to]
  BY <1>2
<1>5. to \in {"outer", "leave"} \cup AtEntry
  BY DEF AtEntry
<1> QED
  BY <1>1, <1>3, <1>4, <1>5, Here, ThreadStep

(* The step that matters: the buffer grows by a first line or a match. *)
LEMMA TestStep == ASSUME BInv, NEW w \in Worker, Test(w) PROVE BInv'
<1> DEFINE group == IF cb[w].group = <<>> THEN <<First(w)>> ELSE cb[w].group
           before == IF cb[w].group = <<>> THEN WriteFirst(buf[w], First(w)) ELSE buf[w]
           after == WriteMatch(before, Second(w), Unsigned(Len(group) + 1))
           c == Pair(cb[w], cb[w].j + 1, Append(group, Second(w)))
           d == [cb[w] EXCEPT !.j = @ + 1]
<1> USE Here
<1>1. /\ pc[w] = "test" /\ pc' = [pc EXCEPT ![w] = "inner"]
      /\ UNCHANGED <<opts, count, chain, claimed, phase>>
  BY DEF Test, Goes, optVars, tableVars
<1>2. pc[w] # "idle" /\ pc[w] \in AtEntry /\ pc[w] \in AtPair
  BY <1>1 DEF AtEntry, AtPair
<1>3. group \in Seq(Entry)
  BY <1>2 DEF Record
<1>4. before \in Buffer
  BY <1>2, FirstTyped DEF Buffer
<1>5. Unsigned(Len(group) + 1) \in 0..UIntMax
  <2>1. Len(group) + 1 \in Nat
    BY <1>3
  <2> QED
    BY <2>1, UnsignedRange
<1>6. after \in Buffer /\ after.end <= after.cap /\ after.len + 1 <= after.cap
  BY <1>2, <1>4, <1>5, MatchFits DEF Buffer
<1>7. \/ cb' = [cb EXCEPT ![w] = c] /\ buf' = [buf EXCEPT ![w] = after]
      \/ cb' = [cb EXCEPT ![w] = d] /\ buf' = buf
  BY DEF Test
<1>8. c \in Record /\ c.bucket = cb[w].bucket /\ c.i = cb[w].i /\ c.j >= 1
  <2>1. Append(group, Second(w)) \in Seq(Entry)
    BY <1>2, <1>3, Sequences
  <2> HIDE DEF group
  <2> QED
    BY <2>1 DEF Record, Pair
<1>9. /\ d \in Record /\ d.bucket = cb[w].bucket /\ d.i = cb[w].i /\ d.j >= 1
      /\ d.group = cb[w].group
  BY DEF Record
<1>10. "inner" \in {"outer", "leave"} \cup AtEntry /\ "inner" \notin AtPair
  BY DEF AtEntry, AtPair
<1> HIDE DEF group, before, after, c, d
<1>11. CASE cb' = [cb EXCEPT ![w] = c] /\ buf' = [buf EXCEPT ![w] = after]
  BY <1>1, <1>2, <1>6, <1>8, <1>10, <1>11, ThreadStep
<1>12. CASE cb' = [cb EXCEPT ![w] = d] /\ buf' = buf
  BY <1>1, <1>2, <1>9, <1>10, <1>12, ThreadStep
<1> QED
  BY <1>7, <1>11, <1>12

(* The empty line that ends a group is in the room its last match left.    *)
LEMMA WriteOutStep == ASSUME BInv, NEW w \in Worker, WriteOut(w) PROVE BInv'
<1> DEFINE c == [cb[w] EXCEPT !.i = Successor(w)]
           b == EndGroup(buf[w])
<1> USE Here
<1>1. UNCHANGED <<opts, count, chain, claimed, phase>> /\ pc[w] = "last"
  BY DEF WriteOut, Goes, optVars, tableVars
<1>2. pc[w] # "idle" /\ pc[w] \in AtEntry
  BY <1>1 DEF AtEntry
<1>3. c \in Record /\ c.bucket = cb[w].bucket /\ c.i >= 1 /\ c.j >= 1
  BY DEF Record, Successor
<1>4. b \in Buffer /\ (cb[w].group # <<>> => b.end <= b.cap)
  <2>1. buf[w].len \in Nat /\ buf[w].cap \in Nat
    BY DEF Buffer
  <2> QED
    BY <1>2, <2>1 DEF Buffer, EndGroup
<1>5. \/ pc' = [pc EXCEPT ![w] = "leave"] /\ cb' = cb /\ buf' = buf
      \/ /\ pc' = [pc EXCEPT ![w] = "outer"] /\ cb' = [cb EXCEPT ![w] = c]
         /\ \/ cb[w].group # <<>> /\ buf' = [buf EXCEPT ![w] = b]
            \/ buf' = buf
  BY DEF WriteOut, Goes
<1>6. /\ {"outer", "leave"} \subseteq {"outer", "leave"} \cup AtEntry
      /\ "outer" \notin AtEntry \cup AtPair /\ "leave" \notin AtEntry \cup AtPair
  BY DEF AtEntry, AtPair
<1> HIDE DEF b, c
<1>7. CASE pc' = [pc EXCEPT ![w] = "leave"] /\ cb' = cb /\ buf' = buf
  BY <1>1, <1>2, <1>6, <1>7, ThreadStep
<1>8. CASE /\ pc' = [pc EXCEPT ![w] = "outer"] /\ cb' = [cb EXCEPT ![w] = c]
           /\ cb[w].group # <<>> /\ buf' = [buf EXCEPT ![w] = b]
  BY <1>1, <1>2, <1>3, <1>4, <1>6, <1>8, ThreadStep
<1>9. CASE pc' = [pc EXCEPT ![w] = "outer"] /\ cb' = [cb EXCEPT ![w] = c] /\ buf' = buf
  BY <1>1, <1>2, <1>3, <1>6, <1>9, ThreadStep
<1> QED
  BY <1>5, <1>7, <1>8, <1>9

(* The bucket a thread empties is nobody else's. *)
LEMMA LeaveStep == ASSUME BInv, NEW w \in Worker, Leave(w) PROVE BInv'
<1>1. /\ pc[w] = "leave" /\ pc' = [pc EXCEPT ![w] = "idle"]
      /\ chain' = [chain EXCEPT ![cb[w].bucket] = <<>>]
      /\ UNCHANGED <<opts, count, claimed, phase, cb, buf>>
  BY DEF Leave, Goes, optVars
<1>2. Typed'
  BY <1>1, Sequences DEF BInv, Typed
<1>3. \A v \in Worker : pc'[v] = IF v = w THEN "idle" ELSE pc[v]
  BY <1>1 DEF BInv, Typed
<1>4. OwnBucket'
  BY <1>1, <1>3 DEF BInv, OwnBucket
<1>5. ASSUME NEW v \in Worker, v # w, pc[v] # "idle" PROVE Chain(v)' = Chain(v)
  <2>1. cb[v].bucket # cb[w].bucket /\ cb[v].bucket \in 0..UIntMax
    BY <1>1, <1>5 DEF BInv, OwnBucket
  <2> QED
    BY <1>1, <2>1 DEF Chain, BInv, Typed
<1>6. InChain'
  BY <1>1, <1>3, <1>5 DEF BInv, InChain, AtEntry, AtPair
<1>7. (RoomLeft /\ BufferFits)'
  BY <1>1, <1>3 DEF BInv, RoomLeft, BufferFits, AtEntry
<1> QED
  BY <1>2, <1>4, <1>6, <1>7 DEF BInv

(* Every step keeps the invariant of the buffers.                          *)
LEMMA BInductive == BInv /\ [Next]_vars => BInv'
<1> SUFFICES ASSUME BInv, [Next]_vars PROVE BInv'
  OBVIOUS
<1>1. ASSUME FindEnds \/ FindStops \/ CompareEnds \/ Signal \/ Ended \/ UNCHANGED vars
      PROVE  BInv'
  <2>1. UNCHANGED <<opts, count, chain, claimed, cbVars>>
    BY <1>1 DEF FindEnds, FindStops, CompareEnds, Signal, Ended, vars, optVars,
       tableVars,
       cbVars
  <2>2. phase' \in {"parse", "find"} => phase \in {"parse", "find"}
    BY <1>1 DEF FindEnds, FindStops, CompareEnds, Signal, Ended, vars
  <2> QED
    BY <2>1, <2>2, QuietStep
<1>2. ASSUME NEW f \in Entry, NEW d \in Data \cup {Gone}, Change(f, d) PROVE BInv'
  BY <1>2, QuietStep DEF Change, optVars, tableVars
<1>3. ASSUME NEW w \in Worker, WorkerStep(w) PROVE BInv'
  BY <1>3, ClaimStep, OuterStep, InnerStep, HashStep, TestStep, WriteOutStep, LeaveStep
  DEF WorkerStep
<1> QED
  BY <1>1, <1>2, <1>3, BeginStep, ProcessFileStep DEF Next, MainStep

(* No write to a dupe buffer goes beyond its end, neither the null byte of *)
(* sprintf nor the empty line that is added with no realloc                *)
(* (compare.c:42-68, 202).                                                 *)
THEOREM NoOverrun == Spec => []BufferFits
<1>1. BInv => BufferFits
  BY DEF BInv
<1> QED
  BY <1>1, InitBInv, BInductive, PTL DEF Spec

-----------------------------------------------------------------------------
(* The mask.  And is well defined on all unsigned ints, and never more     *)
(* than its first operand.                                                 *)
Ands(g, k) ==
  g = [m \in 0..k |->
         [n \in 0..UIntMax |->
            IF m = 0 THEN 0 ELSE 2 * g[m \div 2][n \div 2] + (m % 2) * (n % 2)]]

(* There is such a function, up to any number.                             *)
LEMMA AndExists == \E g : Ands(g, UIntMax)
<1>1. UIntMax \in Nat
  BY OptionsAssumption
<1> DEFINE H == {k \in Nat : \E g : Ands(g, k)}
<1>2. 0 \in H
  <2> DEFINE g == [m \in 0..0 |-> [n \in 0..UIntMax |-> 0]]
  <2>1. Ands(g, 0)
    BY DEF Ands
  <2> QED BY <2>1
<1>3. ASSUME NEW k \in Nat, k \in H PROVE k + 1 \in H
  <2>1. PICK g : Ands(g, k)
    BY <1>3
  <2> DEFINE row(f, m) ==
               [n \in 0..UIntMax |->
                  IF m = 0 THEN 0 ELSE 2 * f[m \div 2][n \div 2] + (m % 2) * (n % 2)]
             h == [m \in 0..(k + 1) |-> row(g, m)]
  <2>2. \A m \in 0..k : g[m] = row(g, m)
    BY <2>1 DEF Ands
  <2>3. \A m \in 0..k : m \in 0..(k + 1) /\ h[m] = g[m]
    BY <2>2
  <2>4. \A m \in 0..(k + 1) : m # 0 => m \div 2 \in 0..k
    OBVIOUS
  <2>5. ASSUME NEW m \in 0..(k + 1) PROVE row(h, m) = row(g, m)
    <3> HIDE DEF h
    <3>1. m # 0 => h[m \div 2] = g[m \div 2]
      BY <2>3, <2>4
    <3> QED BY <3>1
  <2>6. h = [m \in 0..(k + 1) |-> row(h, m)]
    BY <2>5
  <2>7. Ands(h, k + 1)
    BY <2>6 DEF Ands
  <2> HIDE DEF h, row
  <2> QED BY <2>7
<1> HIDE DEF H
<1>4. UIntMax \in H
  BY <1>1, <1>2, <1>3, NaturalInduction
<1> QED BY <1>4 DEF H

(* A result is a number and no greater than the first operand.             *)
LEMMA AndBelow == \A m, n \in 0..UIntMax : BitAnd(m, n) \in 0..m
<1>1. UIntMax \in Nat
  BY OptionsAssumption
<1>2. Ands(And, UIntMax)
  BY AndExists, Zenon DEF And, Ands
<1>3. \A m, n \in 0..UIntMax :
        And[m][n] = IF m = 0 THEN 0 ELSE 2 * And[m \div 2][n \div 2] + (m % 2) * (n % 2)
  <2> DEFINE row(m) == [n \in 0..UIntMax |->
                 IF m = 0 THEN 0 ELSE 2 * And[m \div 2][n \div 2] + (m % 2) * (n % 2)]
  <2>1. And = [m \in 0..UIntMax |-> row(m)]
    BY <1>2 DEF Ands
  <2>2. \A m, n \in 0..UIntMax :
          row(m)[n] = IF m = 0 THEN 0 ELSE 2 * And[m \div 2][n \div 2] + (m % 2) * (n % 2)
    OBVIOUS
  <2> HIDE DEF row
  <2>3. \A m \in 0..UIntMax : And[m] = row(m)
    BY <2>1
  <2> QED BY <2>2, <2>3
<1> DEFINE H == {k \in Nat : \A m, n \in 0..UIntMax : m <= k => And[m][n] \in 0..m}
<1>4. 0 \in H
  BY <1>3
<1>5. ASSUME NEW k \in Nat, k \in H PROVE k + 1 \in H
  <2> SUFFICES ASSUME NEW m \in 0..UIntMax, NEW n \in 0..UIntMax, m <= k + 1, m # 0
               PROVE  And[m][n] \in 0..m
    BY <1>3
  <2>1. m \div 2 \in 0..UIntMax /\ m \div 2 <= k /\ n \div 2 \in 0..UIntMax
    BY <1>1
  <2> DEFINE x == And[m \div 2][n \div 2]
  <2>2. x \in 0..(m \div 2)
    BY <1>5, <2>1
  <2>3. And[m][n] = 2 * x + (m % 2) * (n % 2)
    BY <1>3, SMTT(30)
  <2>4. (m % 2) * (n % 2) \in {0, m % 2}
    <3>1. m % 2 \in {0, 1} /\ n % 2 \in {0, 1}
      BY <1>1
    <3> QED BY <3>1
  <2>5. m = 2 * (m \div 2) + (m % 2) /\ m % 2 \in 0..1 /\ m \div 2 \in Nat
    BY <1>1
  <2> DEFINE q == m \div 2
             r == m % 2
             p == (m % 2) * (n % 2)
  <2>6. /\ x \in 0..q /\ q \in Nat /\ r \in 0..1 /\ p \in {0, r}
        /\ And[m][n] = 2 * x + p /\ m = 2 * q + r
    BY <2>2, <2>3, <2>4, <2>5
  <2> HIDE DEF x, q, r, p
  <2> QED BY <2>6
<1> HIDE DEF H
<1>6. Nat \subseteq H
  BY <1>4, <1>5, NaturalInduction
<1>7. \A m \in 0..UIntMax : m \in H
  BY <1>6
<1> QED BY <1>7 DEF H, BitAnd

(* A number plus a whole turn of the counter is the number.                *)
LEMMA Wraps == \A n \in 0..UIntMax : Unsigned(n + (UIntMax + 1)) = n
<1> SUFFICES ASSUME NEW n \in 0..UIntMax PROVE Unsigned(n + (UIntMax + 1)) = n
  OBVIOUS
<1> DEFINE M == UIntMax + 1
<1>1. M \in Nat /\ M > 0 /\ n \in 0..(M - 1) /\ n \in Nat
  BY OptionsAssumption
<1> HIDE DEF M
<1>2. (n + M) % M = n
  BY <1>1, Z3
<1> QED BY <1>2 DEF M, Unsigned

(* hash_table_index stays below the number of lists.                       *)
LEMMA IndexBelow ==
  ASSUME count \in 1..UIntMax, NEW k \in Nat
  PROVE  Index(k) \in 0..(count - 1)
<1>1. UIntMax \in Nat
  BY OptionsAssumption
<1>2. Unsigned(count + UIntMax) = count - 1
  <2>1. count - 1 \in 0..UIntMax /\ (count - 1) + (UIntMax + 1) = count + UIntMax
    BY <1>1
  <2> QED BY <2>1, Wraps
<1>3. Unsigned(k) \in 0..UIntMax
  BY UnsignedRange
<1>4. count - 1 \in 0..UIntMax
  BY <1>1
<1> QED BY <1>2, <1>3, <1>4, AndBelow DEF Index

-----------------------------------------------------------------------------
(* What the steps do, value by value.                                      *)
Still ==
  /\ UNCHANGED <<opts, count, chain, extras, key, digest, matched, claimed, pc, cb>>
  /\ UNCHANGED <<files, empty, dupes, unique>>
  /\ phase' \in {phase, "stopped", "done"}
  /\ phase' = "done" /\ phase' # phase =>
       /\ ~term /\ phase = "compare" /\ claimed = count
       /\ \A w \in Worker : pc[w] = "idle"
  /\ phase' = phase \/ term' = term
  /\ term' \in {term, TRUE}
  /\ phase \in {"parse", "done"} => UNCHANGED term
  /\ \/ UNCHANGED <<disk, changed>>
     \/ \E those \in SUBSET Entry, d \in Data \cup {Gone} :
          /\ disk' = [f \in Entry |-> IF f \in those THEN d ELSE disk[f]]
          /\ changed' = changed \cup those

(* A thread w moves within its bucket, or the program exits under it.      *)
Within(w) ==
  /\ phase = "compare" /\ phase' \in {"compare", "exited"}
  /\ pc[w] # "idle" /\ pc'[w] # "idle"
  /\ \A v \in Worker \ {w} : pc'[v] = pc[v] /\ cb'[v] = cb[v]
  /\ UNCHANGED <<opts, term, disk, changed, count, chain, extras, key, claimed>>
  /\ UNCHANGED <<files, empty>>

(* Where it stands then.                                                   *)
Now(w, to, i, j, group) ==
  /\ pc'[w] = to
  /\ cb'[w].bucket = cb[w].bucket /\ cb'[w].i = i /\ cb'[w].j = j
  /\ cb'[w].group = group

(* The steps of main, of a signal and of the world that are so.            *)
LEMMA StillSteps ==
  ASSUME BInv,
         \/ FindStops \/ CompareEnds \/ Signal \/ Ended \/ UNCHANGED vars
         \/ \E f \in Entry, d \in Data \cup {Gone} : Change(f, d)
  PROVE  Still
<1> USE DEF Still, vars, optVars, diskVars, tableVars, markVars, cbVars, outVars
<1>1. CASE FindStops
  BY <1>1 DEF FindStops
<1>2. CASE CompareEnds
  BY <1>2 DEF CompareEnds, LastBucket
<1>3. CASE Signal
  BY <1>3 DEF Signal
<1>4. CASE Ended \/ UNCHANGED vars
  BY <1>4 DEF Ended
<1>5. ASSUME NEW f \in Entry, NEW d \in Data \cup {Gone}, Change(f, d)
      PROVE  Still
  <2> DEFINE those == {g \in Entry : target[g] = target[f]}
  <2>1. /\ disk' = [g \in Entry |-> IF g \in those THEN d ELSE disk[g]]
        /\ changed' = changed \cup those
    BY <1>5 DEF Change
  <2>2. those \in SUBSET Entry
    OBVIOUS
  <2>3. UNCHANGED <<opts, phase, term, count, chain, extras, key, digest, matched,
                    claimed, pc, cb, files, empty, dupes, unique>>
    BY <1>5 DEF Change
  <2> HIDE DEF those
  <2> QED BY <2>1, <2>2, <2>3
<1> QED BY <1>1, <1>2, <1>3, <1>4, <1>5

(* One turn of the outer loop: the end, an entry to pass over, or a first  *)
(* entry.                                                                  *)
OuterEffect(w) ==
  LET c == cb[w]
  IN  /\ Within(w) /\ pc[w] = "outer"
      /\ UNCHANGED <<phase, digest, matched, dupes, unique>>
      /\ \/ c.i > Len(Chain(w)) /\ Now(w, "leave", c.i, c.j, c.group)
         \/ /\ c.i <= Len(Chain(w)) /\ First(w) \in matched
            /\ Now(w, "outer", c.i + 1, c.j, c.group)
         \/ /\ c.i <= Len(Chain(w)) /\ First(w) \notin matched
            /\ Now(w, "inner", c.i, c.i + 1, <<>>)

(* The step of the outer loop has this effect.                             *)
LEMMA OuterDoes ==
  ASSUME BInv, NEW w \in Worker, Outer(w)
  PROVE  OuterEffect(w)
<1> USE DEF OuterEffect, Within, Now, optVars, diskVars, tableVars, markVars, outVars,
    BInv, Typed
<1>1. Within(w) /\ pc[w] = "outer" /\ UNCHANGED <<phase, digest, matched, dupes, unique>>
  BY DEF Outer, Goes, Running
<1>2. cb[w].i \in Nat /\ Len(Chain(w)) \in Nat
  BY <1>1 DEF OwnBucket, Chain
<1>3. CASE cb[w].i > Len(Chain(w))
  BY <1>1, <1>3 DEF Outer, Goes
<1>4. CASE cb[w].i <= Len(Chain(w)) /\ First(w) \in matched
  <2>1. ~ (cb[w].i > Len(Chain(w)))
    BY <1>2, <1>4
  <2>2. cb' = [cb EXCEPT ![w].i = @ + 1] /\ pc' = [pc EXCEPT ![w] = "outer"]
    BY <1>4, <2>1 DEF Outer, Goes, Successor
  <2> QED BY <1>1, <1>4, <2>2
<1>5. CASE cb[w].i <= Len(Chain(w)) /\ First(w) \notin matched
  <2>1. ~ (cb[w].i > Len(Chain(w)))
    BY <1>2, <1>5
  <2>2. cb' = [cb EXCEPT ![w] = Pair(@, @.i + 1, <<>>)] /\ pc' = [pc EXCEPT ![w] = "inner"]
    BY <1>5, <2>1 DEF Outer, Goes
  <2> QED BY <1>1, <1>5, <2>2 DEF Pair
<1> QED BY <1>2, <1>3, <1>4, <1>5

(* One turn of the inner loop: the end, an entry to pass over, or a pair.  *)
InnerEffect(w) ==
  LET c == cb[w]
  IN  /\ Within(w) /\ pc[w] = "inner"
      /\ UNCHANGED <<phase, digest, matched, dupes, unique>>
      /\ \/ c.j > Len(Chain(w)) /\ Now(w, "last", c.i, c.j, c.group)
         \/ /\ c.j <= Len(Chain(w))
            /\ Second(w) \in matched \/ key[First(w)] # key[Second(w)]
            /\ Now(w, "inner", c.i, c.j + 1, c.group)
         \/ /\ c.j <= Len(Chain(w))
            /\ Second(w) \notin matched /\ key[First(w)] = key[Second(w)]
            /\ Now(w, "first", c.i, c.j, c.group)

(* The step of the inner loop has this effect.                             *)
LEMMA InnerDoes ==
  ASSUME BInv, NEW w \in Worker, Inner(w)
  PROVE  InnerEffect(w)
<1> USE DEF InnerEffect, Within, Now, optVars, diskVars, tableVars, markVars, outVars,
    BInv, Typed
<1>1. Within(w) /\ pc[w] = "inner" /\ UNCHANGED <<phase, digest, matched, dupes, unique>>
  BY DEF Inner, Goes, Running
<1>2. cb[w].j \in Nat /\ Len(Chain(w)) \in Nat
  BY <1>1 DEF OwnBucket, Chain
<1>3. CASE cb[w].j > Len(Chain(w))
  BY <1>1, <1>3 DEF Inner, Goes
<1> DEFINE skip == Second(w) \in matched \/ key[First(w)] # key[Second(w)]
<1>4. CASE cb[w].j <= Len(Chain(w)) /\ skip
  <2>1. ~ (cb[w].j > Len(Chain(w)))
    BY <1>2, <1>4
  <2>2. cb' = [cb EXCEPT ![w].j = @ + 1] /\ pc' = [pc EXCEPT ![w] = "inner"]
    BY <1>4, <2>1 DEF Inner, Goes
  <2> QED BY <1>1, <1>4, <2>2
<1>5. CASE cb[w].j <= Len(Chain(w)) /\ ~skip
  <2>1. ~ (cb[w].j > Len(Chain(w)))
    BY <1>2, <1>5
  <2>2. cb' = cb /\ pc' = [pc EXCEPT ![w] = "first"]
    BY <1>5, <2>1 DEF Inner, Goes
  <2> QED BY <1>1, <1>5, <2>2
<1> QED BY <1>2, <1>3, <1>4, <1>5

(* f is the file that is hashed.                                           *)
Hashes(w, f) ==
  \/ digest[f] # Zero /\ UNCHANGED <<digest, phase>>
  \/ /\ digest[f] = Zero /\ disk[f] # Gone
     /\ digest' = [digest EXCEPT ![f] = disk[f].digest] /\ UNCHANGED phase
  \/ phase' = "exited" /\ UNCHANGED digest

(* The digest of the first entry or of the second.                         *)
HashEffect(w) ==
  LET c == cb[w]
  IN  /\ Within(w) /\ UNCHANGED <<matched, dupes, unique>>
      /\ \/ /\ pc[w] = "first" /\ Hashes(w, First(w))
            /\ Now(w, "second", c.i, c.j, c.group)
         \/ /\ pc[w] = "second" /\ Hashes(w, Second(w))
            /\ Now(w, "test", c.i, c.j, c.group)

(* The two steps that compute a digest have this effect.                   *)
LEMMA HashDoes ==
  ASSUME BInv, NEW w \in Worker, HashFirst(w) \/ HashSecond(w)
  PROVE  HashEffect(w)
<1> USE DEF HashEffect, Within, Now, optVars, diskVars, tableVars, outVars, BInv,
    Typed, Hashes,
        DigestIsEmpty, Mappable
<1>1. CASE HashFirst(w)
  BY <1>1 DEF HashFirst, Hash, Goes, Running
<1>2. CASE HashSecond(w)
  BY <1>2 DEF HashSecond, Hash, Goes, Running
<1> QED BY <1>1, <1>2

(* The group to which a match is added.                                    *)
Begun(w) == IF cb[w].group = <<>> THEN <<First(w)>> ELSE cb[w].group

(* A match, which is marked and joins the group, or a difference.          *)
TestEffect(w) ==
  LET c == cb[w]
  IN  /\ Within(w) /\ pc[w] = "test" /\ UNCHANGED <<phase, digest, dupes, unique>>
      /\ \/ /\ digest[First(w)] = digest[Second(w)]
            /\ matched' = matched \cup {Second(w)}
            /\ Now(w, "inner", c.i, c.j + 1, Append(Begun(w), Second(w)))
         \/ /\ digest[First(w)] # digest[Second(w)] /\ matched' = matched
            /\ Now(w, "inner", c.i, c.j + 1, c.group)

(* The comparison of two digests has this effect.                          *)
LEMMA TestDoes ==
  ASSUME BInv, NEW w \in Worker, Test(w)
  PROVE  TestEffect(w)
<1> USE DEF TestEffect, Within, Now, optVars, diskVars, tableVars, outVars, BInv, Typed
<1>1. Within(w) /\ pc[w] = "test" /\ pc'[w] = "inner"
      /\ UNCHANGED <<phase, digest, dupes, unique>>
  BY DEF Test, Goes, Running
<1>2. CASE digest[First(w)] = digest[Second(w)]
  <2>1. matched' = matched \cup {Second(w)}
    BY <1>2 DEF Test, Marked
  <2>2. cb' = [cb EXCEPT ![w] = Pair(@, @.j + 1, Append(Begun(w), Second(w)))]
    BY <1>2 DEF Test, Begun
  <2> QED BY <1>1, <1>2, <2>1, <2>2 DEF Pair
<1>3. CASE digest[First(w)] # digest[Second(w)]
  <2>1. cb' = [cb EXCEPT ![w].j = @ + 1] /\ UNCHANGED matched
    BY <1>3 DEF Test
  <2> QED BY <1>1, <1>3, <2>1
<1> QED BY <1>2, <1>3

(* The callback gives up, or writes the group or the unique name and goes  *)
(* on.                                                                     *)
WriteOutEffect(w) ==
  LET c == cb[w]
  IN  /\ Within(w) /\ pc[w] = "last" /\ UNCHANGED <<phase, digest, matched>>
      /\ \/ /\ term /\ UNCHANGED <<dupes, unique>>
            /\ Now(w, "leave", c.i, c.j, c.group)
         \/ /\ ~term /\ Now(w, "outer", c.i + 1, c.j, c.group)
            /\ \/ /\ c.group # <<>>
                  /\ dupes' = Append(dupes, c.group) /\ unique' = unique
               \/ /\ c.group = <<>>
                  /\ unique' = Append(unique, First(w)) /\ dupes' = dupes

(* The step at the end of the inner loop has this effect.                  *)
LEMMA WriteOutDoes ==
  ASSUME BInv, NEW w \in Worker, WriteOut(w)
  PROVE  WriteOutEffect(w)
<1> USE DEF WriteOutEffect, Within, Now, optVars, diskVars, tableVars, markVars,
    outVars, BInv, Typed
<1>1. Within(w) /\ pc[w] = "last" /\ UNCHANGED <<phase, digest, matched>>
  BY DEF WriteOut, Goes, Running
<1>2. CASE term
  BY <1>1, <1>2 DEF WriteOut, Goes
<1>3. CASE ~term
  <2>1. cb' = [cb EXCEPT ![w].i = Successor(w)] /\ pc' = [pc EXCEPT ![w] = "outer"]
    BY <1>3 DEF WriteOut, Goes
  <2>2. \/ /\ cb[w].group # <<>>
           /\ dupes' = Append(dupes, cb[w].group) /\ unique' = unique
        \/ /\ cb[w].group = <<>>
           /\ unique' = Append(unique, First(w)) /\ dupes' = dupes
    BY <1>3 DEF WriteOut
  <2> QED BY <1>1, <1>3, <2>1, <2>2 DEF Successor
<1> QED BY <1>2, <1>3

(* An idle thread takes the oldest bucket nobody has.                      *)
ClaimEffect(w) ==
  /\ phase = "compare" /\ pc[w] = "idle" /\ claimed < count /\ claimed' = claimed + 1
  /\ cb'[w] = [bucket |-> claimed, i |-> 1, j |-> 1, group |-> <<>>]
  /\ pc'[w] = IF term THEN "leave" ELSE "outer"
  /\ \A v \in Worker \ {w} : pc'[v] = pc[v] /\ cb'[v] = cb[v]
  /\ UNCHANGED <<opts, phase, term, disk, changed, count, chain, extras, key>>
  /\ UNCHANGED <<digest, matched, files, empty, dupes, unique>>

(* Taking a bucket has this effect.                                        *)
LEMMA ClaimDoes ==
  ASSUME BInv, NEW w \in Worker, Claim(w)
  PROVE  ClaimEffect(w)
<1> USE DEF Claim, Goes, Running, Idle, LastBucket, BInv, Typed, optVars, diskVars,
    tableVars,
        markVars, outVars
<1>1. /\ phase = "compare" /\ pc[w] = "idle" /\ claimed < count /\ claimed' = claimed + 1
      /\ UNCHANGED <<opts, phase, term, disk, changed, count, chain, extras, key>>
      /\ UNCHANGED <<digest, matched, files, empty, dupes, unique>>
  OBVIOUS
<1>2. cb'[w] = [bucket |-> claimed, i |-> 1, j |-> 1, group |-> <<>>]
  OBVIOUS
<1>3. /\ pc'[w] = IF term THEN "leave" ELSE "outer"
      /\ \A v \in Worker \ {w} : pc'[v] = pc[v] /\ cb'[v] = cb[v]
  OBVIOUS
<1> QED BY <1>1, <1>2, <1>3 DEF ClaimEffect

(* The bucket is emptied and given back.                                   *)
LeaveEffect(w) ==
  /\ phase = "compare" /\ pc[w] = "leave" /\ pc'[w] = "idle" /\ cb' = cb
  /\ \A v \in Worker \ {w} : pc'[v] = pc[v]
  /\ \A b \in 0..UIntMax : chain'[b] = IF b = cb[w].bucket THEN <<>> ELSE chain[b]
  /\ UNCHANGED <<opts, phase, term, disk, changed, count, extras, key, claimed>>
  /\ UNCHANGED <<digest, matched, files, empty, dupes, unique>>

(* Cleaning a bucket and giving it back has this effect.                   *)
LEMMA LeaveDoes ==
  ASSUME BInv, NEW w \in Worker, Leave(w)
  PROVE  LeaveEffect(w)
<1> USE DEF Leave, Goes, Running, BInv, Typed, optVars, diskVars, markVars, outVars
<1>1. /\ phase = "compare" /\ pc[w] = "leave" /\ pc'[w] = "idle" /\ cb' = cb
      /\ UNCHANGED <<opts, phase, term, disk, changed, count, extras, key, claimed>>
      /\ UNCHANGED <<digest, matched, files, empty, dupes, unique>>
  OBVIOUS
<1>2. /\ \A v \in Worker \ {w} : pc'[v] = pc[v]
      /\ \A b \in 0..UIntMax : chain'[b] = IF b = cb[w].bucket THEN <<>> ELSE chain[b]
  OBVIOUS
<1> QED BY <1>1, <1>2 DEF LeaveEffect

(* Whatever a thread does.                                                 *)
WorkerEffect(w) ==
  \/ ClaimEffect(w) \/ OuterEffect(w) \/ InnerEffect(w) \/ HashEffect(w)
  \/ TestEffect(w) \/ WriteOutEffect(w) \/ LeaveEffect(w)

(* Every step of a thread has one of these effects.                        *)
LEMMA WorkerDoes ==
  ASSUME BInv, NEW w \in Worker, WorkerStep(w)
  PROVE  WorkerEffect(w)
BY ClaimDoes, OuterDoes, InnerDoes, HashDoes, TestDoes, WriteOutDoes, LeaveDoes
DEF WorkerStep, WorkerEffect

-----------------------------------------------------------------------------
(* Types, positions and the shape of the table. *)

(* The types of everything else.                                           *)
Types ==
  /\ phase \in {"parse", "find", "compare"} \cup Over
  /\ term \in BOOLEAN
  /\ disk \in [Entry -> Data \cup {Gone}]
  /\ changed \subseteq Entry
  /\ extras \in Seq(Entry)
  /\ key \in [Entry -> Nat]
  /\ digest \in [Entry -> {d.digest : d \in Data} \cup {Zero}]
  /\ matched \subseteq Entry
  /\ claimed <= count /\ (phase \in {"parse", "find"} => claimed = 0)
  /\ files \in Seq(Entry) /\ empty \in Seq(Entry) /\ unique \in Seq(Entry)
  /\ dupes \in Seq(Seq(Entry))

(* The positions of a callback reach at most one beyond its bucket.        *)
Positions ==
  \A w \in Worker :
    /\ cb[w].bucket \in 0..UIntMax
    /\ pc[w] # "idle" => /\ cb[w].i <= Len(Chain(w)) + 1
                         /\ cb[w].j <= Len(Chain(w)) + 1

(* There are lists when files are inserted, and none holds a file before.  *)
TableInv ==
  /\ phase = "parse" => \A b \in 0..UIntMax : chain[b] = <<>>
  /\ phase \in {"find", "compare", "done"} => count >= 1
  /\ IndexInRange

(* The inductive invariant of the types and the table.                     *)
ShapeInv == BInv /\ Types /\ Positions /\ TableInv

(* The lists of the table one after another are a list of files.           *)
LEMMA TableTyped == ASSUME BInv PROVE TableFiles \in Seq(Entry)
<1> DEFINE lists == [b \in 1..count |-> chain[b - 1]]
<1>1. count \in Nat /\ \A b \in 1..count : b - 1 \in 0..UIntMax
  BY OptionsAssumption DEF BInv, Typed
<1>2. lists \in Seq(Seq(Entry))
  BY <1>1 DEF BInv, Typed
<1> HIDE DEF lists
<1>3. FlattenSeq(lists) \in Seq(Entry)
  BY <1>2, FlattenType
<1> QED BY <1>3 DEF TableFiles, lists

(* The shape at the beginning.                                             *)
LEMMA InitShape == Init => ShapeInv
<1> SUFFICES ASSUME Init PROVE ShapeInv
  OBVIOUS
<1>1. UIntMax \in Nat
  BY OptionsAssumption
<1>2. disk \in [Entry -> Data]
  BY BucketsAssumption DEF Init
<1>3. <<>> \in Seq(Entry) /\ <<>> \in Seq(Seq(Entry))
  OBVIOUS
<1>4. Types
  <2>1. digest \in [Entry -> {d.digest : d \in Data} \cup {Zero}] /\ key \in [Entry -> Nat]
    BY DEF Init
  <2>2. disk \in [Entry -> Data \cup {Gone}] /\ claimed <= count
    BY <1>2 DEF Init
  <2>3. /\ phase \in {"parse", "find", "compare"} \cup Over /\ term \in BOOLEAN
        /\ changed \subseteq Entry /\ matched \subseteq Entry
        /\ (phase \in {"parse", "find"} => claimed = 0)
    BY DEF Init
  <2>4. /\ extras \in Seq(Entry) /\ files \in Seq(Entry) /\ empty \in Seq(Entry)
        /\ unique \in Seq(Entry) /\ dupes \in Seq(Seq(Entry))
    BY <1>3 DEF Init
  <2> QED BY <2>1, <2>2, <2>3, <2>4 DEF Types
<1>5. Positions /\ TableInv
  BY <1>1 DEF Init, Positions, TableInv, IndexInRange, Idle
<1> QED BY <1>4, <1>5, InitBInv DEF ShapeInv

(* A table that passes the check of hash_table_init has lists.             *)
LEMMA BeginShape == ASSUME ShapeInv, Begin PROVE ShapeInv'
<1> USE DEF optVars, diskVars, tableVars, markVars, cbVars, outVars
<1>1. BInv'
  BY BeginStep DEF ShapeInv
<1>2. phase = "parse" /\ phase' \in {"informed", "refused", "exited", "find"}
      /\ (phase' = "find" => count' >= 1)
      /\ UNCHANGED <<opts, term, disk, changed, chain, extras, key, digest, matched, claimed>>
      /\ UNCHANGED <<pc, cb, files, empty, dupes, unique>>
  BY DEF Begin, LargeEnough
<1>3. claimed = 0 /\ count' \in 0..UIntMax /\ UIntMax \in Nat
  BY <1>1, <1>2, OptionsAssumption DEF ShapeInv, Types, BInv, Typed
<1>4. Types'
  BY <1>2, <1>3 DEF ShapeInv, Types, Over
<1>5. Positions'
  BY <1>2 DEF ShapeInv, Positions, Chain
<1>6. TableInv'
  BY <1>2 DEF ShapeInv, TableInv, IndexInRange
<1> QED BY <1>1, <1>4, <1>5, <1>6 DEF ShapeInv

(* A file is inserted in its list or in extras, or cannot be read.         *)
FileEffect(f) ==
  /\ phase = "find" /\ f \notin Seen
  /\ UNCHANGED <<opts, term, disk, changed, count, digest, matched, claimed, pc, cb>>
  /\ UNCHANGED <<files, empty, dupes, unique>>
  /\ \/ phase' = "exited" /\ UNCHANGED <<chain, extras, key>>
     \/ /\ phase' = phase /\ disk[f] \in Data /\ disk[f].size \in Nat
        /\ key' = [key EXCEPT ![f] = disk[f].size]
        /\ \/ /\ disk[f].size # 0 /\ Index(disk[f].size) \in 0..(count - 1)
              /\ chain' = [chain EXCEPT ![Index(disk[f].size)] = Append(@, f)]
              /\ extras' = extras
           \/ /\ disk[f].size = 0
              /\ extras' = Append(extras, f) /\ chain' = chain

(* Inserting a file has this effect: its index is below the count.         *)
LEMMA ProcessFileDoes ==
  ASSUME ShapeInv, NEW f \in Entry, ProcessFile(f)
  PROVE  FileEffect(f)
<1>1. count \in 1..UIntMax
  BY DEF ProcessFile, ShapeInv, TableInv, BInv, Typed
<1>2. disk[f] # Gone => disk[f] \in Data /\ disk[f].size \in Nat
  BY BucketsAssumption DEF ShapeInv, Types
<1>3. disk[f] # Gone => Index(disk[f].size) \in 0..(count - 1)
  BY <1>1, <1>2, IndexBelow
<1> QED BY <1>2, <1>3
  DEF FileEffect, ProcessFile, optVars, diskVars, markVars, cbVars, outVars

(* Inserting a file keeps the shape.                                       *)
LEMMA ProcessFileShape ==
  ASSUME ShapeInv, NEW f \in Entry, ProcessFile(f)
  PROVE  ShapeInv'
<1>1. BInv'
  BY ProcessFileStep DEF ShapeInv
<1> USE DEF FileEffect
<1>a. FileEffect(f)
  BY ProcessFileDoes
<1>2. Types'
  <2>1. phase' \in {"find", "exited"} /\ term' = term /\ phase = "find"
    BY <1>a
  <2>2. key' \in [Entry -> Nat] /\ extras' \in Seq(Entry)
    BY <1>a, Sequences DEF ShapeInv, Types
  <2> QED BY <2>1, <2>2, <1>a DEF ShapeInv, Types, Over
<1>3. Positions'
  BY <1>a DEF ShapeInv, Positions, BInv, OwnBucket
<1>4. IndexInRange'
  <2> SUFFICES ASSUME NEW b \in 0..UIntMax, chain'[b] # <<>> PROVE b < count
    BY <1>a DEF IndexInRange
  <2>1. CASE chain' = chain
    BY <2>1 DEF ShapeInv, TableInv, IndexInRange
  <2>2. CASE /\ Index(disk[f].size) \in 0..(count - 1)
             /\ chain' = [chain EXCEPT ![Index(disk[f].size)] = Append(@, f)]
    <3>1. CASE b = Index(disk[f].size)
      BY <2>2, <3>1 DEF ShapeInv, BInv, Typed
    <3>2. CASE b # Index(disk[f].size)
      BY <2>2, <3>2 DEF ShapeInv, TableInv, IndexInRange, BInv, Typed
    <3> QED BY <3>1, <3>2
  <2> QED BY <2>1, <2>2, <1>a
<1>5. TableInv'
  BY <1>4, <1>a DEF ShapeInv, TableInv
<1> QED BY <1>1, <1>2, <1>3, <1>5 DEF ShapeInv

(* Main goes over from the search to the comparison.                       *)
FindEndsEffect ==
  /\ phase = "find" /\ ~term /\ phase' = "compare"
  /\ \A f \in Entry : f \in Seen \/ disk[f] = Gone
  /\ empty' = extras
  /\ files' = IF opts.fileList THEN extras \o TableFiles ELSE files
  /\ UNCHANGED <<opts, term, disk, changed, count, chain, extras, key, digest>>
  /\ UNCHANGED <<matched, claimed, pc, cb, dupes, unique>>

(* The end of the search has this effect.                                  *)
LEMMA FindEndsDoes ==
  ASSUME BInv, FindEnds
  PROVE  FindEndsEffect
BY DEF FindEndsEffect, FindEnds, optVars, diskVars, tableVars, markVars, cbVars

(* The end of the search keeps the shape.                                  *)
LEMMA FindEndsShape == ASSUME ShapeInv, FindEnds PROVE ShapeInv'
<1>1. /\ UNCHANGED <<opts, count, chain, claimed, cbVars>>
      /\ phase' = "compare" /\ phase = "find"
  BY DEF FindEnds, optVars, tableVars
<1>2. BInv'
  BY <1>1, QuietStep DEF ShapeInv
<1>a. FindEndsEffect
  BY FindEndsDoes DEF ShapeInv
<1> USE DEF FindEndsEffect
<1>3. Types'
  <2>1. files' \in Seq(Entry) /\ empty' \in Seq(Entry)
    <3>1. TableFiles \in Seq(Entry) /\ extras \in Seq(Entry) /\ files \in Seq(Entry)
      BY TableTyped DEF ShapeInv, Types
    <3> HIDE DEF TableFiles
    <3>2. extras \o TableFiles \in Seq(Entry)
      BY <3>1
    <3> QED BY <3>1, <3>2, <1>a DEF ShapeInv
  <2> QED BY <2>1, <1>a DEF ShapeInv, Types
<1>4. (Positions /\ TableInv)'
  BY <1>a DEF ShapeInv, Positions, TableInv, IndexInRange, Chain
<1> QED BY <1>2, <1>3, <1>4 DEF ShapeInv

(* So does a step that moves no thread.                                    *)
LEMMA StillShape == ASSUME ShapeInv, BInv', Still PROVE ShapeInv'
<1> USE DEF Still
<1>1. Types'
  <2>1. disk' \in [Entry -> Data \cup {Gone}] /\ changed' \subseteq Entry
    BY DEF ShapeInv, Types
  <2>2. phase' \in {"parse", "find", "compare"} \cup Over /\ term' \in BOOLEAN
    BY DEF ShapeInv, Types, Over
  <2>3. phase' = "parse" => phase = "parse"
    OBVIOUS
  <2> QED BY <2>1, <2>2, <2>3 DEF ShapeInv, Types
<1>2. Positions'
  BY DEF ShapeInv, Positions, Chain
<1>3. TableInv'
  BY DEF ShapeInv, TableInv, IndexInRange
<1> QED BY <1>1, <1>2, <1>3 DEF ShapeInv

(* Within a bucket: the positions, and the data in reach.                  *)
LEMMA WithinShape ==
  ASSUME ShapeInv, BInv', NEW w \in Worker, Within(w),
         cb'[w].i <= Len(Chain(w)) + 1, cb'[w].j <= Len(Chain(w)) + 1,
         cb'[w].bucket = cb[w].bucket,
         digest' \in [Entry -> {d.digest : d \in Data} \cup {Zero}],
         matched' \subseteq Entry, unique' \in Seq(Entry), dupes' \in Seq(Seq(Entry))
  PROVE  ShapeInv'
<1>1. Types'
  BY DEF ShapeInv, Types, Within, Over
<1>2. \A v \in Worker : cb'[v].bucket = cb[v].bucket /\ Chain(v)' = Chain(v)
  BY DEF Within, Chain
<1>3. Positions'
  BY <1>2 DEF ShapeInv, Positions, Within
<1>4. TableInv'
  BY DEF ShapeInv, TableInv, IndexInRange, Within
<1> QED BY <1>1, <1>3, <1>4 DEF ShapeInv

(* So does every step of a thread.                                         *)
LEMMA WorkerShape ==
  ASSUME ShapeInv, BInv', NEW w \in Worker, WorkerEffect(w)
  PROVE  ShapeInv'
<1>a. BInv
  BY DEF ShapeInv
<1>b. /\ cb[w].i \in Nat /\ cb[w].j \in Nat /\ cb[w].group \in Seq(Entry)
      /\ pc[w] # "idle" => /\ Chain(w) \in Seq(Entry) /\ Len(Chain(w)) \in Nat
                           /\ cb[w].i <= Len(Chain(w)) + 1 /\ cb[w].j <= Len(Chain(w)) + 1
  <2>1. cb[w] \in Record /\ (pc[w] # "idle" => Chain(w) \in Seq(Entry))
    BY <1>a, Here
  <2> QED BY <2>1 DEF ShapeInv, Positions, Record
<1>c. /\ digest \in [Entry -> {d.digest : d \in Data} \cup {Zero}]
      /\ matched \subseteq Entry /\ unique \in Seq(Entry) /\ dupes \in Seq(Seq(Entry))
      /\ disk \in [Entry -> Data \cup {Gone}]
  BY DEF ShapeInv, Types
<1>1. CASE ClaimEffect(w)
  <2> USE <1>1, <1>a DEF ClaimEffect
  <2>1. Types'
    <3>1. claimed' <= count' /\ phase' # "parse"
      BY DEF ShapeInv, BInv, Typed
    <3>2. phase' = phase
      OBVIOUS
    <3> QED BY <3>1, <3>2 DEF ShapeInv, Types
  <2>2. claimed \in 0..UIntMax
    BY OptionsAssumption DEF ShapeInv, BInv, Typed
  <2>3. chain[claimed] \in Seq(Entry) /\ Len(chain[claimed]) \in Nat
    BY <2>2 DEF ShapeInv, BInv, Typed
  <2>4. \A v \in Worker \ {w} : Chain(v)' = Chain(v)
    BY DEF Chain
  <2>5. Chain(w)' = chain[claimed]
    BY DEF Chain
  <2>6. Positions'
    BY <2>2, <2>3, <2>4, <2>5 DEF ShapeInv, Positions
  <2>7. TableInv'
    BY DEF ShapeInv, TableInv, IndexInRange
  <2> QED BY <2>1, <2>6, <2>7 DEF ShapeInv
<1>2. CASE OuterEffect(w)
  <2> USE <1>2, <1>a, <1>b DEF OuterEffect
  <2>1. Within(w) /\ pc[w] # "idle" /\ UNCHANGED <<digest, matched, dupes, unique>>
        /\ cb'[w].bucket = cb[w].bucket
    BY DEF Now
  <2>2. cb'[w].i <= Len(Chain(w)) + 1 /\ cb'[w].j <= Len(Chain(w)) + 1
    BY <2>1 DEF Now
  <2> QED BY <1>c, <2>1, <2>2, WithinShape
<1>3. CASE InnerEffect(w)
  <2> USE <1>3, <1>a, <1>b DEF InnerEffect
  <2>1. Within(w) /\ pc[w] # "idle" /\ UNCHANGED <<digest, matched, dupes, unique>>
        /\ cb'[w].bucket = cb[w].bucket
    BY DEF Now
  <2>2. cb'[w].i <= Len(Chain(w)) + 1 /\ cb'[w].j <= Len(Chain(w)) + 1
    BY <2>1 DEF Now
  <2> QED BY <1>c, <2>1, <2>2, WithinShape
<1>4. CASE HashEffect(w)
  <2> USE <1>4, <1>a, <1>b DEF HashEffect
  <2>1. Within(w) /\ pc[w] \in AtPair /\ UNCHANGED <<matched, dupes, unique>>
        /\ cb'[w].bucket = cb[w].bucket /\ cb'[w].i = cb[w].i /\ cb'[w].j = cb[w].j
    BY DEF Now, AtPair
  <2>2. First(w) \in Entry /\ Second(w) \in Entry /\ pc[w] # "idle"
    <3>1. pc[w] \in AtEntry /\ pc[w] # "idle"
      BY <2>1 DEF AtPair, AtEntry
    <3> QED BY <2>1, <3>1, Here
  <2>3. ASSUME NEW f \in Entry, Hashes(w, f)
        PROVE  digest' \in [Entry -> {d.digest : d \in Data} \cup {Zero}]
    <3>1. /\ digest \in [Entry -> {d.digest : d \in Data} \cup {Zero}]
          /\ disk[f] # Gone => disk[f].digest \in {d.digest : d \in Data}
      BY <1>c
    <3>2. \/ digest' = digest
          \/ disk[f] # Gone /\ digest' = [digest EXCEPT ![f] = disk[f].digest]
      BY <2>3 DEF Hashes
    <3> QED BY <3>1, <3>2
  <2>4. digest' \in [Entry -> {d.digest : d \in Data} \cup {Zero}]
    <3>1. Hashes(w, First(w)) \/ Hashes(w, Second(w))
      OBVIOUS
    <3> QED BY <2>2, <2>3, <3>1
  <2> QED BY <1>c, <2>1, <2>2, <2>4, WithinShape
<1>5. CASE TestEffect(w)
  <2> USE <1>5, <1>a, <1>b DEF TestEffect
  <2>1. Within(w) /\ pc[w] = "test" /\ UNCHANGED <<digest, dupes, unique>>
        /\ cb'[w].bucket = cb[w].bucket /\ cb'[w].i = cb[w].i /\ cb'[w].j = cb[w].j + 1
    BY DEF Now
  <2>2. pc[w] \in AtPair /\ pc[w] # "idle"
    BY <2>1 DEF AtPair
  <2>3. Second(w) \in Entry /\ cb[w].j <= Len(Chain(w))
    BY <2>2, Here
  <2>4. cb'[w].j <= Len(Chain(w)) + 1
    BY <2>1, <2>2, <2>3
  <2>5. matched' \subseteq Entry
    BY <1>c, <2>3
  <2> QED BY <1>c, <2>1, <2>2, <2>4, <2>5, WithinShape
<1>6. CASE WriteOutEffect(w)
  <2> USE <1>6, <1>a, <1>b DEF WriteOutEffect
  <2>1. Within(w) /\ pc[w] = "last" /\ UNCHANGED <<digest, matched>>
        /\ cb'[w].bucket = cb[w].bucket /\ cb'[w].j = cb[w].j
        /\ cb'[w].i \in {cb[w].i, cb[w].i + 1}
    BY DEF Now
  <2>2. pc[w] \in AtEntry /\ pc[w] # "idle"
    BY <2>1 DEF AtEntry
  <2>3. First(w) \in Entry /\ cb[w].i <= Len(Chain(w))
    BY <2>2, Here
  <2>4. cb'[w].i <= Len(Chain(w)) + 1
    BY <2>1, <2>2, <2>3
  <2>5. dupes' \in Seq(Seq(Entry)) /\ unique' \in Seq(Entry)
    <3>1. Append(dupes, cb[w].group) \in Seq(Seq(Entry)) /\ Append(unique, First(w)) \in Seq(Entry)
      BY <1>c, <2>3
    <3> QED BY <1>c, <3>1
  <2> QED BY <1>c, <2>1, <2>2, <2>4, <2>5, WithinShape
<1>7. CASE LeaveEffect(w)
  <2> USE <1>7, <1>a DEF LeaveEffect
  <2>1. Types'
    BY DEF ShapeInv, Types
  <2>2. \A v \in Worker \ {w} : pc'[v] # "idle" => Chain(v)' = Chain(v)
    BY DEF BInv, OwnBucket, Chain
  <2>3. Positions'
    BY <2>2 DEF ShapeInv, Positions
  <2>4. TableInv'
    BY DEF ShapeInv, TableInv, IndexInRange
  <2> QED BY <2>1, <2>3, <2>4 DEF ShapeInv
<1> QED BY <1>1, <1>2, <1>3, <1>4, <1>5, <1>6, <1>7 DEF WorkerEffect

(* Every step keeps the shape.                                             *)
LEMMA ShapeStep == ShapeInv /\ [Next]_vars => ShapeInv'
<1> SUFFICES ASSUME ShapeInv, [Next]_vars PROVE ShapeInv'
  OBVIOUS
<1>1. BInv /\ BInv'
  BY BInductive DEF ShapeInv
<1>2. CASE \/ FindStops \/ CompareEnds \/ Signal \/ Ended \/ UNCHANGED vars
           \/ \E f \in Entry, d \in Data \cup {Gone} : Change(f, d)
  BY <1>1, <1>2, StillSteps, StillShape
<1>3. ASSUME NEW f \in Entry, ProcessFile(f) PROVE ShapeInv'
  BY <1>3, ProcessFileShape
<1>4. ASSUME NEW w \in Worker, WorkerStep(w) PROVE ShapeInv'
  BY <1>1, <1>4, WorkerDoes, WorkerShape
<1> QED BY <1>2, <1>3, <1>4, BeginShape, FindEndsShape DEF Next, MainStep

(* The table has its shape at all times.                                   *)
LEMMA Shaped == Spec => []ShapeInv
BY InitShape, ShapeStep, PTL DEF Spec

(* What the entries lead to is settled by the command line.                *)
LEMMA TargetTyped == Spec => [](target \in [Entry -> File])
<1>1. Init => target \in [Entry -> File]
  BY BucketsAssumption DEF Init
<1>2. ASSUME [Next]_vars PROVE UNCHANGED target
  <2>1. CASE Begin \/ FindEnds \/ FindStops \/ CompareEnds
    BY <2>1 DEF Begin, FindEnds, FindStops, CompareEnds, optVars
  <2>2. CASE \E f \in Entry : ProcessFile(f)
    BY <2>2 DEF ProcessFile, optVars
  <2>3. ASSUME NEW w \in Worker, WorkerStep(w) PROVE UNCHANGED target
    <3>1. CASE Claim(w) \/ Outer(w) \/ Inner(w) \/ Test(w) \/ WriteOut(w) \/ Leave(w)
      BY <3>1 DEF Claim, Outer, Inner, Test, WriteOut, Leave, optVars
    <3>2. CASE HashFirst(w) \/ HashSecond(w)
      BY <3>2 DEF HashFirst, HashSecond, Hash, optVars
    <3> QED BY <2>3, <3>1, <3>2 DEF WorkerStep
  <2>4. CASE Signal \/ Ended \/ UNCHANGED vars
    BY <2>4 DEF Signal, Ended, vars, optVars
  <2>5. CASE \E f \in Entry, d \in Data \cup {Gone} : Change(f, d)
    BY <2>5 DEF Change, optVars
  <2> QED BY <1>2, <2>1, <2>2, <2>3, <2>4, <2>5 DEF Next, MainStep
<1>3. target \in [Entry -> File] /\ [Next]_vars => (target \in [Entry -> File])'
  BY <1>2
<1> QED BY <1>1, <1>3, PTL DEF Spec

(* Every variable keeps its type, no thread counts more buckets than there *)
(* are, and both positions of a callback stay within its list or one past  *)
(* its end (compare.c:117-189).                                            *)
THEOREM TypeCorrect == Spec => []TypeOK
<1>1. ShapeInv /\ target \in [Entry -> File] => TypeOK
  <2> SUFFICES ASSUME ShapeInv, target \in [Entry -> File] PROVE TypeOK
    OBVIOUS
  <2>1. /\ phase \in {"parse", "find", "compare"} \cup Over /\ term \in BOOLEAN
        /\ disk \in [Entry -> Data \cup {Gone}] /\ changed \subseteq Entry
        /\ extras \in Seq(Entry) /\ key \in [Entry -> Nat]
        /\ digest \in [Entry -> {d.digest : d \in Data} \cup {Zero}]
        /\ matched \subseteq Entry
        /\ files \in Seq(Entry) /\ empty \in Seq(Entry) /\ unique \in Seq(Entry)
        /\ dupes \in Seq(Seq(Entry))
    BY DEF ShapeInv, Types
  <2>2. /\ count \in 0..UIntMax /\ chain \in [0..UIntMax -> Seq(Entry)]
        /\ claimed \in 0..count
        /\ pc \in [Worker -> {"idle", "outer", "inner", "first", "second", "test",
                              "last", "leave"}]
    BY DEF ShapeInv, Types, BInv, Typed, AtEntry
  <2>3. ASSUME NEW w \in Worker
        PROVE  /\ cb[w].bucket \in 0..UIntMax /\ cb[w].group \in Seq(Entry)
               /\ pc[w] # "idle" => /\ cb[w].i \in 1..(Len(chain[cb[w].bucket]) + 1)
                                    /\ cb[w].j \in 1..(Len(chain[cb[w].bucket]) + 1)
               /\ buf[w] \in [len : Nat, cap : Nat, end : Nat]
    <3>1. cb[w].bucket \in 0..UIntMax /\ chain[cb[w].bucket] \in Seq(Entry)
      BY DEF ShapeInv, Positions, BInv, Typed
    <3>2. Len(chain[cb[w].bucket]) \in Nat
      BY <3>1
    <3>3. cb[w].i \in Nat /\ cb[w].j \in Nat /\ cb[w].i >= 1 /\ cb[w].j >= 1
      BY DEF ShapeInv, BInv, Typed, InChain
    <3> QED BY <3>1, <3>2, <3>3 DEF ShapeInv, Positions, Chain, BInv, Typed
  <2> QED BY <2>1, <2>2, <2>3 DEF TypeOK
<1> QED BY <1>1, Shaped, TargetTyped, PTL

(* The mask keeps every index below the number of lists, whatever is typed *)
(* after -b and whatever the widths (hash-table.h:44-48).                  *)
THEOREM IndexesFit == Spec => []IndexInRange
<1>1. ShapeInv => IndexInRange
  BY DEF ShapeInv, TableInv
<1> QED BY <1>1, Shaped, PTL

-----------------------------------------------------------------------------
(* Where the files are.  A step is one of the following, all that the      *)
(* invariants below need to know of it.                                    *)

(* Main has parsed the options.                                            *)
BeginEffect ==
  /\ phase = "parse" /\ phase' \in {"informed", "refused", "exited", "find"}
  /\ UNCHANGED <<opts, term, disk, changed, chain, extras, key, digest, matched>>
  /\ UNCHANGED <<claimed, pc, cb, files, empty, dupes, unique>>

(* A step, seen from its effect on the data.                               *)
DataNext ==
  \/ Still \/ BeginEffect \/ FindEndsEffect
  \/ \E f \in Entry : FileEffect(f)
  \/ \E w \in Worker : WorkerEffect(w)

(* Every step has one of the effects the proofs below distinguish.         *)
LEMMA DataView == ASSUME ShapeInv, [Next]_vars PROVE DataNext
<1>a. BInv
  BY DEF ShapeInv
<1>1. CASE \/ FindStops \/ CompareEnds \/ Signal \/ Ended \/ UNCHANGED vars
           \/ \E f \in Entry, d \in Data \cup {Gone} : Change(f, d)
  BY <1>a, <1>1, StillSteps DEF DataNext
<1>2. CASE Begin
  BY <1>2 DEF Begin, DataNext, BeginEffect, optVars, diskVars, tableVars, markVars,
     cbVars,
     outVars
<1>3. CASE FindEnds
  BY <1>a, <1>3, FindEndsDoes DEF DataNext
<1>4. ASSUME NEW f \in Entry, ProcessFile(f) PROVE DataNext
  BY <1>4, ProcessFileDoes DEF DataNext
<1>5. ASSUME NEW w \in Worker, WorkerStep(w) PROVE DataNext
  BY <1>a, <1>5, WorkerDoes DEF DataNext
<1> QED BY <1>1, <1>2, <1>3, <1>4, <1>5 DEF Next, MainStep

(* A file found is in the list of its size, once, or in extras, once.      *)
PlacedInv ==
  /\ IsInjective(extras) /\ \A f \in ToSet(extras) : key[f] = 0
  /\ \A b \in 0..UIntMax :
       /\ IsInjective(chain[b])
       /\ \A f \in ToSet(chain[b]) : key[f] # 0 /\ b = Index(key[f])

(* Before the comparison nothing is marked or written, and every file with *)
(* a size is in its list.                                                  *)
FindInv ==
  /\ phase = "parse" => extras = <<>> /\ key = [f \in Entry |-> 0]
  /\ phase \in {"parse", "find"} =>
       /\ matched = {} /\ digest = [f \in Entry |-> Zero]
       /\ files = <<>> /\ empty = <<>> /\ unique = <<>> /\ dupes = <<>>
  /\ phase = "find" => \A f \in Entry : key[f] # 0 => f \in ToSet(chain[Index(key[f])])

(* The two lists main writes before the comparison.                        *)
FilesInv ==
  /\ empty \in {<<>>, extras}
  /\ phase \in {"compare", "done"} =>
       /\ empty = extras
       /\ opts.fileList => IsInjective(files) /\ ToSet(files) = Seen

(* What is known of a file nobody has touched.                             *)
StableInv ==
  \A f \in Entry \ changed :
    /\ disk[f] # Gone
    /\ f \in Seen => key[f] = disk[f].size
    /\ digest[f] # Zero => digest[f] = disk[f].digest

(* A thread leaves the table as it is, but for the bucket it empties.      *)
LEMMA WorkerKeeps ==
  ASSUME NEW w \in Worker, WorkerEffect(w)
  PROVE  /\ UNCHANGED <<opts, term, disk, changed, count, extras, key, files, empty>>
         /\ phase = "compare" /\ phase' \in {"compare", "exited"}
         /\ \A b \in 0..UIntMax : chain'[b] = chain[b] \/ chain'[b] = <<>>
BY DEF WorkerEffect, ClaimEffect, OuterEffect, InnerEffect, HashEffect, TestEffect,
   WriteOutEffect, LeaveEffect, Within

(* A digest once computed stays; one that is computed is that of the file. *)
LEMMA WorkerDigest ==
  ASSUME ShapeInv, NEW w \in Worker, WorkerEffect(w)
  PROVE  \/ digest' = digest
         \/ \E f \in Entry : /\ digest[f] = Zero /\ disk[f] \in Data
                            /\ digest' = [digest EXCEPT ![f] = disk[f].digest]
                            /\ disk[f].digest # Zero /\ digest'[f] = disk[f].digest
<1>1. CASE HashEffect(w)
  <2>1. BInv /\ pc[w] \in AtPair
    BY <1>1 DEF ShapeInv, HashEffect, AtPair
  <2>2. First(w) \in Entry /\ Second(w) \in Entry
    BY <2>1, Here DEF AtPair, AtEntry
  <2>3. ASSUME NEW f \in Entry, digest[f] = Zero, disk[f] # Gone,
               digest' = [digest EXCEPT ![f] = disk[f].digest]
        PROVE  disk[f] \in Data /\ disk[f].digest # Zero /\ digest'[f] = disk[f].digest
    BY <2>3, BucketsAssumption DEF ShapeInv, Types
  <2> QED BY <1>1, <2>2, <2>3 DEF HashEffect, Hashes
<1>2. CASE ~HashEffect(w)
  BY <1>2 DEF WorkerEffect, ClaimEffect, OuterEffect, InnerEffect, TestEffect,
     WriteOutEffect, LeaveEffect, Within
<1> QED BY <1>1, <1>2

(* The empty list names nothing.                                           *)
LEMMA EmptyList == ToSet(<<>>) = {} /\ IsInjective(<<>>)
BY DEF ToSet, IsInjective

(* A list of files names files.                                            *)
LEMMA InFiles == \A s \in Seq(Entry) : ToSet(s) \subseteq Entry
BY DEF ToSet

(* Inserted once, a file stays where it is or goes with its bucket.        *)
LEMMA PlacedStep == ASSUME ShapeInv, PlacedInv, DataNext PROVE PlacedInv'
<1> USE EmptyList
<1>1. CASE Still
  BY <1>1 DEF Still, PlacedInv, Index
<1>2. CASE BeginEffect
  <2>1. \A b \in 0..UIntMax : chain[b] = <<>>
    BY <1>2 DEF BeginEffect, ShapeInv, TableInv
  <2> QED BY <1>2, <2>1 DEF BeginEffect, PlacedInv
<1>3. CASE FindEndsEffect
  BY <1>3 DEF FindEndsEffect, PlacedInv, Index
<1>4. ASSUME NEW f \in Entry, FileEffect(f) PROVE PlacedInv'
  <2>1. key[f] = 0 /\ f \notin ToSet(extras)
    BY <1>4 DEF FileEffect, Seen
  <2>2. \A b \in 0..UIntMax : f \notin ToSet(chain[b])
    BY <2>1 DEF PlacedInv
  <2>3. /\ \A b \in 0..UIntMax : chain[b] \in Seq(Entry) /\ ToSet(chain[b]) \subseteq Entry
        /\ extras \in Seq(Entry) /\ ToSet(extras) \subseteq Entry
        /\ key \in [Entry -> Nat] /\ chain \in [0..UIntMax -> Seq(Entry)]
    BY InFiles DEF ShapeInv, BInv, Typed, Types
  <2>4. CASE UNCHANGED <<chain, extras, key>>
    BY <1>4, <2>4 DEF FileEffect, PlacedInv, Index
  <2>5. CASE /\ disk[f].size \in Nat /\ disk[f].size # 0
             /\ key' = [key EXCEPT ![f] = disk[f].size] /\ extras' = extras
             /\ chain' = [chain EXCEPT ![Index(disk[f].size)] = Append(@, f)]
    <3> DEFINE c == Index(disk[f].size)
    <3>1. \A g : Index(key[g])' = Index(key'[g])
      BY <1>4 DEF FileEffect, Index
    <3>2. key'[f] = disk[f].size /\ \A g \in Entry : g # f => key'[g] = key[g]
      BY <2>3, <2>5
    <3>3. ASSUME NEW b \in 0..UIntMax, b # c
          PROVE  /\ IsInjective(chain'[b])
                 /\ \A g \in ToSet(chain'[b]) : key'[g] # 0 /\ b = Index(key[g])'
      <4>1. chain'[b] = chain[b]
        BY <2>3, <2>5, <3>3
      <4>2. \A g \in ToSet(chain[b]) : g \in Entry /\ g # f
        BY <2>2, <2>3
      <4> QED BY <2>3, <3>1, <3>2, <4>1, <4>2 DEF PlacedInv
    <3>4. ASSUME NEW b \in 0..UIntMax, b = c
          PROVE  /\ IsInjective(chain'[b])
                 /\ \A g \in ToSet(chain'[b]) : key'[g] # 0 /\ b = Index(key[g])'
      <4>1. chain'[b] = Append(chain[b], f)
        BY <2>3, <2>5, <3>4
      <4>2. IsInjective(chain'[b]) /\ ToSet(chain'[b]) = ToSet(chain[b]) \cup {f}
        BY <2>2, <2>3, <4>1, AppendElements DEF PlacedInv
      <4> QED BY <2>2, <2>3, <2>5, <3>1, <3>2, <3>4, <4>2 DEF PlacedInv
    <3>5. \A g \in ToSet(extras) : key'[g] = 0
      BY <2>1, <2>3, <3>2 DEF PlacedInv
    <3> QED BY <2>5, <3>3, <3>4, <3>5 DEF PlacedInv
  <2>6. CASE /\ disk[f].size = 0 /\ key' = [key EXCEPT ![f] = disk[f].size]
             /\ extras' = Append(extras, f) /\ chain' = chain
    <3>1. key' = key
      BY <2>1, <2>3, <2>6
    <3>2. IsInjective(extras') /\ ToSet(extras') = ToSet(extras) \cup {f}
      BY <2>1, <2>3, <2>6, AppendElements DEF PlacedInv
    <3> QED BY <1>4, <2>1, <2>6, <3>1, <3>2 DEF PlacedInv, FileEffect, Index
  <2> QED BY <1>4, <2>4, <2>5, <2>6 DEF FileEffect
<1>5. ASSUME NEW w \in Worker, WorkerEffect(w) PROVE PlacedInv'
  BY <1>5, WorkerKeeps DEF PlacedInv, Index
<1> QED BY <1>1, <1>2, <1>3, <1>4, <1>5 DEF DataNext

(* The search inserts each file in the list of its size.                   *)
LEMMA FindStep == ASSUME ShapeInv, PlacedInv, FindInv, DataNext PROVE FindInv'
<1>1. CASE Still
  BY <1>1 DEF Still, FindInv, Index
<1>2. CASE BeginEffect
  BY <1>2 DEF BeginEffect, FindInv
<1>3. CASE FindEndsEffect
  BY <1>3 DEF FindEndsEffect, FindInv
<1>4. ASSUME NEW f \in Entry, FileEffect(f) PROVE FindInv'
  <2>1. CASE phase' # phase
    BY <1>4, <2>1 DEF FileEffect, FindInv
  <2>2. CASE phase' = phase
    <3>1. /\ phase = "find" /\ key' = [key EXCEPT ![f] = disk[f].size]
          /\ UNCHANGED <<count, matched, digest, files, empty, unique, dupes>>
      BY <1>4, <2>2 DEF FileEffect, FindInv
    <3>2. /\ key \in [Entry -> Nat] /\ chain \in [0..UIntMax -> Seq(Entry)]
          /\ UIntMax \in Nat /\ count \in 0..UIntMax
      BY OptionsAssumption DEF ShapeInv, BInv, Typed, Types
    <3>3. \A g : Index(key[g])' = Index(key'[g])
      BY <3>1 DEF Index
    <3>4. ASSUME NEW g \in Entry, key'[g] # 0 PROVE g \in ToSet(chain'[Index(key'[g])])
      <4>1. CASE g # f
        <5> DEFINE b == Index(key[g])
        <5>1. key'[g] = key[g] /\ g \in ToSet(chain[b])
          BY <3>1, <3>2, <3>4, <4>1 DEF FindInv
        <5>2. b \in 0..UIntMax
          <6>1. count \in 1..UIntMax /\ key[g] \in Nat
            BY <3>1, <3>2 DEF ShapeInv, TableInv
          <6>2. b \in 0..(count - 1)
            BY <6>1, IndexBelow
          <6> QED BY <3>2, <6>2
        <5>3. chain'[b] = chain[b] \/ chain'[b] = Append(chain[b], f)
          BY <1>4, <2>2, <3>1, <3>2, <5>2 DEF FileEffect
        <5>4. chain[b] \in Seq(Entry)
          BY <3>2, <5>2
        <5> HIDE DEF b
        <5>a. ToSet(Append(chain[b], f)) = ToSet(chain[b]) \cup {f}
          BY <5>4, AppendElements
        <5>5. ToSet(chain[b]) \subseteq ToSet(chain'[b])
          BY <5>3, <5>a
        <5> QED BY <5>1, <5>5 DEF b
      <4>2. CASE g = f
        <5> DEFINE b == Index(disk[f].size)
        <5>1. key'[g] = disk[f].size
          BY <3>1, <3>2, <4>2
        <5>2. chain' = [chain EXCEPT ![b] = Append(@, f)] /\ b \in 0..(count - 1)
          BY <1>4, <2>2, <3>1, <3>4, <5>1 DEF FileEffect
        <5> HIDE DEF b
        <5>3. b \in 0..UIntMax /\ chain[b] \in Seq(Entry)
          BY <3>2, <5>2
        <5>4. chain'[b] = Append(chain[b], f)
          BY <3>2, <5>2, <5>3
        <5>5. f \in ToSet(chain'[b])
          BY <5>3, <5>4, AppendElements
        <5> QED BY <4>2, <5>1, <5>5 DEF b
      <4> QED BY <4>1, <4>2
    <3> QED BY <3>1, <3>3, <3>4, <2>2 DEF FindInv
  <2> QED BY <2>1, <2>2
<1>5. ASSUME NEW w \in Worker, WorkerEffect(w) PROVE FindInv'
  BY <1>5, WorkerKeeps DEF FindInv
<1> QED BY <1>1, <1>2, <1>3, <1>4, <1>5 DEF DataNext

(* When the search ends main writes down exactly the files found.          *)
LEMMA FilesStep ==
  ASSUME ShapeInv, PlacedInv, FindInv, FilesInv, DataNext
  PROVE  FilesInv'
<1>1. CASE Still
  BY <1>1 DEF Still, FilesInv, Seen
<1>2. CASE BeginEffect
  BY <1>2 DEF BeginEffect, FilesInv, FindInv
<1>3. CASE FindEndsEffect
  <2>1. empty' = extras' /\ opts' = opts /\ Seen' = Seen /\ phase = "find"
    BY <1>3 DEF FindEndsEffect, Seen
  <2>2. ASSUME opts.fileList PROVE IsInjective(files') /\ ToSet(files') = Seen
    <3> DEFINE lists == [b \in 1..count |-> chain[b - 1]]
    <3>1. /\ count \in 1..UIntMax /\ UIntMax \in Nat /\ chain \in [0..UIntMax -> Seq(Entry)]
          /\ extras \in Seq(Entry) /\ key \in [Entry -> Nat]
      BY <2>1, OptionsAssumption DEF ShapeInv, BInv, Typed, Types, TableInv
    <3>2. \A b \in 1..count : b - 1 \in 0..UIntMax
      BY <3>1
    <3>3. lists \in Seq(Seq(Entry)) /\ Len(lists) = count
      BY <3>1, <3>2
    <3>4. \A b \in 1..count : lists[b] = chain[b - 1]
      OBVIOUS
    <3> HIDE DEF lists
    <3>5. \A b \in 1..Len(lists) : IsInjective(lists[b])
      BY <3>2, <3>3, <3>4 DEF PlacedInv
    <3>6. \A b \in 1..Len(lists) : \A f \in ToSet(lists[b]) :
            f \in Entry /\ key[f] # 0 /\ b - 1 = Index(key[f])
      <4> SUFFICES ASSUME NEW b \in 1..count, NEW f \in ToSet(chain[b - 1])
                   PROVE  f \in Entry /\ key[f] # 0 /\ b - 1 = Index(key[f])
        BY <3>3, <3>4
      <4> DEFINE c == b - 1
      <4>1. c \in 0..UIntMax /\ chain[c] \in Seq(Entry)
        BY <3>1, <3>2
      <4> HIDE DEF c
      <4>2. \A g \in ToSet(chain[c]) : g \in Entry /\ key[g] # 0 /\ c = Index(key[g])
        BY <4>1, InFiles DEF PlacedInv
      <4> QED BY <4>2 DEF c
    <3>7. \A b, c \in 1..Len(lists) : b # c => ToSet(lists[b]) \cap ToSet(lists[c]) = {}
      <4> SUFFICES ASSUME NEW b \in 1..Len(lists), NEW c \in 1..Len(lists), b # c,
                          NEW f \in ToSet(lists[b]) \cap ToSet(lists[c])
                   PROVE  FALSE
        OBVIOUS
      <4>1. b - 1 = c - 1
        BY <3>6
      <4> QED BY <3>1, <3>3, <4>1
    <3>8. FlattenSeq(lists) \in Seq(Entry) /\ IsInjective(FlattenSeq(lists))
      BY <3>3, <3>5, <3>7, FlattenType, FlattenElements
    <3>9. \A f : f \in ToSet(FlattenSeq(lists)) <=>
                   \E b \in 1..Len(lists) : f \in ToSet(lists[b])
      BY <3>3, FlattenElements
    <3>10. \A f \in Entry : key[f] # 0 => f \in ToSet(FlattenSeq(lists))
      <4> SUFFICES ASSUME NEW f \in Entry, key[f] # 0
                   PROVE  \E b \in 1..Len(lists) : f \in ToSet(lists[b])
        BY <3>9
      <4> DEFINE c == Index(key[f])
      <4>1. c \in 0..(count - 1)
        BY <3>1, IndexBelow
      <4>2. f \in ToSet(chain[c])
        BY <2>1 DEF FindInv
      <4> HIDE DEF c
      <4>3. c + 1 \in 1..count /\ (c + 1) - 1 = c
        BY <3>1, <4>1
      <4>4. lists[c + 1] = chain[c]
        BY <3>4, <4>3
      <4> QED BY <3>3, <4>2, <4>3, <4>4
    <3>11. ToSet(FlattenSeq(lists)) = {f \in Entry : key[f] # 0}
      BY <3>6, <3>9, <3>10
    <3>12. ToSet(extras) \cap ToSet(FlattenSeq(lists)) = {}
      BY <3>11 DEF PlacedInv
    <3>13. /\ IsInjective(extras \o FlattenSeq(lists))
           /\ ToSet(extras \o FlattenSeq(lists)) = Seen
      <4> DEFINE t == FlattenSeq(lists)
      <4>1. t \in Seq(Entry) /\ IsInjective(t) /\ ToSet(extras) \cap ToSet(t) = {}
            /\ ToSet(t) = {f \in Entry : key[f] # 0} /\ IsInjective(extras)
        BY <3>8, <3>11, <3>12 DEF PlacedInv
      <4> HIDE DEF t
      <4>2. IsInjective(extras \o t) /\ ToSet(extras \o t) = ToSet(extras) \cup ToSet(t)
        BY <3>1, <4>1, ConcatElements
      <4> QED BY <4>1, <4>2 DEF t, Seen
    <3>14. files' = extras \o FlattenSeq(lists)
      BY <1>3, <2>2 DEF FindEndsEffect, TableFiles, lists
    <3> QED BY <3>13, <3>14
  <2> QED BY <2>1, <2>2 DEF FilesInv
<1>4. ASSUME NEW f \in Entry, FileEffect(f) PROVE FilesInv'
  <2>1. empty = <<>> /\ empty' = empty /\ phase' \notin {"compare", "done"}
    BY <1>4 DEF FileEffect, FindInv
  <2> QED BY <2>1 DEF FilesInv
<1>5. ASSUME NEW w \in Worker, WorkerEffect(w) PROVE FilesInv'
  <2>1. UNCHANGED <<opts, extras, key, files, empty>> /\ phase = "compare"
    BY <1>5, WorkerKeeps
  <2> QED BY <2>1 DEF FilesInv, Seen
<1> QED BY <1>1, <1>2, <1>3, <1>4, <1>5 DEF DataNext

(* What is known of an untouched file comes from the file itself.          *)
LEMMA StableStep ==
  ASSUME ShapeInv, PlacedInv, FindInv, StableInv, DataNext
  PROVE  StableInv'
<1>a. /\ key \in [Entry -> Nat] /\ disk \in [Entry -> Data \cup {Gone}] /\ changed \subseteq Entry
      /\ digest \in [Entry -> {d.digest : d \in Data} \cup {Zero}]
  BY DEF ShapeInv, Types
<1>1. CASE Still
  <2>1. Seen' = Seen
    BY <1>1 DEF Still, Seen
  <2>2. UNCHANGED <<key, digest>>
    BY <1>1 DEF Still
  <2>3. \A f \in Entry \ changed' : f \notin changed /\ disk'[f] = disk[f]
    <3>1. CASE UNCHANGED <<disk, changed>>
      BY <3>1
    <3>2. ASSUME NEW those \in SUBSET Entry, NEW d \in Data \cup {Gone},
                 disk' = [f \in Entry |-> IF f \in those THEN d ELSE disk[f]],
                 changed' = changed \cup those
          PROVE  \A g \in Entry \ changed' : g \notin changed /\ disk'[g] = disk[g]
      BY <1>a, <3>2
    <3> QED BY <1>1, <3>1, <3>2 DEF Still
  <2> QED BY <2>1, <2>2, <2>3 DEF StableInv
<1>2. CASE BeginEffect
  BY <1>2 DEF BeginEffect, StableInv, Seen
<1>3. CASE FindEndsEffect
  BY <1>3 DEF FindEndsEffect, StableInv, Seen
<1>4. ASSUME NEW f \in Entry, FileEffect(f) PROVE StableInv'
  <2>1. UNCHANGED <<disk, changed, digest>>
    BY <1>4 DEF FileEffect
  <2>2. CASE UNCHANGED <<key, extras>>
    BY <2>1, <2>2 DEF StableInv, Seen
  <2>3. CASE key' = [key EXCEPT ![f] = disk[f].size] /\ extras' \in {extras, Append(extras, f)}
    <3>1. key'[f] = disk[f].size /\ \A g \in Entry : g # f => key'[g] = key[g]
      BY <1>a, <2>3
    <3>2. ToSet(extras') \subseteq ToSet(extras) \cup {f}
      <4>1. extras \in Seq(Entry)
        BY DEF ShapeInv, Types
      <4>2. ToSet(Append(extras, f)) = ToSet(extras) \cup {f}
        BY <4>1, AppendElements
      <4> QED BY <2>3, <4>2
    <3>3. \A g \in Entry : g # f /\ g \in Seen' => g \in Seen
      BY <3>1, <3>2 DEF Seen
    <3> QED BY <2>1, <3>1, <3>3 DEF StableInv
  <2> QED BY <1>4, <2>2, <2>3 DEF FileEffect
<1>5. ASSUME NEW w \in Worker, WorkerEffect(w) PROVE StableInv'
  <2>1. UNCHANGED <<extras, key, disk, changed>> /\ Seen' = Seen
    BY <1>5, WorkerKeeps DEF Seen
  <2>2. CASE digest' = digest
    BY <2>1, <2>2 DEF StableInv
  <2>3. ASSUME NEW f \in Entry, digest' = [digest EXCEPT ![f] = disk[f].digest]
        PROVE  StableInv'
    <3>1. \A g \in Entry : digest'[g] = IF g = f THEN disk[g].digest ELSE digest[g]
      BY <1>a, <2>3
    <3> QED BY <2>1, <3>1 DEF StableInv
  <2> QED BY <1>5, <2>2, <2>3, WorkerDigest
<1> QED BY <1>1, <1>2, <1>3, <1>4, <1>5 DEF DataNext

-----------------------------------------------------------------------------
(* What each callback knows. *)

(* A file is written in unique.lst or dupes.lst.  Two files are alike when *)
(* size and digest say so.                                                 *)
Listed(f) == f \in ToSet(unique) \/ \E d \in ToSet(dupes) : f \in ToSet(d)
Alike(f, g) == key[f] = key[g] /\ digest[f] # Zero /\ digest[f] = digest[g]

(* Of the pair before it: neither file is marked, their keys are equal     *)
(* when it computes digests, and it computes them before it compares them. *)
PairOf(w) ==
  /\ pc[w] \in AtEntry => cb[w].i < cb[w].j /\ First(w) \notin matched
  /\ pc[w] \in AtPair => Second(w) \notin matched /\ key[First(w)] = key[Second(w)]
  /\ phase = "compare" /\ pc[w] \in {"second", "test"} => digest[First(w)] # Zero
  /\ phase = "compare" /\ pc[w] = "test" => digest[Second(w)] # Zero
  /\ pc[w] = "last" => cb[w].j > Len(Chain(w))
  /\ ~term /\ pc[w] = "leave" => cb[w].i > Len(Chain(w))

(* All callbacks know that.                                                *)
PairInv == \A w \in Worker : PairOf(w)

(* Of its group: the first file and marked ones of its bucket, all alike,  *)
(* none written yet.                                                       *)
GroupOf(w) ==
  pc[w] \in AtEntry =>
    /\ IsInjective(cb[w].group)
    /\ cb[w].group # <<>> => First(w) \in ToSet(cb[w].group)
    /\ \A f \in ToSet(cb[w].group) :
         /\ f \in ToSet(Chain(w)) /\ ~Listed(f) /\ Alike(f, First(w))
         /\ f = First(w) \/ f \in matched

(* All groups being built are such.                                        *)
GroupInv == \A w \in Worker : GroupOf(w)

(* A file written and still in the table is marked or behind a callback.   *)
FreshInv ==
  \A b \in 0..UIntMax : \A k \in DOMAIN chain[b] :
    Listed(chain[b][k]) /\ chain[b][k] \notin matched =>
      \E w \in Worker : pc[w] # "idle" /\ cb[w].bucket = b /\ k < cb[w].i

(* What is written: no file twice, and groups of files that are alike.     *)
WrittenInv ==
  /\ IsInjective(unique)
  /\ \A p \in DOMAIN dupes :
       /\ IsInjective(dupes[p])
       /\ \A f, g \in ToSet(dupes[p]) : Alike(f, g)
       /\ ToSet(dupes[p]) \cap ToSet(unique) = {}
       /\ \A q \in DOMAIN dupes : p # q => ToSet(dupes[p]) \cap ToSet(dupes[q]) = {}
  /\ \A f \in Entry : Listed(f) => key[f] # 0

(* A file has one place.                                                   *)
LEMMA OnePlace ==
  ASSUME PlacedInv, NEW b \in 0..UIntMax, NEW c \in 0..UIntMax,
         NEW k \in DOMAIN chain[b], NEW m \in DOMAIN chain[c], chain[b][k] = chain[c][m]
  PROVE  b = c /\ k = m
<1>1. chain[b][k] \in ToSet(chain[b]) /\ chain[c][m] \in ToSet(chain[c])
  BY DEF ToSet
<1>2. b = c
  BY <1>1 DEF PlacedInv
<1> QED BY <1>2 DEF PlacedInv, IsInjective

(* Where a callback looks.                                                 *)
LEMMA Looks ==
  ASSUME ShapeInv, NEW w \in Worker
  PROVE  /\ cb[w].bucket \in 0..UIntMax /\ cb[w].i \in Nat /\ cb[w].j \in Nat
         /\ cb[w].group \in Seq(Entry) /\ Chain(w) = chain[cb[w].bucket]
         /\ Chain(w) \in Seq(Entry) /\ DOMAIN Chain(w) = 1..Len(Chain(w))
         /\ Len(Chain(w)) \in Nat
         /\ pc[w] \in AtEntry => /\ cb[w].i \in DOMAIN Chain(w) /\ pc[w] # "idle"
                                 /\ First(w) = Chain(w)[cb[w].i]
                                 /\ First(w) \in ToSet(Chain(w)) /\ First(w) \in Entry
         /\ pc[w] \in AtPair => /\ cb[w].j \in DOMAIN Chain(w) /\ pc[w] \in AtEntry
                                /\ Second(w) = Chain(w)[cb[w].j]
                                /\ Second(w) \in ToSet(Chain(w)) /\ Second(w) \in Entry
<1>1. BInv /\ cb[w].bucket \in 0..UIntMax
  BY DEF ShapeInv, Positions
<1>2. cb[w].i \in Nat /\ cb[w].j \in Nat /\ cb[w].group \in Seq(Entry)
  BY <1>1, Here DEF Record
<1>3. Chain(w) \in Seq(Entry) /\ Chain(w) = chain[cb[w].bucket]
  BY <1>1 DEF Chain, BInv, Typed
<1>4. DOMAIN Chain(w) = 1..Len(Chain(w)) /\ Len(Chain(w)) \in Nat
  BY <1>3
<1>5. pc[w] \in AtEntry => cb[w].i \in DOMAIN Chain(w) /\ pc[w] # "idle"
  BY <1>1, <1>2, <1>4, Here DEF AtEntry
<1>6. pc[w] \in AtPair => cb[w].j \in DOMAIN Chain(w) /\ pc[w] \in AtEntry
  BY <1>1, <1>2, <1>4, Here DEF AtEntry, AtPair
<1>7. pc[w] \in AtEntry => First(w) \in ToSet(Chain(w)) /\ First(w) \in Entry
  BY <1>3, <1>5, InFiles DEF First, ToSet
<1>8. pc[w] \in AtPair => Second(w) \in ToSet(Chain(w)) /\ Second(w) \in Entry
  BY <1>3, <1>6, InFiles DEF Second, ToSet
<1> QED BY <1>1, <1>2, <1>3, <1>4, <1>5, <1>6, <1>7, <1>8 DEF First, Second

(* Two callbacks have no file in common.                                   *)
LEMMA OwnFiles ==
  ASSUME ShapeInv, PlacedInv, NEW v \in Worker, NEW w \in Worker, v # w,
         pc[v] # "idle", pc[w] # "idle"
  PROVE  ToSet(Chain(v)) \cap ToSet(Chain(w)) = {}
<1> SUFFICES ASSUME NEW f \in ToSet(Chain(v)) \cap ToSet(Chain(w)) PROVE FALSE
  OBVIOUS
<1>1. cb[v].bucket = Index(key[f]) /\ cb[w].bucket = Index(key[f])
  BY Looks DEF PlacedInv
<1> QED BY <1>1 DEF ShapeInv, BInv, OwnBucket

(* What another callback does not touch.                                   *)
LEMMA Elsewhere ==
  ASSUME ShapeInv, NEW w \in Worker, WorkerEffect(w), NEW v \in Worker, v # w
  PROVE  /\ pc'[v] = pc[v] /\ cb'[v] = cb[v]
         /\ pc[v] # "idle" => /\ Chain(v)' = Chain(v)
                              /\ First(v)' = First(v) /\ Second(v)' = Second(v)
<1>1. pc'[v] = pc[v] /\ cb'[v] = cb[v]
  BY DEF WorkerEffect, ClaimEffect, OuterEffect, InnerEffect, HashEffect, TestEffect,
     WriteOutEffect, LeaveEffect, Within
<1>2. ASSUME pc[v] # "idle" PROVE Chain(v)' = Chain(v)
  <2>1. CASE LeaveEffect(w)
    <3>1. cb[v].bucket # cb[w].bucket /\ cb[v].bucket \in 0..UIntMax
      BY <1>2, <2>1 DEF LeaveEffect, ShapeInv, BInv, OwnBucket
    <3> QED BY <1>1, <2>1, <3>1 DEF LeaveEffect, Chain
  <2>2. CASE ~LeaveEffect(w)
    <3>1. chain' = chain
      BY <2>2 DEF WorkerEffect, ClaimEffect, OuterEffect, InnerEffect, HashEffect,
         TestEffect, WriteOutEffect, Within
    <3> QED BY <1>1, <3>1 DEF Chain
  <2> QED BY <2>1, <2>2
<1> QED BY <1>1, <1>2 DEF First, Second

(* Its own place, when it stays in its bucket.                             *)
LEMMA Stays ==
  ASSUME ShapeInv, NEW w \in Worker, Within(w), cb'[w].bucket = cb[w].bucket
  PROVE  /\ Chain(w)' = Chain(w)
         /\ cb'[w].i = cb[w].i => First(w)' = First(w)
         /\ cb'[w].j = cb[w].j => Second(w)' = Second(w)
BY DEF Within, Chain, First, Second

(* Only the comparison marks a file, and only the second of its pair.      *)
LEMMA WorkerMarks ==
  ASSUME NEW w \in Worker, WorkerEffect(w)
  PROVE  \/ matched' = matched
         \/ TestEffect(w) /\ matched' = matched \cup {Second(w)}
BY DEF WorkerEffect, ClaimEffect, OuterEffect, InnerEffect, HashEffect, TestEffect,
   WriteOutEffect, LeaveEffect

(* The files a callback writes about at the end of its inner loop.         *)
Out(w) == IF cb[w].group = <<>> THEN {First(w)} ELSE ToSet(cb[w].group)

(* Only the end of an inner loop writes, and only its own files.           *)
LEMMA WorkerLists ==
  ASSUME ShapeInv, NEW w \in Worker, WorkerEffect(w)
  PROVE  \/ /\ UNCHANGED <<dupes, unique>> /\ \A f : Listed(f)' <=> Listed(f)
            /\ ~WriteOutEffect(w) \/ term
         \/ /\ WriteOutEffect(w) /\ ~term
            /\ \A f : Listed(f)' <=> Listed(f) \/ f \in Out(w)
<1>1. CASE UNCHANGED <<dupes, unique>>
  <2>1. ASSUME WriteOutEffect(w), ~term PROVE FALSE
    <3>1. Len(dupes) \in Nat /\ Len(unique) \in Nat
      BY DEF ShapeInv, Types
    <3>2. \/ Len(dupes') = Len(dupes) + 1
          \/ Len(unique') = Len(unique) + 1
      BY <2>1 DEF WriteOutEffect, ShapeInv, Types
    <3> QED BY <1>1, <3>1, <3>2
  <2> QED BY <1>1, <2>1 DEF Listed
<1>2. CASE ~ UNCHANGED <<dupes, unique>>
  <2>1. WriteOutEffect(w) /\ ~term /\ pc[w] \in AtEntry
    BY <1>2 DEF WorkerEffect, ClaimEffect, OuterEffect, InnerEffect, HashEffect,
       TestEffect,
       WriteOutEffect, LeaveEffect, AtEntry
  <2>2. First(w) \in Entry /\ cb[w].group \in Seq(Entry)
    BY <2>1, Looks
  <2>3. unique \in Seq(Entry) /\ dupes \in Seq(Seq(Entry))
    BY DEF ShapeInv, Types
  <2>4. ToSet(Append(unique, First(w))) = ToSet(unique) \cup {First(w)}
    BY <2>2, <2>3, AppendElements
  <2>5. ToSet(Append(dupes, cb[w].group)) = ToSet(dupes) \cup {cb[w].group}
    BY <2>2, <2>3, AppendElements
  <2>6. \A f : Listed(f)' <=> Listed(f) \/ f \in Out(w)
    BY <2>1, <2>4, <2>5, <1>2 DEF WriteOutEffect, Listed, Out
  <2> QED BY <2>1, <2>6
<1> QED BY <1>1, <1>2

(* Digests stay, keys stay.                                                *)
LEMMA StaysAlike ==
  ASSUME ShapeInv, NEW w \in Worker, WorkerEffect(w)
  PROVE  /\ \A f \in Entry : digest[f] # Zero => digest'[f] = digest[f]
         /\ \A f, g \in Entry : Alike(f, g) => Alike(f, g)'
<1>1. \A f \in Entry : digest[f] # Zero => digest'[f] = digest[f]
  <2>1. digest \in [Entry -> {d.digest : d \in Data} \cup {Zero}]
    BY DEF ShapeInv, Types
  <2>2. ASSUME NEW g \in Entry, digest[g] = Zero, digest' = [digest EXCEPT ![g] = disk[g].digest]
        PROVE  \A f \in Entry : digest[f] # Zero => digest'[f] = digest[f]
    BY <2>1, <2>2
  <2> QED BY <2>2, WorkerDigest
<1>2. key' = key
  BY WorkerKeeps
<1> QED BY <1>1, <1>2 DEF Alike

(* Before the comparison no thread is in a bucket.                         *)
LEMMA AllIdle ==
  ASSUME ShapeInv, phase \in {"parse", "find"} PROVE \A w \in Worker : pc[w] = "idle"
BY DEF ShapeInv, BInv, OwnBucket

(* The two files of a pair are two.                                        *)
LEMMA TwoFiles ==
  ASSUME ShapeInv, PlacedInv, NEW w \in Worker, PairOf(w), pc[w] \in AtPair
  PROVE  First(w) # Second(w)
<1>1. /\ cb[w].i \in DOMAIN Chain(w) /\ cb[w].j \in DOMAIN Chain(w)
      /\ cb[w].i \in Nat /\ cb[w].j \in Nat /\ cb[w].i < cb[w].j
      /\ First(w) = Chain(w)[cb[w].i] /\ Second(w) = Chain(w)[cb[w].j]
  BY Looks DEF PairOf
<1>2. cb[w].i # cb[w].j
  BY <1>1
<1>3. IsInjective(Chain(w))
  BY Looks DEF PlacedInv
<1> QED BY <1>1, <1>2, <1>3 DEF IsInjective

(* No other callback changes what a callback knows of its pair: it marks   *)
(* files of its own bucket only.                                           *)
LEMMA PairStep == ASSUME ShapeInv, PlacedInv, PairInv, DataNext PROVE PairInv'
<1>1. CASE Still
  <2>1. /\ UNCHANGED <<chain, key, digest, matched, pc, cb>>
        /\ phase' = "compare" => phase = "compare"
        /\ ~term' => ~term
    <3>1. /\ UNCHANGED <<chain, key, digest, matched, pc, cb>>
          /\ phase' = "compare" => phase = "compare"
          /\ term' \in {term, TRUE}
      BY <1>1 DEF Still
    <3>2. CASE term' = term
      BY <3>1, <3>2
    <3>3. CASE term' = TRUE
      BY <3>1, <3>3
    <3> QED BY <3>1, <3>2, <3>3
  <2>2. ASSUME NEW w \in Worker PROVE PairOf(w)'
    <3>1. Chain(w)' = Chain(w) /\ First(w)' = First(w) /\ Second(w)' = Second(w)
      BY <2>1 DEF First, Second, Chain
    <3> QED BY <2>1, <3>1 DEF PairInv, PairOf
  <2> QED BY <2>2 DEF PairInv
<1>2. CASE phase \in {"parse", "find"} /\ pc' = pc
  BY <1>2, AllIdle DEF PairInv, PairOf, AtEntry, AtPair
<1>3. ASSUME NEW w \in Worker, WorkerEffect(w) PROVE PairInv'
  <2>1. ASSUME NEW v \in Worker, v # w PROVE PairOf(v)'
    <3>1. CASE pc[v] = "idle"
      BY <1>3, <2>1, <3>1, Elsewhere DEF PairOf, AtEntry, AtPair
    <3>2. CASE pc[v] # "idle"
      <4>1. /\ pc'[v] = pc[v] /\ cb'[v] = cb[v] /\ Chain(v)' = Chain(v)
            /\ First(v)' = First(v) /\ Second(v)' = Second(v)
        BY <1>3, <2>1, <3>2, Elsewhere
      <4>2. UNCHANGED <<key, term>> /\ phase = "compare"
        BY <1>3, WorkerKeeps
      <4>3. PairOf(v)
        BY DEF PairInv
      <4>4. pc[v] \in AtEntry => First(v) \notin matched'
        <5>1. CASE matched' = matched
          BY <4>3, <5>1 DEF PairOf
        <5>2. CASE TestEffect(w) /\ matched' = matched \cup {Second(w)} /\ pc[v] \in AtEntry
          <6>1. pc[w] \in AtPair /\ pc[w] # "idle"
            BY <5>2 DEF TestEffect, AtPair
          <6>2. First(v) \in ToSet(Chain(v)) /\ Second(w) \in ToSet(Chain(w))
            BY <5>2, <6>1, Looks
          <6>3. First(v) # Second(w)
            BY <2>1, <3>2, <6>1, <6>2, OwnFiles
          <6> QED BY <4>3, <5>2, <6>3 DEF PairOf
        <5> QED BY <1>3, <5>1, <5>2, WorkerMarks
      <4>5. pc[v] \in AtPair => Second(v) \notin matched'
        <5>1. CASE matched' = matched
          BY <4>3, <5>1 DEF PairOf
        <5>2. CASE TestEffect(w) /\ matched' = matched \cup {Second(w)} /\ pc[v] \in AtPair
          <6>1. pc[w] \in AtPair /\ pc[w] # "idle"
            BY <5>2 DEF TestEffect, AtPair
          <6>2. Second(v) \in ToSet(Chain(v)) /\ Second(w) \in ToSet(Chain(w))
            BY <5>2, <6>1, Looks
          <6>3. Second(v) # Second(w)
            BY <2>1, <3>2, <6>1, <6>2, OwnFiles
          <6> QED BY <4>3, <5>2, <6>3 DEF PairOf
        <5> QED BY <1>3, <5>1, <5>2, WorkerMarks
      <4>6. /\ phase' = "compare" /\ pc[v] \in {"second", "test"} => digest'[First(v)] # Zero
            /\ phase' = "compare" /\ pc[v] = "test" => digest'[Second(v)] # Zero
        <5>1. pc[v] \in {"second", "test"} => First(v) \in Entry /\ Second(v) \in Entry
          BY Looks DEF AtEntry, AtPair
        <5> QED BY <1>3, <4>2, <4>3, <5>1, StaysAlike DEF PairOf
      <4> QED BY <4>1, <4>2, <4>3, <4>4, <4>5, <4>6 DEF PairOf
    <3> QED BY <3>1, <3>2
  <2>a. /\ cb[w].i \in Nat /\ cb[w].j \in Nat
        /\ pc[w] \in AtEntry => First(w) \in Entry
        /\ pc[w] \in AtPair => First(w) \in Entry /\ Second(w) \in Entry
    BY Looks
  <2>b. PairOf(w)
    BY DEF PairInv
  <2>2. CASE ClaimEffect(w) \/ LeaveEffect(w)
    <3>1. pc'[w] \in {"idle", "outer"} \/ (pc'[w] = "leave" /\ term')
      BY <2>2 DEF ClaimEffect, LeaveEffect
    <3>2. PairOf(w)'
      BY <3>1 DEF PairOf, AtEntry, AtPair
    <3> QED BY <2>1, <3>2 DEF PairInv
  <2>3. CASE OuterEffect(w)
    <3>1. Chain(w)' = Chain(w) /\ (cb'[w].i = cb[w].i => First(w)' = First(w))
      BY <2>3, Stays DEF OuterEffect, Now
    <3>2. matched' = matched
      BY <2>3 DEF OuterEffect
    <3>3. PairOf(w)'
      BY <2>3, <2>a, <3>1, <3>2 DEF OuterEffect, Now, PairOf, AtEntry, AtPair
    <3> QED BY <2>1, <3>3 DEF PairInv
  <2>4. CASE InnerEffect(w)
    <3>1. /\ Chain(w)' = Chain(w) /\ First(w)' = First(w)
          /\ cb'[w].j = cb[w].j => Second(w)' = Second(w)
      BY <2>4, Stays DEF InnerEffect, Now
    <3>2. UNCHANGED <<matched, key>>
      BY <2>4 DEF InnerEffect, Within
    <3>3. PairOf(w)'
      BY <2>4, <2>a, <2>b, <3>1, <3>2 DEF InnerEffect, Now, PairOf, AtEntry, AtPair
    <3> QED BY <2>1, <3>3 DEF PairInv
  <2>5. CASE HashEffect(w)
    <3>1. Chain(w)' = Chain(w) /\ First(w)' = First(w) /\ Second(w)' = Second(w)
      BY <2>5, Stays DEF HashEffect, Now
    <3>2. UNCHANGED <<matched, key, term>> /\ cb'[w].i = cb[w].i /\ cb'[w].j = cb[w].j
      BY <2>5 DEF HashEffect, Within, Now
    <3>3. \A f \in Entry : digest[f] # Zero => digest'[f] # Zero
      BY <1>3, StaysAlike
    <3>4. \A f \in Entry : Hashes(w, f) /\ phase' = "compare" => digest'[f] # Zero
      <4> SUFFICES ASSUME NEW f \in Entry, Hashes(w, f), phase' = "compare"
                   PROVE  digest'[f] # Zero
        OBVIOUS
      <4>1. CASE digest[f] # Zero
        BY <3>3, <4>1
      <4>2. CASE /\ digest[f] = Zero /\ disk[f] # Gone
                 /\ digest' = [digest EXCEPT ![f] = disk[f].digest]
        <5>1. disk[f].digest # Zero
          BY <4>2, BucketsAssumption DEF ShapeInv, Types
        <5> QED BY <4>2, <5>1 DEF ShapeInv, Types
      <4> QED BY <4>1, <4>2 DEF Hashes
    <3>5. pc[w] \in AtEntry /\ pc[w] \in AtPair
      BY <2>5 DEF HashEffect, AtEntry, AtPair
    <3>6. ASSUME pc[w] = "first", Hashes(w, First(w)), pc'[w] = "second"
          PROVE  PairOf(w)'
      BY <2>a, <2>b, <3>1, <3>2, <3>4, <3>5, <3>6 DEF PairOf, AtEntry, AtPair
    <3>7. ASSUME pc[w] = "second", Hashes(w, Second(w)), pc'[w] = "test"
          PROVE  PairOf(w)'
      <4>1. phase = "compare"
        BY <1>3, WorkerKeeps
      <4> QED BY <4>1, <2>a, <2>b, <3>1, <3>2, <3>3, <3>4, <3>5, <3>7
          DEF PairOf, AtEntry, AtPair
    <3>8. PairOf(w)'
      BY <2>5, <3>6, <3>7 DEF HashEffect, Now
    <3> QED BY <2>1, <3>8 DEF PairInv
  <2>6. CASE TestEffect(w)
    <3>1. Chain(w)' = Chain(w) /\ First(w)' = First(w)
      BY <2>6, Stays DEF TestEffect, Now
    <3>2. pc[w] \in AtEntry /\ pc[w] \in AtPair
      BY <2>6 DEF TestEffect, AtEntry, AtPair
    <3>3. First(w) # Second(w)
      BY <3>2, TwoFiles DEF PairInv
    <3>4. First(w) \notin matched'
      BY <2>6, <2>b, <3>2, <3>3 DEF TestEffect, PairOf
    <3>5. pc'[w] = "inner" /\ cb'[w].i = cb[w].i /\ cb'[w].j = cb[w].j + 1
      BY <2>6 DEF TestEffect, Now
    <3>6. PairOf(w)'
      BY <2>a, <2>b, <3>1, <3>2, <3>4, <3>5 DEF PairOf, AtEntry, AtPair
    <3> QED BY <2>1, <3>6 DEF PairInv
  <2>7. CASE WriteOutEffect(w)
    <3>1. pc'[w] = "outer" \/ (pc'[w] = "leave" /\ term')
      BY <2>7 DEF WriteOutEffect, Now, Within
    <3>2. PairOf(w)'
      BY <3>1 DEF PairOf, AtEntry, AtPair
    <3> QED BY <2>1, <3>2 DEF PairInv
  <2> QED BY <1>3, <2>2, <2>3, <2>4, <2>5, <2>6, <2>7 DEF WorkerEffect
<1> QED BY <1>1, <1>2, <1>3 DEF DataNext, BeginEffect, FindEndsEffect, FileEffect

(* A callback's own pair is not written yet.                               *)
LEMMA NotListed ==
  ASSUME ShapeInv, FreshInv, NEW w \in Worker, PairOf(w), pc[w] \in AtEntry
  PROVE  ~Listed(First(w)) /\ (pc[w] \in AtPair => ~Listed(Second(w)))
<1>1. /\ cb[w].bucket \in 0..UIntMax /\ Chain(w) = chain[cb[w].bucket]
      /\ cb[w].i \in DOMAIN Chain(w) /\ First(w) = Chain(w)[cb[w].i]
      /\ cb[w].i \in Nat /\ cb[w].j \in Nat /\ pc[w] # "idle"
      /\ pc[w] \in AtPair => cb[w].j \in DOMAIN Chain(w) /\ Second(w) = Chain(w)[cb[w].j]
  BY Looks
<1>2. \A v \in Worker : pc[v] # "idle" /\ cb[v].bucket = cb[w].bucket => v = w
  BY <1>1 DEF ShapeInv, BInv, OwnBucket
<1>3. First(w) \notin matched /\ cb[w].i < cb[w].j
  BY DEF PairOf
<1>4. ASSUME Listed(First(w)) PROVE FALSE
  <2>1. \E v \in Worker :
          pc[v] # "idle" /\ cb[v].bucket = cb[w].bucket /\ cb[w].i < cb[v].i
    BY <1>1, <1>3, <1>4 DEF FreshInv
  <2> QED BY <1>1, <1>2, <2>1
<1>5. ASSUME pc[w] \in AtPair, Listed(Second(w)) PROVE FALSE
  <2>1. Second(w) \notin matched
    BY <1>5 DEF PairOf
  <2>2. \E v \in Worker :
          pc[v] # "idle" /\ cb[v].bucket = cb[w].bucket /\ cb[w].j < cb[v].i
    BY <1>1, <1>5, <2>1 DEF FreshInv
  <2> QED BY <1>1, <1>2, <1>3, <2>2
<1> QED BY <1>4, <1>5

(* What a callback writes is of its bucket.                                *)
LEMMA OwnOut ==
  ASSUME ShapeInv, NEW w \in Worker, GroupOf(w), pc[w] \in AtEntry
  PROVE  Out(w) \subseteq ToSet(Chain(w)) /\ Out(w) \subseteq Entry
<1>1. First(w) \in ToSet(Chain(w)) /\ ToSet(Chain(w)) \subseteq Entry
  BY Looks, InFiles
<1> QED BY <1>1 DEF Out, GroupOf

(* The group at a match, before the match is added.                        *)
LEMMA BegunIs ==
  ASSUME ShapeInv, FreshInv, NEW w \in Worker, PairOf(w), GroupOf(w),
         phase = "compare", pc[w] = "test"
  PROVE  /\ Begun(w) \in Seq(Entry) /\ IsInjective(Begun(w))
         /\ First(w) \in ToSet(Begun(w))
         /\ \A f \in ToSet(Begun(w)) :
              /\ f \in ToSet(Chain(w)) /\ ~Listed(f) /\ Alike(f, First(w))
              /\ f = First(w) \/ f \in matched
<1>a. pc[w] \in AtEntry /\ pc[w] \in AtPair
  BY DEF AtEntry, AtPair
<1>1. First(w) \in ToSet(Chain(w)) /\ First(w) \in Entry /\ cb[w].group \in Seq(Entry)
  BY <1>a, Looks
<1>2. CASE cb[w].group = <<>>
  <2>1. Begun(w) = <<First(w)>>
    BY <1>2 DEF Begun
  <2>2. ToSet(Begun(w)) = {First(w)} /\ IsInjective(Begun(w)) /\ Begun(w) \in Seq(Entry)
    BY <1>1, <2>1 DEF ToSet, IsInjective
  <2>3. Alike(First(w), First(w)) /\ ~Listed(First(w))
    BY <1>a, NotListed DEF Alike, PairOf
  <2> QED BY <1>1, <2>2, <2>3
<1>3. CASE cb[w].group # <<>>
  BY <1>a, <1>1, <1>3 DEF Begun, GroupOf
<1> QED BY <1>2, <1>3

(* A match is of the bucket, neither marked nor written before, and alike. *)
LEMMA GroupStep ==
  ASSUME ShapeInv, PlacedInv, PairInv, FreshInv, GroupInv, DataNext
  PROVE  GroupInv'
<1>1. CASE Still
  <2>1. UNCHANGED <<chain, key, digest, matched, pc, cb, dupes, unique>>
    BY <1>1 DEF Still
  <2>2. ASSUME NEW w \in Worker PROVE GroupOf(w)'
    <3>1. /\ Chain(w)' = Chain(w) /\ First(w)' = First(w) /\ \A f : Listed(f)' <=> Listed(f)
          /\ \A f, g : Alike(f, g)' <=> Alike(f, g)
      BY <2>1 DEF First, Chain, Listed, Alike
    <3>2. GroupOf(w)
      BY DEF GroupInv
    <3> QED BY <2>1, <3>1, <3>2 DEF GroupOf
  <2> QED BY <2>2 DEF GroupInv
<1>2. CASE phase \in {"parse", "find"} /\ pc' = pc
  BY <1>2, AllIdle DEF GroupInv, GroupOf, AtEntry
<1>3. ASSUME NEW w \in Worker, WorkerEffect(w) PROVE GroupInv'
  <2>a. GroupOf(w) /\ PairOf(w) /\ phase = "compare"
    BY <1>3, WorkerKeeps DEF GroupInv, PairInv
  <2>b. /\ \A f, g \in Entry : Alike(f, g) => Alike(f, g)'
        /\ \A f \in matched : f \in matched'
    BY <1>3, StaysAlike, WorkerMarks
  <2>c. /\ cb[w].i \in Nat /\ cb[w].j \in Nat /\ ToSet(Chain(w)) \subseteq Entry
        /\ pc[w] \in AtEntry => First(w) \in Entry /\ First(w) \in ToSet(Chain(w))
    BY Looks, InFiles
  <2>1. ASSUME NEW v \in Worker, v # w PROVE GroupOf(v)'
    <3>1. CASE pc[v] = "idle"
      BY <1>3, <2>1, <3>1, Elsewhere DEF GroupOf, AtEntry
    <3>2. CASE pc[v] # "idle" /\ pc[v] \in AtEntry
      <4>1. /\ pc'[v] = pc[v] /\ cb'[v] = cb[v] /\ Chain(v)' = Chain(v)
            /\ First(v)' = First(v)
        BY <1>3, <2>1, <3>2, Elsewhere
      <4>2. GroupOf(v) /\ First(v) \in Entry /\ ToSet(Chain(v)) \subseteq Entry
        BY <3>2, Looks, InFiles DEF GroupInv
      <4>3. \A f \in ToSet(Chain(v)) : ~Listed(f) => ~Listed(f)'
        <5>1. CASE \A f : Listed(f)' <=> Listed(f)
          BY <5>1
        <5>2. CASE WriteOutEffect(w) /\ \A f : Listed(f)' <=> Listed(f) \/ f \in Out(w)
          <6>1. pc[w] \in AtEntry /\ pc[w] # "idle"
            BY <5>2 DEF WriteOutEffect, AtEntry
          <6>2. Out(w) \subseteq ToSet(Chain(w))
            BY <2>a, <6>1, OwnOut
          <6>3. ToSet(Chain(v)) \cap ToSet(Chain(w)) = {}
            BY <2>1, <3>2, <6>1, OwnFiles
          <6> QED BY <5>2, <6>2, <6>3
        <5> QED BY <1>3, <5>1, <5>2, WorkerLists
      <4> QED BY <2>b, <3>2, <4>1, <4>2, <4>3 DEF GroupOf
    <3>3. CASE pc[v] # "idle" /\ pc[v] \notin AtEntry
      BY <1>3, <2>1, <3>3, Elsewhere DEF GroupOf
    <3> QED BY <3>1, <3>2, <3>3
  <2>2. CASE ClaimEffect(w) \/ LeaveEffect(w) \/ WriteOutEffect(w)
    <3>1. pc'[w] \notin AtEntry
      BY <2>2 DEF ClaimEffect, LeaveEffect, WriteOutEffect, Now, AtEntry
    <3> QED BY <2>1, <3>1 DEF GroupInv, GroupOf
  <2>3. CASE OuterEffect(w)
    <3>1. pc'[w] \notin AtEntry \/ cb'[w].group = <<>>
      BY <2>3 DEF OuterEffect, Now, AtEntry
    <3>2. GroupOf(w)'
      BY <3>1, EmptyList DEF GroupOf
    <3> QED BY <2>1, <3>2 DEF GroupInv
  <2>4. ASSUME cb'[w].group = cb[w].group, cb'[w].i = cb[w].i, cb'[w].bucket = cb[w].bucket,
               Within(w), UNCHANGED <<dupes, unique>>, pc[w] \in AtEntry
        PROVE  GroupInv'
    <3>1. Chain(w)' = Chain(w) /\ First(w)' = First(w)
      BY <2>4, Stays
    <3>2. \A f : Listed(f)' <=> Listed(f)
      BY <2>4 DEF Listed
    <3>3. GroupOf(w)'
      BY <2>4, <2>a, <2>b, <2>c, <3>1, <3>2 DEF GroupOf
    <3> QED BY <2>1, <3>3 DEF GroupInv
  <2>5. CASE InnerEffect(w) \/ HashEffect(w)
    BY <2>4, <2>5 DEF InnerEffect, HashEffect, Now, AtEntry
  <2>6. CASE TestEffect(w)
    <3>1. /\ Within(w) /\ pc[w] = "test" /\ pc[w] \in AtEntry /\ pc[w] \in AtPair
          /\ UNCHANGED <<digest, dupes, unique>>
          /\ cb'[w].i = cb[w].i /\ cb'[w].bucket = cb[w].bucket
      BY <2>6 DEF TestEffect, Now, AtEntry, AtPair
    <3>2. CASE cb'[w].group = cb[w].group
      BY <2>4, <3>1, <3>2
    <3>3. CASE /\ digest[First(w)] = digest[Second(w)]
               /\ matched' = matched \cup {Second(w)}
               /\ cb'[w].group = Append(Begun(w), Second(w))
      <4>1. /\ Begun(w) \in Seq(Entry) /\ IsInjective(Begun(w))
            /\ First(w) \in ToSet(Begun(w))
            /\ \A f \in ToSet(Begun(w)) :
                 /\ f \in ToSet(Chain(w)) /\ ~Listed(f) /\ Alike(f, First(w))
                 /\ f = First(w) \/ f \in matched
        BY <2>a, <3>1, BegunIs
      <4>2. Second(w) \in Entry /\ Second(w) \in ToSet(Chain(w)) /\ First(w) # Second(w)
        BY <2>a, <3>1, Looks, TwoFiles
      <4>3. Second(w) \notin matched /\ ~Listed(Second(w))
        BY <2>a, <3>1, NotListed DEF PairOf
      <4>4. Alike(Second(w), First(w))
        BY <2>a, <3>1, <3>3 DEF PairOf, Alike
      <4> DEFINE group == Append(Begun(w), Second(w))
      <4>5. IsInjective(group) /\ ToSet(group) = ToSet(Begun(w)) \cup {Second(w)}
        BY <4>1, <4>2, <4>3, AppendElements
      <4>6. Chain(w)' = Chain(w) /\ First(w)' = First(w) /\ \A f : Listed(f)' <=> Listed(f)
        BY <3>1, Stays DEF Listed
      <4>7. cb'[w].group = group
        BY <3>3
      <4> HIDE DEF group
      <4>8. \A f \in ToSet(group) :
              /\ f \in ToSet(Chain(w)) /\ f \in Entry /\ ~Listed(f) /\ Alike(f, First(w))
              /\ f = First(w) \/ f \in matched'
        BY <2>c, <3>3, <4>1, <4>2, <4>3, <4>4, <4>5
      <4>9. GroupOf(w)'
        BY <2>b, <2>c, <3>1, <4>1, <4>5, <4>6, <4>7, <4>8 DEF GroupOf
      <4> QED BY <2>1, <4>9 DEF GroupInv
    <3> QED BY <2>6, <3>2, <3>3 DEF TestEffect, Now
  <2> QED BY <1>3, <2>2, <2>3, <2>5, <2>6 DEF WorkerEffect
<1> QED BY <1>1, <1>2, <1>3 DEF DataNext, BeginEffect, FindEndsEffect, FileEffect

(* A file is written when its callback passes it, or it is marked.         *)
LEMMA FreshStep ==
  ASSUME ShapeInv, PlacedInv, FindInv, GroupInv, FreshInv, DataNext
  PROVE  FreshInv'
<1>1. CASE Still
  <2>1. UNCHANGED <<chain, matched, pc, cb>> /\ \A f : Listed(f)' <=> Listed(f)
    BY <1>1 DEF Still, Listed
  <2> QED BY <2>1 DEF FreshInv
<1>2. CASE phase \in {"parse", "find"} /\ UNCHANGED <<dupes, unique>>
  <2>1. dupes' = <<>> /\ unique' = <<>>
    BY <1>2 DEF FindInv
  <2>2. \A f : ~Listed(f)'
    BY <2>1, EmptyList DEF Listed
  <2> QED BY <2>2 DEF FreshInv
<1>3. ASSUME NEW w \in Worker, WorkerEffect(w) PROVE FreshInv'
  <2> SUFFICES ASSUME NEW b \in 0..UIntMax, NEW k \in DOMAIN chain'[b],
                      NEW f, f = chain'[b][k], Listed(f)', f \notin matched'
               PROVE  \E v \in Worker : pc'[v] # "idle" /\ cb'[v].bucket = b /\ k < cb'[v].i
    BY DEF FreshInv, Listed
  <2> DEFINE Passed(v) == pc'[v] # "idle" /\ cb'[v].bucket = b /\ k < cb'[v].i
  <2>1. chain'[b] = chain[b] /\ k \in DOMAIN chain[b] /\ chain'[b] # <<>>
    BY <1>3, WorkerKeeps
  <2>2. f = chain[b][k] /\ f \notin matched
    BY <1>3, <2>1, WorkerMarks
  <2>3. CASE Listed(f)
    <3>1. PICK v \in Worker : pc[v] # "idle" /\ cb[v].bucket = b /\ k < cb[v].i
      BY <2>1, <2>2, <2>3 DEF FreshInv
    <3>2. CASE v # w
      <4>1. Passed(v)
        BY <1>3, <3>1, <3>2, Elsewhere
      <4> QED BY <4>1
    <3>3. CASE v = w
      <4>1. ~ClaimEffect(w) /\ ~LeaveEffect(w)
        BY <2>1, <3>1, <3>3 DEF ClaimEffect, LeaveEffect
      <4>2. pc'[w] # "idle" /\ cb'[w].bucket = cb[w].bucket
            /\ cb'[w].i \in {cb[w].i, cb[w].i + 1}
        BY <1>3, <4>1 DEF WorkerEffect, OuterEffect, InnerEffect, HashEffect,
           TestEffect,
           WriteOutEffect, Within, Now
      <4>3. cb[w].i \in Nat /\ k \in Nat
        <5>1. chain[b] \in Seq(Entry)
          BY DEF ShapeInv, BInv, Typed
        <5> QED BY <2>1, <5>1, Looks
      <4>4. Passed(w)
        BY <3>1, <3>3, <4>2, <4>3
      <4> QED BY <4>4
    <3> QED BY <3>2, <3>3
  <2>4. CASE ~Listed(f)
    <3>1. WriteOutEffect(w) /\ ~term /\ f \in Out(w)
      BY <1>3, <2>4, WorkerLists
    <3>2. pc[w] \in AtEntry
      BY <3>1 DEF WriteOutEffect, AtEntry
    <3>3. f = First(w)
      BY <2>2, <3>1, <3>2 DEF GroupInv, GroupOf, Out
    <3>4. b = cb[w].bucket /\ k = cb[w].i
      <4>1. /\ cb[w].bucket \in 0..UIntMax /\ cb[w].i \in DOMAIN chain[cb[w].bucket]
            /\ First(w) = chain[cb[w].bucket][cb[w].i]
        BY <3>2, Looks
      <4> QED BY <2>1, <3>3, <4>1, OnePlace
    <3>5. cb[w].i \in Nat
      BY Looks
    <3>6. Passed(w)
      BY <3>1, <3>4, <3>5 DEF WriteOutEffect, Within, Now
    <3> QED BY <3>6
  <2> QED BY <2>3, <2>4
<1> QED BY <1>1, <1>2, <1>3 DEF DataNext, BeginEffect, FindEndsEffect, FileEffect

(* What a callback writes was not written before.                          *)
LEMMA WrittenStep ==
  ASSUME ShapeInv, PlacedInv, FindInv, PairInv, GroupInv, FreshInv, WrittenInv, DataNext
  PROVE  WrittenInv'
<1>1. ASSUME UNCHANGED <<dupes, unique>>, \A f, g \in Entry : Alike(f, g) => Alike(f, g)',
             \A f \in Entry : Listed(f) => key'[f] # 0
      PROVE  WrittenInv'
  <2>1. \A p \in DOMAIN dupes : ToSet(dupes[p]) \subseteq Entry
    <3>1. \A p \in DOMAIN dupes : dupes[p] \in Seq(Entry)
      BY DEF ShapeInv, Types
    <3> QED BY <3>1, InFiles
  <2>2. \A f : Listed(f)' <=> Listed(f)
    BY <1>1 DEF Listed
  <2>3. \A p \in DOMAIN dupes : \A f, g \in ToSet(dupes[p]) : Alike(f, g)'
    BY <1>1, <2>1 DEF WrittenInv
  <2> QED BY <1>1, <2>2, <2>3 DEF WrittenInv
<1>2. CASE UNCHANGED <<dupes, unique, key, digest>>
  BY <1>1, <1>2 DEF WrittenInv, Alike
<1>3. CASE phase \in {"parse", "find"} /\ UNCHANGED <<dupes, unique>>
  <2>1. dupes' = <<>> /\ unique' = <<>>
    BY <1>3 DEF FindInv
  <2>2. \A f : ~Listed(f)'
    BY <2>1, EmptyList DEF Listed
  <2>3. IsInjective(unique') /\ DOMAIN dupes' = {}
    BY <2>1, EmptyList
  <2> QED BY <2>2, <2>3 DEF WrittenInv
<1>4. ASSUME NEW w \in Worker, WorkerEffect(w) PROVE WrittenInv'
  <2>1. CASE UNCHANGED <<dupes, unique>>
    <3>1. \A f \in Entry : Listed(f) => key'[f] # 0
      BY <1>4, WorkerKeeps DEF WrittenInv
    <3> QED BY <1>1, <1>4, <2>1, <3>1, StaysAlike
  <2>2. CASE WriteOutEffect(w) /\ ~ UNCHANGED <<dupes, unique>>
    <3>1. /\ pc[w] \in AtEntry /\ GroupOf(w) /\ PairOf(w)
          /\ UNCHANGED <<key, digest>>
      BY <2>2 DEF WriteOutEffect, Within, AtEntry, GroupInv, PairInv
    <3>2. /\ unique \in Seq(Entry) /\ dupes \in Seq(Seq(Entry))
          /\ cb[w].group \in Seq(Entry) /\ First(w) \in Entry /\ First(w) \in ToSet(Chain(w))
      BY <3>1, Looks DEF ShapeInv, Types
    <3>3. \A f, g : Alike(f, g)' <=> Alike(f, g)
      BY <3>1 DEF Alike
    <3>4. \A f \in Out(w) : f \in Entry /\ f \in ToSet(Chain(w)) /\ ~Listed(f) /\ key[f] # 0
      <4>1. Out(w) \subseteq ToSet(Chain(w)) /\ Out(w) \subseteq Entry
        BY <3>1, OwnOut
      <4>2. \A f \in ToSet(Chain(w)) : key[f] # 0
        BY Looks DEF PlacedInv
      <4>3. ~Listed(First(w))
        BY <3>1, NotListed
      <4>4. \A f \in Out(w) : ~Listed(f)
        BY <3>1, <4>3 DEF Out, GroupOf
      <4> QED BY <4>1, <4>2, <4>4
    <3>5. \A f \in Entry : Listed(f)' => key'[f] # 0
      <4>1. \A f : Listed(f)' => Listed(f) \/ f \in Out(w)
        BY <1>4, WorkerLists
      <4> QED BY <3>1, <3>4, <4>1 DEF WrittenInv
    <3>6. CASE /\ cb[w].group # <<>>
               /\ dupes' = Append(dupes, cb[w].group) /\ unique' = unique
      <4> DEFINE group == cb[w].group
      <4>1. Out(w) = ToSet(group) /\ IsInjective(group)
        BY <3>1, <3>6 DEF Out, GroupOf
      <4>2. \A f, g \in ToSet(group) : Alike(f, g)
        <5>1. \A f \in ToSet(group) : Alike(f, First(w))
          BY <3>1 DEF GroupOf
        <5> QED BY <5>1 DEF Alike
      <4>3. ToSet(group) \cap ToSet(unique) = {}
        BY <3>4, <4>1 DEF Listed
      <4>4. \A p \in DOMAIN dupes : ToSet(dupes[p]) \cap ToSet(group) = {}
        <5>1. \A p \in DOMAIN dupes : dupes[p] \in ToSet(dupes)
          BY <3>2 DEF ToSet
        <5> QED BY <3>4, <4>1, <5>1 DEF Listed
      <4> HIDE DEF group
      <4>5. /\ DOMAIN dupes' = 1..(Len(dupes) + 1) /\ DOMAIN dupes = 1..Len(dupes)
            /\ Len(dupes) \in Nat
            /\ \A p \in DOMAIN dupes : dupes'[p] = dupes[p]
            /\ dupes'[Len(dupes) + 1] = group
        BY <3>2, <3>6 DEF group
      <4>6. ASSUME NEW p \in DOMAIN dupes'
            PROVE  /\ IsInjective(dupes'[p])
                   /\ \A f, g \in ToSet(dupes'[p]) : Alike(f, g)
                   /\ ToSet(dupes'[p]) \cap ToSet(unique) = {}
        <5>1. CASE p \in DOMAIN dupes
          BY <4>5, <5>1 DEF WrittenInv
        <5>2. CASE p = Len(dupes) + 1
          BY <4>1, <4>2, <4>3, <4>5, <5>2
        <5> QED BY <4>5, <5>1, <5>2
      <4>7. ASSUME NEW p \in DOMAIN dupes', NEW q \in DOMAIN dupes', p # q
            PROVE  ToSet(dupes'[p]) \cap ToSet(dupes'[q]) = {}
        <5>1. CASE p \in DOMAIN dupes /\ q \in DOMAIN dupes
          BY <4>5, <4>7, <5>1 DEF WrittenInv
        <5>2. CASE p \in DOMAIN dupes /\ q = Len(dupes) + 1
          BY <4>4, <4>5, <5>2
        <5>3. CASE q \in DOMAIN dupes /\ p = Len(dupes) + 1
          BY <4>4, <4>5, <5>3
        <5> QED BY <4>5, <4>7, <5>1, <5>2, <5>3
      <4> QED BY <3>3, <3>5, <3>6, <4>6, <4>7 DEF WrittenInv
    <3>7. CASE /\ cb[w].group = <<>>
               /\ unique' = Append(unique, First(w)) /\ dupes' = dupes
      <4>1. First(w) \in Out(w)
        BY <3>7 DEF Out
      <4>2. ~Listed(First(w))
        BY <3>4, <4>1
      <4>3. ToSet(unique') = ToSet(unique) \cup {First(w)} /\ IsInjective(unique')
        BY <3>2, <3>7, <4>2, AppendElements DEF Listed, WrittenInv
      <4>4. \A p \in DOMAIN dupes : First(w) \notin ToSet(dupes[p])
        <5>1. \A p \in DOMAIN dupes : dupes[p] \in ToSet(dupes)
          BY <3>2 DEF ToSet
        <5> QED BY <4>2, <5>1 DEF Listed
      <4>5. \A p \in DOMAIN dupes : ToSet(dupes[p]) \cap ToSet(unique') = {}
        BY <4>3, <4>4 DEF WrittenInv
      <4> QED BY <3>3, <3>5, <3>7, <4>3, <4>5 DEF WrittenInv
    <3> QED BY <2>2, <3>6, <3>7 DEF WriteOutEffect
  <2>3. CASE ~WriteOutEffect(w)
    BY <1>4, <2>1, <2>3 DEF WorkerEffect, ClaimEffect, OuterEffect, InnerEffect,
       HashEffect, TestEffect, LeaveEffect
  <2> QED BY <2>1, <2>2, <2>3
<1> QED BY <1>2, <1>3, <1>4 DEF DataNext, Still, BeginEffect, FindEndsEffect, FileEffect

-----------------------------------------------------------------------------
(* Nothing is left out.  While no signal has come, each file with a size   *)
(* is written or still before a callback; each file that is marked is with *)
(* one that is not, in a group written or being built; and two unmarked    *)
(* files of one size are known to differ or are still to be compared.      *)

(* The k-th file of bucket b is the callback's first entry or behind it.   *)
BeforeFile(w, b, k) == pc[w] # "idle" /\ cb[w].bucket = b /\ cb[w].i <= k

(* The k-th and m-th file are the callback's pair or still to come as one. *)
BeforePair(w, b, k, m) ==
  /\ pc[w] # "idle" /\ cb[w].bucket = b
  /\ \/ cb[w].i < k
     \/ cb[w].i = k /\ (pc[w] \in AtEntry => cb[w].j <= m)

(* The same, or nobody has had the bucket yet.                             *)
FileAhead(b, k) == b >= claimed \/ \E w \in Worker : BeforeFile(w, b, k)
PairAhead(b, k, m) == b >= claimed \/ \E w \in Worker : BeforePair(w, b, k, m)

(* A file, and a pair of files, which some callback will come to.          *)
Pending(f) ==
  \E b \in 0..UIntMax : \E k \in DOMAIN chain[b] : chain[b][k] = f /\ FileAhead(b, k)

PairPending(f, g) ==
  \E b \in 0..UIntMax : \E k, m \in DOMAIN chain[b] :
    k < m /\ {chain[b][k], chain[b][m]} = {f, g} /\ PairAhead(b, k, m)

(* Two files in one group, written or being built.                         *)
Together(f, g) ==
  \/ \E d \in ToSet(dupes) : {f, g} \subseteq ToSet(d)
  \/ \E w \in Worker : pc[w] \in AtEntry /\ {f, g} \subseteq ToSet(cb[w].group)

(* Both digests are known and differ.                                      *)
Differ(f, g) == digest[f] # Zero /\ digest[g] # Zero /\ digest[f] # digest[g]

(* No signal has come and main has not given up.                           *)
Undisturbed == ~term /\ phase \in {"compare", "done"}

(* Each unmarked file is written or will be.                               *)
ListedInv ==
  Undisturbed => \A f \in Entry \ matched : key[f] # 0 => Listed(f) \/ Pending(f)

(* Each marked file is in a group with an unmarked one.                    *)
TogetherInv ==
  Undisturbed => \A f \in matched : \E g \in Entry \ matched : Together(f, g)

(* Two unmarked files of one size differ or will be compared.              *)
ComparedInv ==
  Undisturbed =>
    \A f, g \in Entry \ matched :
      f # g /\ key[f] # 0 /\ key[f] = key[g] => Differ(f, g) \/ PairPending(f, g)

(* A complete run has had all buckets.                                     *)
DoneInv ==
  phase = "done" => ~term /\ claimed = count /\ \A w \in Worker : pc[w] = "idle"

(* Main ends the comparison when all buckets are done.                     *)
LEMMA DoneStep == ASSUME ShapeInv, DoneInv, DataNext PROVE DoneInv'
<1>1. CASE Still
  BY <1>1 DEF Still, DoneInv
<1>2. CASE phase' # "done"
  BY <1>2 DEF DoneInv
<1>3. ASSUME NEW w \in Worker, WorkerEffect(w) PROVE phase' # "done"
  BY <1>3, WorkerKeeps
<1> QED BY <1>1, <1>2, <1>3 DEF DataNext, BeginEffect, FindEndsEffect, FileEffect

(* No step but the end of the search makes the comparison undisturbed.     *)
LEMMA Undisturbs ==
  ASSUME ShapeInv, DataNext, Undisturbed'
  PROVE  \/ /\ Undisturbed
            /\ UNCHANGED <<chain, key, digest, matched, claimed, pc, cb, dupes, unique>>
         \/ FindEndsEffect
         \/ /\ Undisturbed /\ phase = "compare" /\ phase' = "compare"
            /\ \E w \in Worker : WorkerEffect(w)
<1>1. CASE Still
  <2>1. /\ UNCHANGED <<chain, key, digest, matched, claimed, pc, cb, dupes, unique>>
        /\ phase' \in {phase, "stopped", "done"}
        /\ phase' = "done" /\ phase' # phase => phase = "compare"
        /\ term' \in {term, TRUE}
    BY <1>1 DEF Still
  <2>2. ~term
    <3>1. CASE term' = term
      BY <3>1 DEF Undisturbed
    <3>2. CASE term' = TRUE
      BY <3>2 DEF Undisturbed
    <3> QED BY <2>1, <3>1, <3>2
  <2> QED BY <2>1, <2>2 DEF Undisturbed
<1>2. ASSUME NEW w \in Worker, WorkerEffect(w)
      PROVE  Undisturbed /\ phase = "compare" /\ phase' = "compare"
  BY <1>2, WorkerKeeps DEF Undisturbed
<1> QED BY <1>1, <1>2 DEF DataNext, BeginEffect, FileEffect, Undisturbed

(* A bucket nobody has yet.                                                *)
LEMMA NotTaken ==
  ASSUME ShapeInv, NEW w \in Worker, WorkerEffect(w), ~term,
         NEW b \in 0..UIntMax, b >= claimed
  PROVE  /\ chain'[b] = chain[b]
         /\ \/ b >= claimed'
            \/ pc'[w] = "outer" /\ cb'[w].bucket = b /\ cb'[w].i = 1
<1>a. claimed \in Nat /\ UIntMax \in Nat
  BY OptionsAssumption DEF ShapeInv, BInv, Typed
<1>1. CASE ClaimEffect(w)
  BY <1>a, <1>1 DEF ClaimEffect
<1>2. CASE LeaveEffect(w)
  <2>1. cb[w].bucket < claimed /\ cb[w].bucket \in 0..UIntMax
    BY <1>2 DEF LeaveEffect, ShapeInv, BInv, OwnBucket
  <2>2. cb[w].bucket # b
    BY <1>a, <2>1
  <2> QED BY <1>2, <2>2 DEF LeaveEffect
<1>3. CASE ~ClaimEffect(w) /\ ~LeaveEffect(w)
  BY <1>3 DEF WorkerEffect, OuterEffect, InnerEffect, HashEffect, TestEffect,
     WriteOutEffect, Within
<1> QED BY <1>1, <1>2, <1>3

(* A callback with files before it stays where it is or passes one.        *)
LEMMA GoesOn ==
  ASSUME ShapeInv, NEW w \in Worker, PairOf(w), WorkerEffect(w), ~term, pc[w] # "idle",
         NEW k \in DOMAIN Chain(w), cb[w].i <= k
  PROVE  /\ Within(w) /\ cb'[w].bucket = cb[w].bucket
         /\ \/ cb'[w].i = cb[w].i
            \/ /\ cb'[w].i = cb[w].i + 1 /\ pc'[w] = "outer"
               /\ \/ pc[w] = "outer" /\ First(w) \in matched
                  \/ pc[w] = "last" /\ WriteOutEffect(w)
<1>1. k <= Len(Chain(w)) /\ k \in Nat /\ Len(Chain(w)) \in Nat /\ cb[w].i \in Nat
  BY Looks
<1>2. pc[w] # "leave"
  BY <1>1 DEF PairOf
<1>3. ~ClaimEffect(w) /\ ~LeaveEffect(w)
  BY <1>2 DEF ClaimEffect, LeaveEffect
<1> QED BY <1>3 DEF WorkerEffect, OuterEffect, InnerEffect, HashEffect, TestEffect,
           WriteOutEffect, Now

(* A callback passes an unmarked file by writing it.                       *)
LEMMA ListedStep ==
  ASSUME ShapeInv, PlacedInv, FindInv, PairInv, GroupInv, ListedInv, DataNext
  PROVE  ListedInv'
<1> SUFFICES ASSUME Undisturbed', NEW f \in Entry, f \notin matched', key'[f] # 0
             PROVE  Listed(f)' \/ Pending(f)'
  BY DEF ListedInv
<1>1. CASE /\ Undisturbed
           /\ UNCHANGED <<chain, key, digest, matched, claimed, pc, cb, dupes, unique>>
  <2>1. Listed(f) \/ Pending(f)
    BY <1>1 DEF ListedInv
  <2> QED BY <1>1, <2>1 DEF Listed, Pending, FileAhead, BeforeFile
<1>2. CASE FindEndsEffect
  <2>1. UNCHANGED <<key, chain, claimed, count>> /\ claimed = 0 /\ phase = "find"
    BY <1>2 DEF FindEndsEffect, ShapeInv, Types
  <2> DEFINE b == Index(key[f])
  <2>2. f \in ToSet(chain[b])
    BY <2>1 DEF FindInv
  <2>3. b \in 0..UIntMax /\ b >= 0
    <3>1. /\ count \in 1..UIntMax /\ key[f] \in Nat /\ UIntMax \in Nat
      BY <2>1, OptionsAssumption DEF ShapeInv, TableInv, BInv, Typed, Types
    <3>2. b \in 0..(count - 1)
      BY <3>1, IndexBelow
    <3> QED BY <3>1, <3>2
  <2> HIDE DEF b
  <2>4. PICK k \in DOMAIN chain[b] : chain[b][k] = f
    BY <2>2 DEF ToSet
  <2>5. Pending(f)'
    BY <2>1, <2>3, <2>4 DEF Pending, FileAhead
  <2> QED BY <2>5
<1>3. ASSUME Undisturbed, phase = "compare", NEW w \in Worker, WorkerEffect(w)
      PROVE  Listed(f)' \/ Pending(f)'
  <2>1. f \notin matched /\ key[f] # 0 /\ ~term
    BY <1>3, WorkerMarks, WorkerKeeps DEF Undisturbed
  <2>2. CASE Listed(f)
    BY <1>3, <2>2, WorkerLists
  <2>3. CASE Pending(f)
    <3>a. PICK b \in 0..UIntMax :
            \E k \in DOMAIN chain[b] : chain[b][k] = f /\ FileAhead(b, k)
      BY <2>3 DEF Pending
    <3>1. PICK k \in DOMAIN chain[b] : chain[b][k] = f /\ FileAhead(b, k)
      BY <3>a
    <3>2. k \in Nat /\ k >= 1
      <4>1. chain[b] \in Seq(Entry)
        BY DEF ShapeInv, BInv, Typed
      <4> QED BY <4>1
    <3>3. ASSUME chain'[b] = chain[b], FileAhead(b, k)' PROVE Pending(f)'
      BY <3>1, <3>3 DEF Pending
    <3>4. CASE b >= claimed
      <4>1. chain'[b] = chain[b] /\ FileAhead(b, k)'
        BY <1>3, <2>1, <3>2, <3>4, NotTaken DEF FileAhead, BeforeFile
      <4> QED BY <3>3, <4>1
    <3>5. ASSUME NEW v \in Worker, v # w, BeforeFile(v, b, k) PROVE Pending(f)'
      <4>1. pc[v] # "idle" /\ Chain(v) = chain[b] /\ cb[v].bucket = b
        BY <3>5 DEF BeforeFile, Chain
      <4>2. pc'[v] = pc[v] /\ cb'[v] = cb[v] /\ Chain(v)' = Chain(v)
        BY <1>3, <3>5, <4>1, Elsewhere
      <4>3. chain'[b] = chain[b] /\ BeforeFile(v, b, k)'
        BY <3>5, <4>1, <4>2 DEF BeforeFile, Chain
      <4> QED BY <3>3, <4>3 DEF FileAhead
    <3>6. CASE BeforeFile(w, b, k)
      <4>1. /\ pc[w] # "idle" /\ cb[w].bucket = b /\ cb[w].i <= k /\ Chain(w) = chain[b]
            /\ cb[w].i \in Nat
        BY <3>6, Looks DEF BeforeFile, Chain
      <4>2. /\ Within(w) /\ cb'[w].bucket = b
            /\ \/ cb'[w].i = cb[w].i
               \/ /\ cb'[w].i = cb[w].i + 1
                  /\ \/ pc[w] = "outer" /\ First(w) \in matched
                     \/ pc[w] = "last" /\ WriteOutEffect(w)
        BY <1>3, <2>1, <3>1, <4>1, GoesOn DEF PairInv
      <4>3. chain' = chain /\ pc'[w] # "idle"
        BY <4>2 DEF Within
      <4>4. CASE cb'[w].i <= k
        BY <3>3, <4>2, <4>3, <4>4 DEF FileAhead, BeforeFile
      <4>5. CASE ~(cb'[w].i <= k)
        <5>1. k = cb[w].i /\ cb'[w].i = cb[w].i + 1
          BY <3>2, <4>1, <4>2, <4>5
        <5>2. f = First(w)
          BY <3>1, <4>1, <5>1 DEF First
        <5>3. WriteOutEffect(w) /\ pc[w] \in AtEntry
          BY <2>1, <4>1, <4>2, <5>1, <5>2 DEF AtEntry
        <5>4. First(w) \in Out(w)
          BY <5>3 DEF Out, GroupInv, GroupOf
        <5> QED BY <1>3, <2>1, <5>2, <5>3, <5>4, WorkerLists
      <4> QED BY <4>4, <4>5
    <3> QED BY <3>1, <3>4, <3>5, <3>6 DEF FileAhead
  <2> QED BY <1>3, <2>1, <2>2, <2>3 DEF ListedInv
<1> QED BY <1>1, <1>2, <1>3, Undisturbs

(* What is together stays together.                                        *)
LEMMA StaysTogether ==
  ASSUME ShapeInv, NEW w \in Worker, WorkerEffect(w), ~term, NEW f, NEW g, Together(f, g)
  PROVE  Together(f, g)'
<1>1. \A d \in ToSet(dupes) : d \in ToSet(dupes')
  <2>1. CASE UNCHANGED <<dupes, unique>>
    BY <2>1
  <2>2. CASE WriteOutEffect(w)
    <3>1. dupes \in Seq(Seq(Entry)) /\ cb[w].group \in Seq(Entry)
      BY Looks DEF ShapeInv, Types
    <3>2. ToSet(Append(dupes, cb[w].group)) = ToSet(dupes) \cup {cb[w].group}
      BY <3>1, AppendElements
    <3> QED BY <2>2, <3>2 DEF WriteOutEffect
  <2> QED BY <2>1, <2>2, WorkerLists
<1>2. CASE \E d \in ToSet(dupes) : {f, g} \subseteq ToSet(d)
  BY <1>1, <1>2 DEF Together
<1>3. ASSUME NEW v \in Worker, v # w, pc[v] \in AtEntry, {f, g} \subseteq ToSet(cb[v].group)
      PROVE  Together(f, g)'
  BY <1>3, Elsewhere DEF Together
<1>4. CASE pc[w] \in AtEntry /\ {f, g} \subseteq ToSet(cb[w].group)
  <2>a. cb[w].group \in Seq(Entry)
    BY Looks
  <2>b. cb[w].group # <<>>
    BY <1>4, EmptyList
  <2>1. CASE WriteOutEffect(w)
    <3>1. dupes' = Append(dupes, cb[w].group) /\ dupes \in Seq(Seq(Entry))
      BY <2>1, <2>b DEF WriteOutEffect, ShapeInv, Types
    <3>2. cb[w].group \in ToSet(dupes')
      BY <2>a, <3>1, AppendElements
    <3> QED BY <1>4, <3>2 DEF Together
  <2>2. CASE InnerEffect(w) \/ HashEffect(w)
    <3>1. pc'[w] \in AtEntry /\ cb'[w].group = cb[w].group
      BY <2>2 DEF InnerEffect, HashEffect, Now, AtEntry
    <3> QED BY <1>4, <3>1 DEF Together
  <2>3. CASE TestEffect(w)
    <3>1. /\ pc'[w] = "inner" /\ pc'[w] \in AtEntry /\ pc[w] \in AtPair
          /\ cb'[w].group \in {cb[w].group, Append(cb[w].group, Second(w))}
      BY <2>3, <2>b DEF TestEffect, Now, AtEntry, AtPair, Begun
    <3>2. Second(w) \in Entry
      BY <3>1, Looks
    <3>3. ToSet(Append(cb[w].group, Second(w))) = ToSet(cb[w].group) \cup {Second(w)}
      BY <2>a, <3>2, AppendElements
    <3>4. {f, g} \subseteq ToSet(cb'[w].group)
      BY <1>4, <3>1, <3>3
    <3> QED BY <3>1, <3>4 DEF Together
  <2>4. ~ClaimEffect(w) /\ ~OuterEffect(w) /\ ~LeaveEffect(w)
    BY <1>4 DEF ClaimEffect, OuterEffect, LeaveEffect, AtEntry
  <2> QED BY <2>1, <2>2, <2>3, <2>4 DEF WorkerEffect
<1> QED BY <1>2, <1>3, <1>4 DEF Together

(* The file that stands for a group is not marked before the group is      *)
(* written: only its own callback could mark it.                           *)
LEMMA TogetherStep ==
  ASSUME ShapeInv, PlacedInv, FindInv, PairInv, GroupInv, FreshInv, TogetherInv, DataNext
  PROVE  TogetherInv'
<1> SUFFICES ASSUME Undisturbed', NEW f, f \in matched'
             PROVE  \E g \in Entry \ matched' : Together(f, g)'
  BY DEF TogetherInv
<1>1. CASE /\ Undisturbed
           /\ UNCHANGED <<chain, key, digest, matched, claimed, pc, cb, dupes, unique>>
  <2>1. PICK g \in Entry \ matched : Together(f, g)
    BY <1>1 DEF TogetherInv
  <2>2. Together(f, g)'
    BY <1>1, <2>1 DEF Together
  <2> QED BY <1>1, <2>2
<1>2. CASE FindEndsEffect
  BY <1>2 DEF FindEndsEffect, FindInv
<1>3. ASSUME Undisturbed, phase = "compare", NEW w \in Worker, WorkerEffect(w)
      PROVE  \E g \in Entry \ matched' : Together(f, g)'
  <2>a. ~term /\ PairOf(w) /\ GroupOf(w)
    BY <1>3 DEF Undisturbed, PairInv, GroupInv
  <2>1. ASSUME NEW g \in Entry \ matched, Together(f, g) PROVE Together(f, g)'
    BY <1>3, <2>1, <2>a, StaysTogether
  <2>2. CASE matched' = matched
    BY <1>3, <2>1, <2>2 DEF TogetherInv
  <2>3. CASE TestEffect(w) /\ matched' = matched \cup {Second(w)} /\ matched' # matched
    <3>1. /\ pc[w] = "test" /\ pc[w] \in AtEntry /\ pc[w] \in AtPair /\ pc[w] # "idle"
          /\ pc'[w] \in AtEntry /\ cb'[w].group = Append(Begun(w), Second(w))
      BY <2>3 DEF TestEffect, Now, AtEntry, AtPair
    <3>2. /\ First(w) \in Entry /\ Second(w) \in Entry /\ First(w) # Second(w)
          /\ Second(w) \in ToSet(Chain(w))
          /\ First(w) \notin matched /\ Second(w) \notin matched
      BY <2>a, <3>1, Looks, TwoFiles DEF PairOf
    <3>3. CASE f \in matched
      <4>1. PICK g \in Entry \ matched : Together(f, g)
        BY <1>3, <3>3 DEF TogetherInv
      <4>2. g # Second(w)
        <5> SUFFICES ASSUME g = Second(w) PROVE FALSE
          OBVIOUS
        <5>1. ~Listed(Second(w))
          BY <2>a, <3>1, NotListed
        <5>2. PICK v \in Worker : pc[v] \in AtEntry /\ g \in ToSet(cb[v].group)
          BY <4>1, <5>1 DEF Together, Listed
        <5>3. g \in ToSet(Chain(v)) /\ (g = First(v) \/ g \in matched) /\ pc[v] # "idle"
          BY <5>2, Looks DEF GroupInv, GroupOf
        <5>4. v = w
          BY <3>1, <3>2, <5>3, OwnFiles
        <5> QED BY <3>2, <5>3, <5>4
      <4>3. g \notin matched' /\ Together(f, g)'
        BY <2>1, <2>3, <4>1, <4>2
      <4> QED BY <4>1, <4>3
    <3>4. CASE f = Second(w)
      <4>1. Begun(w) \in Seq(Entry) /\ First(w) \in ToSet(Begun(w))
        BY <1>3, <2>a, <3>1, BegunIs
      <4>2. ToSet(Append(Begun(w), Second(w))) = ToSet(Begun(w)) \cup {Second(w)}
        BY <3>2, <4>1, AppendElements
      <4> DEFINE g == First(w)
      <4>3. {f, g} \subseteq ToSet(cb'[w].group) /\ g \in Entry \ matched'
        BY <2>3, <3>1, <3>2, <3>4, <4>1, <4>2
      <4> HIDE DEF g
      <4>4. \E h \in Entry \ matched' : {f, h} \subseteq ToSet(cb'[w].group)
        BY <4>3
      <4> QED BY <3>1, <4>4 DEF Together
    <3> QED BY <2>3, <3>3, <3>4
  <2> QED BY <1>3, <2>2, <2>3, WorkerMarks
<1> QED BY <1>1, <1>2, <1>3, Undisturbs

(* One step of a callback with the pair k, m of its bucket before it:      *)
(* afterwards the pair is still before it, unless it has just been found   *)
(* different or one of the two has been marked.                            *)
LEMMA PairGoesOn ==
  ASSUME ShapeInv, NEW w \in Worker, PairOf(w), WorkerEffect(w), ~term, phase = "compare",
         NEW b \in 0..UIntMax, NEW k \in DOMAIN Chain(w), NEW m \in DOMAIN Chain(w),
         k < m, BeforePair(w, b, k, m),
         NEW f, NEW g, f = Chain(w)[k], g = Chain(w)[m],
         f \notin matched', g \notin matched', key[f] = key[g]
  PROVE  chain' = chain /\ (BeforePair(w, b, k, m)' \/ Differ(f, g)')
<1>1. /\ pc[w] # "idle" /\ cb[w].i \in Nat /\ cb[w].j \in Nat /\ Len(Chain(w)) \in Nat
      /\ k \in 1..Len(Chain(w)) /\ m \in 1..Len(Chain(w))
      /\ First(w) = Chain(w)[cb[w].i] /\ Second(w) = Chain(w)[cb[w].j]
      /\ cb[w].i <= k
  <2>1. pc[w] # "idle" /\ (cb[w].i < k \/ cb[w].i = k)
    BY DEF BeforePair
  <2>2. /\ cb[w].i \in Nat /\ cb[w].j \in Nat /\ Len(Chain(w)) \in Nat
        /\ DOMAIN Chain(w) = 1..Len(Chain(w))
    BY Looks
  <2> QED BY <2>1, <2>2 DEF First, Second
<1>2. /\ Within(w) /\ cb'[w].bucket = cb[w].bucket /\ cb[w].bucket = b
      /\ \/ cb'[w].i = cb[w].i
         \/ /\ cb'[w].i = cb[w].i + 1 /\ pc'[w] = "outer"
            /\ \/ pc[w] = "outer" /\ First(w) \in matched
               \/ pc[w] = "last" /\ WriteOutEffect(w)
  BY <1>1, GoesOn DEF BeforePair
<1>3. chain' = chain /\ pc'[w] # "idle" /\ key' = key
  BY <1>2 DEF Within
<1>4. matched \subseteq matched'
  BY WorkerMarks
<1>5. CASE cb[w].i < k
  <2>1. cb'[w].i < k \/ (cb'[w].i = k /\ pc'[w] \notin AtEntry)
    BY <1>1, <1>2, <1>5 DEF AtEntry
  <2> QED BY <1>2, <1>3, <2>1 DEF BeforePair
<1>6. CASE cb[w].i = k
  <2>1. First(w) = Chain(w)[k] /\ First(w) \notin matched
    BY <1>1, <1>4, <1>6
  <2>2. pc[w] \in AtEntry => cb[w].j <= m
    BY <1>1, <1>6 DEF BeforePair
  <2>3. pc[w] # "last"
    BY <1>1, <2>2 DEF PairOf, AtEntry
  <2>4. cb'[w].i = k
    BY <1>2, <1>6, <2>1, <2>3
  <2>5. ASSUME pc'[w] \in AtEntry => cb'[w].j <= m
        PROVE  BeforePair(w, b, k, m)'
    BY <1>2, <1>3, <2>4, <2>5 DEF BeforePair
  <2>6. CASE OuterEffect(w)
    <3>1. pc'[w] \in AtEntry => cb'[w].j = cb[w].i + 1
      BY <2>6 DEF OuterEffect, Now, AtEntry
    <3>2. pc'[w] \in AtEntry => cb'[w].j <= m
      BY <1>1, <1>6, <3>1
    <3> QED BY <1>3, <2>5, <3>2
  <2>7. CASE InnerEffect(w)
    <3>1. cb[w].j <= m /\ cb[w].j <= Len(Chain(w))
      BY <1>1, <2>2, <2>7 DEF InnerEffect, AtEntry
    <3>2. CASE cb'[w].j = cb[w].j
      BY <1>3, <2>5, <3>1, <3>2
    <3>3. CASE /\ Second(w) \in matched \/ key[First(w)] # key[Second(w)]
               /\ cb'[w].j = cb[w].j + 1
      <4>1. cb[w].j # m
        BY <1>1, <1>4, <2>1, <3>3
      <4>2. cb'[w].j <= m
        BY <1>1, <3>1, <3>3, <4>1
      <4> QED BY <1>3, <2>5, <4>2
    <3>4. ~(cb[w].j > Len(Chain(w)))
      BY <1>1, <3>1
    <3> QED BY <2>7, <3>2, <3>3, <3>4 DEF InnerEffect, Now
  <2>8. CASE HashEffect(w)
    <3>1. cb[w].j <= m /\ cb'[w].j = cb[w].j
      BY <2>2, <2>8 DEF HashEffect, Now, AtEntry
    <3> QED BY <1>3, <2>5, <3>1
  <2>9. CASE TestEffect(w)
    <3>1. /\ pc[w] \in AtEntry /\ pc[w] = "test" /\ cb'[w].j = cb[w].j + 1 /\ cb[w].j <= m
          /\ digest' = digest
      BY <2>2, <2>9 DEF TestEffect, Now, AtEntry
    <3>2. CASE cb[w].j # m
      <4>1. cb'[w].j <= m
        BY <1>1, <3>1, <3>2
      <4> QED BY <1>3, <2>5, <4>1
    <3>3. CASE cb[w].j = m
      <4>1. Second(w) = Chain(w)[m] /\ Second(w) \notin matched'
        BY <1>1, <3>3
      <4>2. digest[First(w)] # digest[Second(w)]
        BY <2>9, <4>1 DEF TestEffect
      <4>3. digest[First(w)] # Zero /\ digest[Second(w)] # Zero
        BY <3>1 DEF PairOf
      <4> QED BY <1>3, <2>1, <3>1, <4>1, <4>2, <4>3 DEF Differ
    <3> QED BY <3>2, <3>3
  <2>10. ~ClaimEffect(w) /\ ~LeaveEffect(w) /\ ~WriteOutEffect(w)
    BY <1>2, <2>3 DEF ClaimEffect, LeaveEffect, WriteOutEffect, Within
  <2> QED BY <2>6, <2>7, <2>8, <2>9, <2>10 DEF WorkerEffect
<1> QED BY <1>5, <1>6 DEF BeforePair

(* A pair is passed by comparing it, by skipping one that is marked, or    *)
(* because the keys differ.                                                *)
LEMMA ComparedStep ==
  ASSUME ShapeInv, PlacedInv, FindInv, PairInv, ComparedInv, DataNext
  PROVE  ComparedInv'
<1> SUFFICES ASSUME Undisturbed', NEW f \in Entry, NEW g \in Entry, f # g,
                    f \notin matched', g \notin matched', key'[f] # 0, key'[f] = key'[g]
             PROVE  Differ(f, g)' \/ PairPending(f, g)'
  BY DEF ComparedInv
<1>1. CASE /\ Undisturbed
           /\ UNCHANGED <<chain, key, digest, matched, claimed, pc, cb, dupes, unique>>
  <2>1. Differ(f, g) \/ PairPending(f, g)
    BY <1>1 DEF ComparedInv
  <2> QED BY <1>1, <2>1 DEF Differ, PairPending, PairAhead, BeforePair
<1>2. CASE FindEndsEffect
  <2>1. UNCHANGED <<key, chain, claimed, count>> /\ claimed = 0 /\ phase = "find"
    BY <1>2 DEF FindEndsEffect, ShapeInv, Types
  <2> DEFINE b == Index(key[f])
  <2>2. f \in ToSet(chain[b]) /\ g \in ToSet(chain[b])
    BY <2>1 DEF FindInv
  <2>3. b \in 0..UIntMax /\ b >= 0
    <3>1. /\ count \in 1..UIntMax /\ key[f] \in Nat /\ UIntMax \in Nat
      BY <2>1, OptionsAssumption DEF ShapeInv, TableInv, BInv, Typed, Types
    <3>2. b \in 0..(count - 1)
      BY <3>1, IndexBelow
    <3> QED BY <3>1, <3>2
  <2> HIDE DEF b
  <2>4. PICK k \in DOMAIN chain[b] : chain[b][k] = f
    BY <2>2 DEF ToSet
  <2>5. PICK m \in DOMAIN chain[b] : chain[b][m] = g
    BY <2>2 DEF ToSet
  <2>6. k \in Nat /\ m \in Nat /\ k # m
    <3>1. chain[b] \in Seq(Entry)
      BY <2>3 DEF ShapeInv, BInv, Typed
    <3> QED BY <2>4, <2>5, <3>1
  <2>7. CASE k < m
    <3>1. /\ k \in DOMAIN chain'[b] /\ m \in DOMAIN chain'[b] /\ k < m
          /\ {chain'[b][k], chain'[b][m]} = {f, g} /\ b >= claimed'
      BY <2>1, <2>3, <2>4, <2>5, <2>7
    <3> QED BY <2>3, <3>1 DEF PairPending, PairAhead
  <2>8. CASE m < k
    <3>1. /\ k \in DOMAIN chain'[b] /\ m \in DOMAIN chain'[b] /\ m < k
          /\ {chain'[b][m], chain'[b][k]} = {f, g} /\ b >= claimed'
      BY <2>1, <2>3, <2>4, <2>5, <2>8
    <3> QED BY <2>3, <3>1 DEF PairPending, PairAhead
  <2> QED BY <2>6, <2>7, <2>8
<1>3. ASSUME Undisturbed, phase = "compare", NEW w \in Worker, WorkerEffect(w)
      PROVE  Differ(f, g)' \/ PairPending(f, g)'
  <2>1. f \notin matched /\ g \notin matched /\ key[f] # 0 /\ key[f] = key[g] /\ ~term
    BY <1>3, WorkerMarks, WorkerKeeps DEF Undisturbed
  <2>2. CASE Differ(f, g)
    BY <1>3, <2>2, StaysAlike DEF Differ
  <2>3. CASE PairPending(f, g)
    <3>a. PICK b \in 0..UIntMax :
            \E k, m \in DOMAIN chain[b] :
              k < m /\ {chain[b][k], chain[b][m]} = {f, g} /\ PairAhead(b, k, m)
      BY <2>3 DEF PairPending
    <3>1. PICK k \in DOMAIN chain[b], m \in DOMAIN chain[b] :
            k < m /\ {chain[b][k], chain[b][m]} = {f, g} /\ PairAhead(b, k, m)
      BY <3>a
    <3>2. k \in Nat /\ k >= 1
      <4>1. chain[b] \in Seq(Entry)
        BY DEF ShapeInv, BInv, Typed
      <4> QED BY <4>1
    <3>3. ASSUME chain'[b] = chain[b], PairAhead(b, k, m)' PROVE PairPending(f, g)'
      BY <3>1, <3>3 DEF PairPending
    <3>4. CASE b >= claimed
      <4>1. /\ chain'[b] = chain[b]
            /\ \/ b >= claimed'
               \/ pc'[w] = "outer" /\ cb'[w].bucket = b /\ cb'[w].i = 1
        BY <1>3, <2>1, <3>4, NotTaken
      <4>2. PairAhead(b, k, m)'
        BY <3>2, <4>1 DEF PairAhead, BeforePair, AtEntry
      <4> QED BY <3>3, <4>1, <4>2
    <3>5. ASSUME NEW v \in Worker, v # w, BeforePair(v, b, k, m)
          PROVE  PairPending(f, g)'
      <4>1. pc[v] # "idle" /\ Chain(v) = chain[b] /\ cb[v].bucket = b
        BY <3>5 DEF BeforePair, Chain
      <4>2. pc'[v] = pc[v] /\ cb'[v] = cb[v] /\ Chain(v)' = Chain(v)
        BY <1>3, <3>5, <4>1, Elsewhere
      <4>3. chain'[b] = chain[b] /\ BeforePair(v, b, k, m)'
        BY <3>5, <4>1, <4>2 DEF BeforePair, Chain
      <4> QED BY <3>3, <4>3 DEF PairAhead
    <3>6. CASE BeforePair(w, b, k, m)
      <4>1. cb[w].bucket = b /\ Chain(w) = chain[b] /\ PairOf(w)
        BY <3>6 DEF BeforePair, Chain, PairInv
      <4>2. chain[b][k] \in {f, g} /\ chain[b][m] \in {f, g} /\ chain[b][k] # chain[b][m]
        BY <3>1
      <4>3. CASE chain[b][k] = f /\ chain[b][m] = g
        <5>1. chain' = chain /\ (BeforePair(w, b, k, m)' \/ Differ(f, g)')
          BY <1>3, <2>1, <3>1, <3>6, <4>1, <4>3, PairGoesOn
        <5> QED BY <3>3, <5>1 DEF PairAhead
      <4>4. CASE chain[b][k] = g /\ chain[b][m] = f
        <5>1. chain' = chain /\ (BeforePair(w, b, k, m)' \/ Differ(g, f)')
          BY <1>3, <2>1, <3>1, <3>6, <4>1, <4>4, PairGoesOn
        <5> QED BY <3>3, <5>1 DEF PairAhead, Differ
      <4> QED BY <4>2, <4>3, <4>4
    <3> QED BY <3>1, <3>4, <3>5, <3>6 DEF PairAhead
  <2> QED BY <1>3, <2>1, <2>2, <2>3 DEF ComparedInv
<1> QED BY <1>1, <1>2, <1>3, Undisturbs

-----------------------------------------------------------------------------
(* All of it together. *)

(* The inductive invariant of the lists.                                   *)
DataInv ==
  /\ ShapeInv /\ PlacedInv /\ FindInv /\ FilesInv /\ StableInv
  /\ PairInv /\ GroupInv /\ FreshInv /\ WrittenInv
  /\ ListedInv /\ TogetherInv /\ ComparedInv /\ DoneInv

(* The invariant at the beginning.                                         *)
LEMMA InitData == Init => DataInv
<1> SUFFICES ASSUME Init PROVE DataInv
  OBVIOUS
<1>1. ShapeInv
  BY InitShape
<1>2. /\ phase = "parse" /\ key = [f \in Entry |-> 0] /\ digest = [f \in Entry |-> Zero]
      /\ matched = {} /\ changed = {} /\ disk \in Disks
      /\ chain = [b \in 0..UIntMax |-> <<>>]
      /\ extras = <<>> /\ files = <<>> /\ empty = <<>> /\ dupes = <<>> /\ unique = <<>>
      /\ pc = [w \in Worker |-> "idle"]
  BY DEF Init
<1>3. \A f : ~Listed(f)
  BY <1>2, EmptyList DEF Listed
<1>4. PlacedInv
  BY <1>2, EmptyList DEF PlacedInv
<1>5. FindInv /\ FilesInv
  BY <1>2 DEF FindInv, FilesInv
<1>6. StableInv
  <2>1. \A f \in Entry : disk[f] # Gone
    BY <1>2, BucketsAssumption
  <2>2. Seen = {}
    BY <1>2, EmptyList DEF Seen
  <2> QED BY <1>2, <2>1, <2>2 DEF StableInv
<1>7. PairInv /\ GroupInv
  BY <1>2 DEF PairInv, PairOf, GroupInv, GroupOf, AtEntry, AtPair
<1>8. FreshInv
  BY <1>3 DEF FreshInv
<1>9. WrittenInv
  <2>1. DOMAIN dupes = {}
    BY <1>2
  <2> QED BY <1>2, <1>3, <2>1, EmptyList DEF WrittenInv
<1>10. ListedInv /\ TogetherInv /\ ComparedInv /\ DoneInv
  BY <1>2 DEF ListedInv, TogetherInv, ComparedInv, DoneInv, Undisturbed
<1> QED BY <1>1, <1>4, <1>5, <1>6, <1>7, <1>8, <1>9, <1>10 DEF DataInv

(* Every step keeps it.                                                    *)
LEMMA DataInductive == DataInv /\ [Next]_vars => DataInv'
<1> SUFFICES ASSUME DataInv, [Next]_vars PROVE DataInv'
  OBVIOUS
<1>a. /\ ShapeInv /\ PlacedInv /\ FindInv /\ FilesInv /\ StableInv
      /\ PairInv /\ GroupInv /\ FreshInv /\ WrittenInv
      /\ ListedInv /\ TogetherInv /\ ComparedInv /\ DoneInv
  BY DEF DataInv
<1>1. ShapeInv'
  BY <1>a, ShapeStep
<1>2. DataNext
  BY <1>a, DataView
<1>3. PlacedInv'
  BY <1>a, <1>2, PlacedStep
<1>4. FindInv'
  BY <1>a, <1>2, FindStep
<1>5. FilesInv'
  BY <1>a, <1>2, FilesStep
<1>6. StableInv'
  BY <1>a, <1>2, StableStep
<1>7. PairInv'
  BY <1>a, <1>2, PairStep
<1>8. GroupInv'
  BY <1>a, <1>2, GroupStep
<1>9. FreshInv'
  BY <1>a, <1>2, FreshStep
<1>10. WrittenInv'
  BY <1>a, <1>2, WrittenStep
<1>11. ListedInv'
  BY <1>a, <1>2, ListedStep
<1>12. TogetherInv'
  BY <1>a, <1>2, TogetherStep
<1>13. ComparedInv'
  BY <1>a, <1>2, ComparedStep
<1>14. DoneInv'
  BY <1>a, <1>2, DoneStep
<1> QED BY <1>1, <1>3, <1>4, <1>5, <1>6, <1>7, <1>8, <1>9, <1>10, <1>11, <1>12, <1>13,
           <1>14 DEF DataInv

(* It holds at all times.                                                  *)
LEMMA DataHolds == Spec => []DataInv
<1> QED BY InitData, DataInductive, PTL DEF Spec

(* At the end of a complete run nothing is before a callback.              *)
LEMMA NothingAhead ==
  ASSUME DataInv, phase = "done"
  PROVE  /\ Undisturbed
         /\ \A f : ~Pending(f)
         /\ \A f, g : ~PairPending(f, g)
         /\ \A f, g : Together(f, g) => Grouped(f, g)
<1>1. ~term /\ claimed = count /\ \A w \in Worker : pc[w] = "idle"
  BY DEF DataInv, DoneInv
<1>2. count \in Nat /\ UIntMax \in Nat
  BY OptionsAssumption DEF DataInv, ShapeInv, BInv, Typed
<1>3. \A b \in 0..UIntMax : \A k \in DOMAIN chain[b] : ~(b >= claimed)
  <2>1. \A b \in 0..UIntMax : chain[b] # <<>> => b < count
    BY DEF DataInv, ShapeInv, TableInv, IndexInRange
  <2> QED BY <1>1, <1>2, <2>1
<1>4. Undisturbed
  BY <1>1 DEF Undisturbed
<1>5. \A f : ~Pending(f)
  BY <1>1, <1>3 DEF Pending, FileAhead, BeforeFile
<1>6. \A f, g : ~PairPending(f, g)
  BY <1>1, <1>3 DEF PairPending, PairAhead, BeforePair
<1>7. \A f, g : Together(f, g) => Grouped(f, g)
  BY <1>1 DEF Together, Grouped, AtEntry
<1> QED BY <1>4, <1>5, <1>6, <1>7

(* After a complete run each file with a size is written.                  *)
LEMMA AllListed ==
  ASSUME DataInv, phase = "done", NEW f \in Entry, key[f] # 0
  PROVE  Listed(f)
<1>1. CASE f \notin matched
  BY <1>1, NothingAhead DEF DataInv, ListedInv
<1>2. CASE f \in matched
  <2>1. PICK g \in Entry \ matched : Together(f, g)
    BY <1>2, NothingAhead DEF DataInv, TogetherInv
  <2>2. Grouped(f, g)
    BY <2>1, NothingAhead
  <2> QED BY <2>2 DEF Grouped, Listed
<1> QED BY <1>1, <1>2

(* A list that names no entry twice names no file twice, unless sources    *)
(* overlap.                                                                *)
LEMMA FilesApart ==
  ASSUME target \in [Entry -> File], NoOverlap,
         NEW list \in Seq(Entry), IsInjective(list)
  PROVE  IsInjective([n \in DOMAIN list |-> target[list[n]]])
<1> DEFINE reached == [n \in DOMAIN list |-> target[list[n]]]
<1> SUFFICES ASSUME NEW m \in DOMAIN list, NEW n \in DOMAIN list,
                    reached[m] = reached[n]
             PROVE  m = n
  BY DEF IsInjective
<1>1. list[m] \in Entry /\ list[n] \in Entry
  OBVIOUS
<1>2. target[list[m]] = target[list[n]]
  OBVIOUS
<1>3. list[m] = list[n]
  BY <1>1, <1>2 DEF NoOverlap, IsInjective
<1> QED BY <1>3 DEF IsInjective

(* The three lists name no entry twice, and after a complete run all.      *)
LEMMA Naming == ASSUME DataInv, target \in [Entry -> File] PROVE NamedOnce
<1> DEFINE rest == FlattenSeq(dupes)
<1>1. /\ extras \in Seq(Entry) /\ empty \in Seq(Entry) /\ unique \in Seq(Entry)
      /\ dupes \in Seq(Seq(Entry)) /\ DOMAIN dupes = 1..Len(dupes)
  BY DEF DataInv, ShapeInv, Types
<1>2. rest \in Seq(Entry)
  BY <1>1, FlattenType
<1>3. \A f : f \in ToSet(rest) <=> \E p \in 1..Len(dupes) : f \in ToSet(dupes[p])
  BY <1>1, FlattenElements
<1>4. IsInjective(rest)
  <2>1. /\ \A p \in 1..Len(dupes) : IsInjective(dupes[p])
        /\ \A p, q \in 1..Len(dupes) : p # q => ToSet(dupes[p]) \cap ToSet(dupes[q]) = {}
    BY <1>1 DEF DataInv, WrittenInv
  <2>2. IsInjective(FlattenSeq(dupes))
    BY <1>1, <2>1, FlattenElements
  <2> QED BY <2>2
<1>5. \A f : f \in ToSet(rest) <=> \E d \in ToSet(dupes) : f \in ToSet(d)
  <2> HIDE DEF rest
  <2>1. ToSet(dupes) = {dupes[p] : p \in 1..Len(dupes)}
    BY <1>1 DEF ToSet
  <2> QED BY <1>3, <2>1
<1> HIDE DEF rest
<1>6. \A f : Listed(f) <=> f \in ToSet(unique) \/ f \in ToSet(rest)
  BY <1>5 DEF Listed
<1>7. /\ IsInjective(empty) /\ \A f \in ToSet(empty) : key[f] = 0
  BY EmptyList DEF DataInv, FilesInv, PlacedInv
<1>8. \A f : Listed(f) => f \in Entry /\ key[f] # 0
  <2>1. ToSet(unique) \subseteq Entry /\ ToSet(rest) \subseteq Entry
    BY <1>1, <1>2, InFiles
  <2> QED BY <1>6, <2>1 DEF DataInv, WrittenInv
<1>9. /\ ToSet(empty) \cap ToSet(unique) = {}
      /\ ToSet(empty) \cap ToSet(rest) = {}
  BY <1>6, <1>7, <1>8
<1>10. ToSet(unique) \cap ToSet(rest) = {}
  BY <1>1, <1>3 DEF DataInv, WrittenInv, rest
<1>11. /\ empty \o unique \in Seq(Entry) /\ IsInjective(empty \o unique)
       /\ ToSet(empty \o unique) = ToSet(empty) \cup ToSet(unique)
  BY <1>1, <1>7, <1>9, ConcatElements DEF DataInv, WrittenInv
<1>12. /\ IsInjective((empty \o unique) \o rest)
       /\ ToSet((empty \o unique) \o rest) = ToSet(empty) \cup ToSet(unique) \cup ToSet(rest)
  <2> DEFINE front == empty \o unique
  <2>1. /\ front \in Seq(Entry) /\ IsInjective(front)
        /\ ToSet(front) = ToSet(empty) \cup ToSet(unique)
        /\ ToSet(front) \cap ToSet(rest) = {}
    BY <1>9, <1>10, <1>11
  <2> HIDE DEF front
  <2>2. IsInjective(front \o rest) /\ ToSet(front \o rest) = ToSet(front) \cup ToSet(rest)
    BY <1>2, <1>4, <2>1, ConcatElements
  <2> QED BY <2>1, <2>2 DEF front
<1>13. ASSUME phase = "done"
       PROVE  /\ ToSet((empty \o unique) \o rest) = Seen
              /\ opts.fileList => IsInjective(files) /\ ToSet(files) = Seen
  <2>1. /\ empty = extras
        /\ opts.fileList => IsInjective(files) /\ ToSet(files) = Seen
    BY <1>13 DEF DataInv, FilesInv
  <2>2. \A f \in Entry : key[f] # 0 => Listed(f)
    BY <1>13, AllListed
  <2>3. {f \in Entry : key[f] # 0} = ToSet(unique) \cup ToSet(rest)
    BY <1>6, <1>8, <2>2
  <2> QED BY <1>12, <2>1, <2>3 DEF Seen
<1>14. (empty \o unique) \o rest \in Seq(Entry) /\ files \in Seq(Entry)
  BY <1>2, <1>11 DEF DataInv, ShapeInv, Types
<1>15. NoOverlap =>
         /\ IsInjective([n \in DOMAIN ((empty \o unique) \o rest) |->
                           target[((empty \o unique) \o rest)[n]]])
         /\ IsInjective(files) => IsInjective([n \in DOMAIN files |-> target[files[n]]])
  BY <1>12, <1>14, FilesApart
<1> QED BY <1>12, <1>13, <1>15 DEF NamedOnce, rest

(* No entry is named twice in empty.lst, unique.lst and dupes.lst together *)
(* and after a complete run every entry found is named, in files.lst too   *)
(* (list-file.c:29, compare.c:191-226); so no file is named twice unless   *)
(* it is reached twice (find.c:125).                                       *)
THEOREM EachNamedOnce == Spec => []NamedOnce
<1>1. DataInv /\ target \in [Entry -> File] => NamedOnce
  BY Naming
<1> QED BY <1>1, DataHolds, TargetTyped, PTL

(* A group is of files alike, and no two groups meet.                      *)
LEMMA GroupsAlike ==
  ASSUME DataInv
  PROVE  /\ \A f, g : Grouped(f, g) => Alike(f, g)
         /\ \A f, g, r : Grouped(f, r) /\ Grouped(g, r) => Grouped(f, g)
<1>1. dupes \in Seq(Seq(Entry)) /\ WrittenInv
  BY DEF DataInv, ShapeInv, Types
<1>2. \A d \in ToSet(dupes) : \E p \in DOMAIN dupes : d = dupes[p]
  BY <1>1 DEF ToSet
<1>3. \A d \in ToSet(dupes) : \A f, g \in ToSet(d) : Alike(f, g)
  BY <1>1, <1>2 DEF WrittenInv
<1>4. \A d, e \in ToSet(dupes) : d = e \/ ToSet(d) \cap ToSet(e) = {}
  BY <1>1, <1>2 DEF WrittenInv
<1>5. ASSUME NEW f, NEW g, NEW r, Grouped(f, r), Grouped(g, r) PROVE Grouped(f, g)
  <2>1. PICK d \in ToSet(dupes) : {f, r} \subseteq ToSet(d)
    BY <1>5 DEF Grouped
  <2>2. PICK e \in ToSet(dupes) : {g, r} \subseteq ToSet(e)
    BY <1>5 DEF Grouped
  <2>3. d = e
    BY <1>4, <2>1, <2>2
  <2> QED BY <2>1, <2>2, <2>3 DEF Grouped
<1> QED BY <1>3, <1>5 DEF Grouped

(* After a complete run each file with a size is with the one file of its  *)
(* group that is not marked, or is that file itself.                       *)
LEMMA Represented ==
  ASSUME DataInv, phase = "done", NEW f \in Entry, key[f] # 0
  PROVE  \E r \in Entry \ matched :
           /\ key[r] = key[f] /\ digest[r] = digest[f]
           /\ r = f \/ Grouped(f, r)
<1>1. CASE f \notin matched
  BY <1>1
<1>2. CASE f \in matched
  <2>1. PICK r \in Entry \ matched : Together(f, r)
    BY <1>2, NothingAhead DEF DataInv, TogetherInv
  <2>2. Grouped(f, r)
    BY <2>1, NothingAhead
  <2>3. Alike(f, r)
    BY <2>2, GroupsAlike
  <2> QED BY <2>1, <2>2, <2>3 DEF Alike
<1> QED BY <1>1, <1>2

(* Files nobody touches are grouped by what they hold.                     *)
LEMMA Grouping == ASSUME DataInv PROVE StableGrouped
<1> SUFFICES ASSUME NEW f \in Seen \ changed, NEW g \in Seen \ changed, f # g,
                    disk[f].size # 0
             PROVE  /\ Grouped(f, g) => disk[f] = disk[g]
                    /\ phase = "done" /\ disk[f] = disk[g] => Grouped(f, g)
  BY DEF StableGrouped
<1>1. f \in Entry /\ g \in Entry
  <2>1. extras \in Seq(Entry)
    BY DEF DataInv, ShapeInv, Types
  <2> QED BY <2>1, InFiles DEF Seen
<1>2. /\ key[f] = disk[f].size /\ key[g] = disk[g].size
      /\ digest[f] # Zero => digest[f] = disk[f].digest
      /\ digest[g] # Zero => digest[g] = disk[g].digest
      /\ disk[f] \in Data /\ disk[g] \in Data
  BY <1>1 DEF DataInv, StableInv, ShapeInv, Types
<1>3. ASSUME Grouped(f, g) PROVE disk[f] = disk[g]
  <2>1. Alike(f, g)
    BY <1>3, GroupsAlike
  <2>2. disk[f].size = disk[g].size /\ disk[f].digest = disk[g].digest
    BY <1>2, <2>1 DEF Alike
  <2>3. /\ disk[f] = [size |-> disk[f].size, digest |-> disk[f].digest]
        /\ disk[g] = [size |-> disk[g].size, digest |-> disk[g].digest]
    BY <1>2, BucketsAssumption
  <2> QED BY <2>2, <2>3
<1>4. ASSUME phase = "done", disk[f] = disk[g] PROVE Grouped(f, g)
  <2>1. PICK r \in Entry \ matched :
          /\ key[r] = key[f] /\ digest[r] = digest[f]
          /\ r = f \/ Grouped(f, r)
    BY <1>1, <1>2, <1>4, Represented
  <2>2. PICK s \in Entry \ matched :
          /\ key[s] = key[g] /\ digest[s] = digest[g]
          /\ s = g \/ Grouped(g, s)
    BY <1>1, <1>2, <1>4, Represented
  <2>3. r = s
    <3>1. ~Differ(r, s)
      BY <1>2, <1>4, <2>1, <2>2 DEF Differ
    <3>2. key[r] # 0 /\ key[r] = key[s]
      BY <1>2, <1>4, <2>1, <2>2
    <3> QED BY <1>4, <3>1, <3>2, NothingAhead DEF DataInv, ComparedInv
  <2>4. \A h : Grouped(f, h) => Grouped(h, f)
    BY DEF Grouped
  <2> QED BY <2>1, <2>2, <2>3, <2>4, GroupsAlike DEF Grouped
<1> QED BY <1>3, <1>4

(* Files that do not change are grouped by what they hold: with no         *)
(* stranger at any time, and with every equal once the run is complete     *)
(* (compare.c:146-164).                                                    *)
THEOREM GroupedByContent == Spec => []StableGrouped
<1>1. DataInv => StableGrouped
  BY Grouping
<1> QED BY <1>1, DataHolds, PTL

===============================================================================
