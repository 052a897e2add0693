-------------------------------- MODULE Options --------------------------------
(***************************************************************************)
(* The command line of find-dupes: what opts_parse makes of the arguments, *)
(* and the tests main makes before it allocates anything.  An argument is  *)
(* a record of the option's letter and of what was typed after it; after   *)
(* -j and -b that is a number of any size or a text that is none.          *)
(***************************************************************************)
EXTENDS Naturals, Sequences, SequencesExt

CONSTANTS
  UIntMax,       \* UINT_MAX
  ULongMax,      \* ULONG_MAX
  Processors     \* the number of processors online, or 1 if it is not known

ASSUME OptionsAssumption ==
  /\ UIntMax \in Nat /\ ULongMax \in Nat /\ UIntMax < ULongMax
  /\ Processors \in 1..UIntMax

(* What can be typed: after -j and -b any text, with the number it is. *)
Typable(args) ==
  /\ args \in Seq(ToSet(args))
  /\ \A k \in DOMAIN args :
       args[k].flag \in {"j", "b"} => args[k].typed \in [digits : BOOLEAN, value : Nat]

(* strtoul stops at the largest value it can return. *)
Strtoul(n) == IF n < ULongMax THEN n ELSE ULongMax

ToUnsigned(typed) ==
  LET u == Strtoul(typed.value)
  IN  IF ~typed.digits \/ u = ULongMax THEN 0
      ELSE IF u > UIntMax THEN UIntMax ELSE u

OptsInit ==
  [jobs |-> Processors, buckets |-> 1, dir |-> "makeable", fileList |-> FALSE,
   help |-> FALSE, version |-> FALSE, refused |-> FALSE]

(* One turn of the getopt_long loop; a refused argument ends the loop, and *)
(* so does an option getopt_long does not know, which exits.               *)
OptsApply(opts, arg) ==
  IF opts.refused THEN opts
  ELSE CASE arg.flag = "o" -> [opts EXCEPT !.dir = arg.typed]
         [] arg.flag = "f" -> [opts EXCEPT !.fileList = TRUE]
         [] arg.flag = "j" -> [opts EXCEPT !.jobs = ToUnsigned(arg.typed),
                                           !.refused = ToUnsigned(arg.typed) = UIntMax]
         [] arg.flag = "b" -> [opts EXCEPT !.buckets = ToUnsigned(arg.typed),
                                           !.refused = ToUnsigned(arg.typed) = UIntMax]
         [] arg.flag = "h" -> [opts EXCEPT !.help = TRUE]
         [] arg.flag = "V" -> [opts EXCEPT !.version = TRUE]
         [] arg.flag \in {"v", "g"} -> opts
         [] OTHER -> [opts EXCEPT !.refused = TRUE]

OptsParse(args) == FoldLeft(OptsApply, OptsInit, args)

(* --help and --version end the program with success, unless parsing was   *)
(* refused before.                                                         *)
Informs(opts) == ~opts.refused /\ (opts.help \/ opts.version)

(* The output directory has no name, or is not there and cannot be made;   *)
(* there is no source, or one that cannot be read.                         *)
Unusable(opts, readable) ==
  opts.dir \in {"", "blocked"} \/ readable = <<>> \/ FALSE \in ToSet(readable)

Starts(opts, readable) ==
  ~opts.refused /\ ~Informs(opts) /\ ~Unusable(opts, readable)

===============================================================================
