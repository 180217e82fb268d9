---------------------------- MODULE StartupProofs ----------------------------
(***************************************************************************)
(* A generated program from its command line to the placement of its       *)
(* threads, for any test, number of threads and instances, machine and     *)
(* command line: "Failure: overflow" has a reason; the classes of close    *)
(* threads are a partition, far threads are never in one class, and mode   *)
(* custom gives each processor to one thread and gives up only when it has *)
(* no processor left; modes incr and random give the processors loads that *)
(* differ by one at most.                                                  *)
(***************************************************************************)
EXTENDS Startup, SequenceTheorems, FiniteSetTheorems, WellFoundedInduction, TLAPS

-----------------------------------------------------------------------------
\* Every non-empty set of naturals has a least element.
LEMMA LeastNat ==
  ASSUME NEW T \in SUBSET Nat, T # {}
  PROVE  \E m \in T : \A l \in T : m <= l
<1> DEFINE R == OpToRel(<, Nat)
<1>1. IsWellFoundedOn(R, Nat)
  BY NatLessThanWellFounded
<1>2. R = {ss \in Nat \X Nat : ss[1] < ss[2]}
  BY DEF R, OpToRel
<1>3. \A l, m \in Nat : <<l, m>> \in R <=> l < m
  BY <1>2
<1> HIDE DEF R
<1> PICK m \in T : \A l \in T : ~(<<l, m>> \in R)
  BY <1>1, WFMin
<1>4. \A l \in T : l \in Nat /\ ~(l < m) /\ m \in Nat
  BY <1>3
<1>5. \A l \in T : m <= l
  BY <1>4
<1> QED
  BY <1>5

-----------------------------------------------------------------------------
(***************************************************************************)
(* The command line.  A number that cannot be converted leaves errno set:  *)
(* it is behind every "Failure: overflow", in the option being read or in  *)
(* one that was accepted before it.                                        *)
(***************************************************************************)
Words == UNION {Range(j.argv) : j \in Jobs}

\* The option multiplies a null or negative number.
NotPositive(w) == \E n \in NumbersOf(w) : n.suf # "" /\ ~(n.v > 0)

CmdTypeOK ==
  /\ argv \in Seq(Words) /\ done \in Seq(Words)
  /\ errno \in BOOLEAN

\* parse_param does not look at errno, and nothing is read after it that would.
ErrnoInv ==
  errno => \/ \E w \in Range(done) : Blamed(w)
           \/ def.presi /\ \E w \in Range(done) : w.o = "word"

FatalInv ==
  outcome = "fatal" =>
    argv # <<>> /\ (NotPositive(Word) \/ \E w \in Range(Append(done, Word)) : Blamed(w))

CmdInv == CmdTypeOK /\ ErrnoInv /\ FatalInv

LEMMA WordsAreWords == \A w \in Words : IsWord(w)
  BY JobsAssumption DEF Words

\* What an option has for numbers.
LEMMA NumbersOfOption ==
  ASSUME NEW w
  PROVE  /\ w.o \in DOMAIN Number \cup {"-ta"} => NumbersOf(w) = {w.a}
         /\ w.o = "-tb" => NumbersOf(w) = UNION {{e.w, [v |-> e.idx, suf |-> "", junk |-> FALSE]} : e \in Range(w.a)}
         /\ w.o = "-p"  => NumbersOf(w) = {[v |-> n, suf |-> "", junk |-> FALSE] : n \in Range(w.a.ns)}
         /\ w.o = "-prf" => NumbersOf(w) = {[v |-> e.proc, suf |-> "", junk |-> FALSE] : e \in Range(w.a.l)}
<1>1. DOMAIN Number = {"-r", "-s", "-st", "-n", "-a", "-k", "-i", "-l", "-prs"}
  BY DEF Number
<1> HIDE DEF Number
<1>2. {"-tb", "-p", "-prf"} \cap (DOMAIN Number \cup {"-ta"}) = {}
  BY <1>1
<1> QED
  BY <1>2 DEF NumbersOf

LEMMA SuffixIsPower ==
  /\ DOMAIN Power = {"", "k", "m"}
  /\ 10 ^ Power[""] = 1 /\ 10 ^ Power["k"] = 10 /\ 10 ^ Power["m"] = 100
<1>1. Power[""] = 0 /\ Power["k"] = 1 /\ Power["m"] = 2 /\ DOMAIN Power = {"", "k", "m"}
  BY DEF Power
<1>2. 10 ^ 0 = 1 /\ 10 ^ 1 = 10 /\ 10 ^ 2 = 100
  OBVIOUS
<1> QED
  BY <1>1, <1>2

LEMMA Scaled ==
  ASSUME NEW v \in Int, NEW x, x = v * 10 \/ x = v * 100,
         v > LongMax \/ v < -LongMax - 1 \/ v < 0 \/ v = 0 \/ x > LongMax \/ x >= IntMax
  PROVE  ~(v > 0) \/ ~IsInt(x)
<1>1. x \in Int /\ x % 2 = 0
  OBVIOUS
<1>2. IntMax \in Nat /\ LongMax \in Nat /\ IntMax < LongMax /\ IntMax % 2 = 1
  BY WidthAssumption
<1>3. x # IntMax
  BY <1>1, <1>2
<1>4. CASE v > 0
  <2>1. x > v
    BY <1>4
  <2>2. x > IntMax
    BY <1>1, <1>2, <1>3, <1>4, <2>1
  <2> QED
    BY <1>1, <1>2, <2>2 DEF IsInt
<1> QED
  BY <1>4

\* A number that is refused, for another reason than an error of the past, is
\* out of range, unless it is null or negative and has a multiplier.
LEMMA RefusedIsOut ==
  ASSUME NEW n \in Numeral, OutOfRange(n.v) \/ TooLarge(n)
  PROVE  IF n.suf = "" THEN OutOfRange(n.v) ELSE ~(n.v > 0) \/ ~IsInt(Exact(n))
<1>1. n.suf \in {"", "k", "m"} /\ n.v \in Int
  BY SuffixIsPower DEF Numeral
<1>2. CASE n.suf = ""
  BY <1>2 DEF TooLarge
<1>3. ASSUME n.suf # "" PROVE ~(n.v > 0) \/ ~IsInt(Exact(n))
  <2>1. Exact(n) = n.v * 10 \/ Exact(n) = n.v * 100
    BY <1>1, <1>3, SuffixIsPower DEF Exact
  <2>2. CASE OutOfRange(n.v)
    <3>1. n.v > LongMax \/ n.v < -LongMax - 1
      BY <2>2 DEF OutOfRange, strtol
    <3> QED
      BY <3>1, <1>1, <2>1, Scaled
  <2>3. CASE TooLarge(n)
    <3>1. n.v < 0 \/ n.v = 0 \/ Exact(n) > LongMax \/ Exact(n) >= IntMax
      BY <2>3 DEF TooLarge, Exact
    <3> QED
      BY <3>1, <1>1, <2>1, Scaled
  <2> QED
    BY <2>2, <2>3
<1> QED
  BY <1>2, <1>3

\* The arguments of the options that are read as numbers.
LEMMA ArgumentTypes ==
  ASSUME CmdTypeOK, Known
  PROVE  /\ Word \in Words /\ argv # <<>> /\ Word = argv[1] /\ Tail(argv) \in Seq(Words)
         /\ Opt \in DOMAIN Number \cup {"-ta"} => Arg \in Numeral
         /\ Opt \in Floats => Arg.erange \in BOOLEAN
         /\ Opt = "-p" => Arg.ns \in Seq(Int)
         /\ Opt = "-tb" => Arg \in Seq([idx : Int, w : Numeral])
         /\ Opt = "-prf" => Arg.l \in Seq([proc : Int, var : STRING, c : STRING])
<1>1. argv # <<>> /\ argv \in Seq(Words)
  BY DEF Known, Parsing, CmdTypeOK
<1>2. Word \in Words /\ Word = argv[1] /\ Tail(argv) \in Seq(Words)
  BY <1>1 DEF Word
<1>3. Opt \in WithArgument => Arg # None
  BY DEF Known
<1>4. Opt \in WithArgument \ {"+ta", "-pra"} => Arg \in Argument(Opt)
  BY <1>2, <1>3, WordsAreWords DEF IsWord, Opt, Arg
<1>5. DOMAIN Number = {"-r", "-s", "-st", "-n", "-a", "-k", "-i", "-l", "-prs"}
  BY DEF Number
<1> HIDE DEF Number
<1>6. Opt \in DOMAIN Number \cup {"-ta"} => Arg \in Numeral
  BY <1>4, <1>5 DEF WithArgument, Argument, Floats
<1>7. Opt \in Floats => Arg \in [num : Int, den : Int, erange : BOOLEAN, junk : BOOLEAN]
  BY <1>4, <1>5 DEF WithArgument, Argument, Floats
<1>8. Opt = "-p" => Arg \in [ns : Seq(Int), junk : BOOLEAN]
  BY <1>4, <1>5 DEF WithArgument, Argument, Floats
<1>9. Opt = "-tb" => Arg \in Seq([idx : Int, w : Numeral])
  BY <1>4, <1>5 DEF WithArgument, Argument, Floats
<1>10. Opt = "-prf" => Arg \in [l : Seq([proc : Int, var : STRING, c : STRING]), junk : BOOLEAN]
  BY <1>4, <1>5 DEF WithArgument, Argument, Floats
<1> QED
  BY <1>1, <1>2, <1>6, <1>7, <1>8, <1>9, <1>10

\* A conversion that sets errno in an option that is accepted.
LEMMA NewBlame ==
  ASSUME CmdTypeOK, Known,
         \/ Opt \in Floats /\ Arg.erange
         \/ Opt = "-p" /\ \E i \in DOMAIN Arg.ns : OutOfRange(Arg.ns[i])
         \/ Opt = "-prf" /\ \E i \in DOMAIN Arg.l : OutOfRange(Arg.l[i].proc)
  PROVE  Blamed(Word)
<1>1. CASE Opt \in Floats /\ Arg.erange
  BY <1>1 DEF Blamed, Opt, Arg
<1>2. CASE Opt = "-p" /\ \E i \in DOMAIN Arg.ns : OutOfRange(Arg.ns[i])
  <2>1. PICK i \in DOMAIN Arg.ns : OutOfRange(Arg.ns[i])
    BY <1>2
  <2> DEFINE n == [v |-> Arg.ns[i], suf |-> "", junk |-> FALSE]
  <2>2. NumbersOf(Word) = {[v |-> x, suf |-> "", junk |-> FALSE] : x \in Range(Arg.ns)}
    BY <1>2, NumbersOfOption DEF Opt, Arg
  <2>3. n \in NumbersOf(Word)
    BY <2>2 DEF Range
  <2>4. n.suf = "" /\ OutOfRange(n.v)
    BY <2>1
  <2> HIDE DEF n
  <2> QED
    BY <2>3, <2>4 DEF Blamed
<1>3. CASE Opt = "-prf" /\ \E i \in DOMAIN Arg.l : OutOfRange(Arg.l[i].proc)
  <2>1. PICK i \in DOMAIN Arg.l : OutOfRange(Arg.l[i].proc)
    BY <1>3
  <2> DEFINE n == [v |-> Arg.l[i].proc, suf |-> "", junk |-> FALSE]
  <2>2. NumbersOf(Word) = {[v |-> x.proc, suf |-> "", junk |-> FALSE] : x \in Range(Arg.l)}
    BY <1>3, NumbersOfOption DEF Opt, Arg
  <2>3. n \in NumbersOf(Word)
    BY <2>2 DEF Range
  <2>4. n.suf = "" /\ OutOfRange(n.v)
    BY <2>1
  <2> HIDE DEF n
  <2> QED
    BY <2>3, <2>4 DEF Blamed
<1> QED
  BY <1>1, <1>2, <1>3

LEMMA DoneGrows ==
  ASSUME CmdTypeOK, NEW w \in Words
  PROVE  /\ Range(done) \subseteq Range(Append(done, w)) /\ w \in Range(Append(done, w))
<1> DEFINE d == Append(done, w)
<1>1. /\ DOMAIN d = 1 .. Len(done) + 1 /\ d[Len(done) + 1] = w /\ Len(done) \in Nat
      /\ \A i \in 1 .. Len(done) : d[i] = done[i]
      /\ DOMAIN done = 1 .. Len(done)
  BY DEF CmdTypeOK
<1> HIDE DEF d
<1> QED
  BY <1>1 DEF Range

\* errno has been set by an option accepted before this one.
LEMMA OldBlame ==
  ASSUME CmdInv, Known, errno
  PROVE  \E w \in Range(done) : Blamed(w)
<1>1. \A w \in Range(done) : w \in Range(Append(done, Word))
  BY DoneGrows, ArgumentTypes DEF CmdInv
<1> QED
  BY <1>1 DEF CmdInv, ErrnoInv, Known, InParams

LEMMA AcceptStep ==
  ASSUME CmdInv, Parsing, Accept, Word \in Words, argv # <<>>, argv' \in Seq(Words),
         errno' \in BOOLEAN,
         errno' => errno \/ Blamed(Word) \/ (def.presi /\ Word.o = "word")
  PROVE  CmdInv'
<1>1. CmdTypeOK'
  BY DEF CmdInv, CmdTypeOK, Accept
<1>2. Range(done) \subseteq Range(done') /\ Word \in Range(done') /\ def' = def
  BY DoneGrows DEF CmdInv, Accept
<1>3. ErrnoInv'
  <2> SUFFICES ASSUME errno'
               PROVE  \/ \E w \in Range(done') : Blamed(w)
                      \/ def.presi /\ \E w \in Range(done') : w.o = "word"
    BY <1>2 DEF ErrnoInv, Blamed, NumbersOf
  <2>1. CASE errno
    BY <2>1, <1>2 DEF CmdInv, ErrnoInv
  <2> QED
    BY <2>1, <1>2
<1>4. outcome' # "fatal"
  BY DEF Accept, Parsing
<1> QED
  BY <1>1, <1>3, <1>4 DEF CmdInv, FatalInv

\* Nothing but the words read so far matters to those that are still to come.
LEMMA Silent ==
  ASSUME CmdInv, UNCHANGED <<def, argv, errno, done>>, outcome' = outcome \/ outcome' # "fatal"
  PROVE  CmdInv'
<1>1. CmdTypeOK'
  BY DEF CmdInv, CmdTypeOK
<1>2. ErrnoInv'
  BY DEF CmdInv, ErrnoInv, Blamed, NumbersOf
<1>3. FatalInv'
  BY DEF CmdInv, FatalInv, Blamed, NotPositive, NumbersOf, Word
<1> QED
  BY <1>1, <1>2, <1>3 DEF CmdInv

\* The first element of "-tb" that is not good.
LEMMA FirstBadExists ==
  ASSUME NEW S, Arg \in Seq(S), \E i \in DOMAIN Arg : ~Good(Arg[i])
  PROVE  FirstBad \in DOMAIN Arg
<1> DEFINE T == {i \in DOMAIN Arg : ~Good(Arg[i])}
<1>1. T \in SUBSET Nat /\ T # {} /\ DOMAIN Arg = 1 .. Len(Arg) /\ Len(Arg) \in Nat
  OBVIOUS
<1>2. PICK m \in T : \A l \in T : m <= l
  BY <1>1, LeastNat
<1>3. \A j \in 1 .. m - 1 : j \in DOMAIN Arg /\ j \notin T
  BY <1>1, <1>2
<1>4. \E i \in DOMAIN Arg : ~Good(Arg[i]) /\ \A j \in 1 .. i - 1 : Good(Arg[j])
  BY <1>2, <1>3
<1> QED
  BY <1>4 DEF FirstBad

LEMMA FatalStep ==
  ASSUME CmdInv, fatal_overflow
  PROVE  CmdInv'
<1>1. Known /\ UNCHANGED <<def, opts, argv, errno, done>>
  BY DEF fatal_overflow, Exit
<1>2. Word \in Words /\ argv # <<>>
  BY <1>1, ArgumentTypes DEF CmdInv
<1>3. NotPositive(Word) \/ \E w \in Range(Append(done, Word)) : Blamed(w)
  <2>1. CASE errno
    BY <1>1, <1>2, <2>1, OldBlame, DoneGrows DEF CmdInv
  <2>2. ASSUME ~errno PROVE NotPositive(Word) \/ Blamed(Word)
    <3>1. CASE Opt \in DOMAIN Number \cup {"-ta"} /\ Overflow(Arg)
      <4>1. Arg \in Numeral /\ (OutOfRange(Arg.v) \/ TooLarge(Arg))
        BY <1>1, <2>2, <3>1, ArgumentTypes DEF Overflow, CmdInv
      <4>2. NumbersOf(Word) = {Arg}
        BY <3>1, NumbersOfOption DEF Opt, Arg
      <4> QED
        BY <4>1, <4>2, RefusedIsOut DEF Blamed, NotPositive
    <3>2. CASE /\ Opt = "-tb" /\ (\E i \in DOMAIN Arg : ~Good(Arg[i]))
               /\ ~BadIdx(Arg[FirstBad]) /\ BadInt(Arg[FirstBad])
      <4>1. Arg \in Seq([idx : Int, w : Numeral])
        BY <1>1, <3>2, ArgumentTypes DEF CmdInv
      <4>2. FirstBad \in DOMAIN Arg
        BY <3>2, <4>1, FirstBadExists
      <4> DEFINE e == Arg[FirstBad]
                 n == [v |-> e.idx, suf |-> "", junk |-> FALSE]
      <4>3. e \in Range(Arg)
        BY <4>2 DEF Range
      <4>3a. e \in [idx : Int, w : Numeral]
        <5> DEFINE Elements == [idx : Int, w : Numeral]
        <5>1. Arg \in Seq(Elements)
          BY <4>1
        <5> HIDE DEF Elements
        <5>2. FirstBad \in 1 .. Len(Arg)
          BY <5>1, <4>2
        <5>3. e \in Elements
          BY <5>1, <5>2, ElementOfSeq DEF e
        <5> QED
          BY <5>3 DEF Elements
      <4>4. OutOfRange(e.idx) \/ OutOfRange(e.w.v) \/ TooLarge(e.w)
        BY <2>2, <3>2 DEF BadInt, Overflow
      <4>5. NumbersOf(Word) = UNION {{x.w, [v |-> x.idx, suf |-> "", junk |-> FALSE]} : x \in Range(Arg)}
        BY <3>2, NumbersOfOption DEF Opt, Arg
      <4> HIDE DEF e
      <4>6. e.w \in NumbersOf(Word) /\ n \in NumbersOf(Word)
        <5>1. {e.w, [v |-> e.idx, suf |-> "", junk |-> FALSE]} \subseteq NumbersOf(Word)
          BY <4>3, <4>5
        <5> QED
          BY <5>1
      <4>7. CASE OutOfRange(e.idx)
        <5>1. n.suf = "" /\ OutOfRange(n.v)
          BY <4>7
        <5> HIDE DEF n
        <5> QED
          BY <4>6, <5>1 DEF Blamed
      <4>8. CASE OutOfRange(e.w.v) \/ TooLarge(e.w)
        <5>1. e.w \in Numeral
          BY <4>3a
        <5> QED
          BY <4>6, <4>8, <5>1, RefusedIsOut DEF Blamed, NotPositive
      <4> QED
        BY <4>4, <4>7, <4>8
    <3> QED
      BY <3>1, <3>2 DEF fatal_overflow
  <2> QED
    BY <1>1, <1>2, <2>1, <2>2, DoneGrows DEF CmdInv
<1>4. CmdTypeOK' /\ ErrnoInv'
  BY <1>1 DEF CmdInv, CmdTypeOK, ErrnoInv, Blamed, NumbersOf
<1>5. FatalInv'
  BY <1>1, <1>2, <1>3 DEF FatalInv, Blamed, NotPositive, NumbersOf, Word
<1> QED
  BY <1>4, <1>5 DEF CmdInv

LEMMA CmdStep ==
  ASSUME CmdInv, parse_cmd
  PROVE  CmdInv'
<1>1. ASSUME Known, Accept, errno' = errno PROVE CmdInv'
  BY <1>1, ArgumentTypes, AcceptStep DEF CmdInv, CmdTypeOK, Known, Accept
<1>2. ASSUME Known, Accept, NEW b, errno' = (errno \/ b), b => Blamed(Word) PROVE CmdInv'
  <2>1. errno' \in BOOLEAN
    BY <1>2 DEF CmdInv, CmdTypeOK
  <2> QED
    BY <1>2, <2>1, ArgumentTypes, AcceptStep DEF CmdInv, Known, Accept
<1>3. CASE SetNumber \/ SetFlag \/ Increment \/ SetMode \/ SetTopo \/ argints \/ SetAllDelays \/ set_prefetch
  BY <1>1, <1>3 DEF SetNumber, SetFlag, Increment, SetMode, SetTopo, argints, SetAllDelays, set_prefetch
<1>4. CASE Scale
  BY <1>2, <1>4, NewBlame DEF Scale, CmdInv
<1>5. CASE argcpus
  BY <1>2, <1>5, NewBlame DEF argcpus, CmdInv
<1>6. CASE parse_prefetch
  BY <1>2, <1>6, NewBlame DEF parse_prefetch, CmdInv
<1>7. CASE fatal_overflow
  BY <1>7, FatalStep
<1>8. CASE usage \/ Parsed
  BY <1>8, Silent DEF usage, Parsed, Exit
<1>9. CASE do_parse
  <2>1. Parsing /\ argv # <<>> /\ Word \in Words /\ Tail(argv) \in Seq(Words)
    BY <1>9 DEF do_parse, Parsing, CmdInv, CmdTypeOK, Word
  <2>2. CASE argv' = Tail(argv) /\ UNCHANGED <<def, opts, errno, outcome, done>>
    <3>1. CmdTypeOK' /\ ErrnoInv' /\ outcome' # "fatal"
      BY <2>1, <2>2 DEF CmdInv, CmdTypeOK, ErrnoInv, Blamed, NumbersOf, Parsing
    <3> QED
      BY <3>1 DEF CmdInv, FatalInv
  <2>3. CASE Accept /\ UNCHANGED <<opts, errno>>
    BY <2>1, <2>3, AcceptStep DEF Accept, CmdInv, CmdTypeOK
  <2>4. CASE Exit("usage")
    BY <2>4, Silent DEF Exit
  <2>5. CASE Opt = "word" /\ def.presi /\ Accept /\ errno' = (errno \/ OutOfRange(Arg.v))
    <3>1. errno' \in BOOLEAN
      BY <2>5 DEF CmdInv, CmdTypeOK
    <3> QED
      BY <2>1, <2>5, <3>1, AcceptStep DEF Accept, Opt
  <2> QED
    BY <1>9, <2>2, <2>3, <2>4, <2>5 DEF do_parse, InParams
<1> QED
  BY <1>3, <1>4, <1>5, <1>6, <1>7, <1>8, <1>9 DEF parse_cmd

LEMMA CmdInvariance == Spec => []CmdInv
<1>1. Init => CmdInv
  <2> SUFFICES ASSUME Init PROVE CmdInv
    OBVIOUS
  <2>1. PICK j \in Jobs : argv = j.argv
    BY DEF Init
  <2>2. argv \in Seq(Words) /\ done = <<>> /\ done \in Seq(Words)
    <3>1. j.argv \in Seq(Range(j.argv)) /\ Range(j.argv) \subseteq Words
      BY JobsAssumption DEF Words
    <3> QED
      BY <2>1, <3>1 DEF Init
  <2> QED
    BY <2>2 DEF Init, CmdInv, CmdTypeOK, ErrnoInv, FatalInv
<1>2. CmdInv /\ [Next]_vars => CmdInv'
  <2> SUFFICES ASSUME CmdInv, [Next]_vars PROVE CmdInv'
    OBVIOUS
  <2>1. CASE Parse
    BY <2>1, CmdStep DEF Parse
  <2>2. CASE run \/ RUN
    BY <2>2, Silent DEF run, RUN
  <2>3. CASE Run \/ Finished \/ UNCHANGED vars
    BY <2>3, Silent DEF Run, Finished, vars, cmdline
  <2> QED
    BY <2>1, <2>2, <2>3 DEF Next
<1> QED
  BY <1>1, <1>2, PTL DEF Spec

\* "Failure: overflow" has a reason on the command line, a number that does not
\* fit, unless it is about a null or negative number with a multiplier.
THEOREM OverflowJustified == Spec => []FatalJustified
<1>1. CmdInv => FatalJustified
  BY DEF CmdInv, FatalInv, FatalJustified, NotPositive
<1> QED
  BY <1>1, CmdInvariance, PTL

-----------------------------------------------------------------------------
LEMMA Least ==
  ASSUME NEW a \in Int, NEW b \in Int, a <= b
  PROVE  Min(a .. b) = a /\ Max(a .. b) = b
  BY DEF Min, Max

\* Folds are recursive functions on sets.
IsFold(g, D, ch, b, op) ==
  g = [s \in SUBSET D |-> IF s = {} THEN b ELSE op[<<ch[s], g[s \ {ch[s]}]>>]]

Chooses(ch, D) == IsFiniteSet(D) /\ \A s \in SUBSET D : s # {} => ch[s] \in s

LEMMA FoldExists ==
  ASSUME NEW D, NEW ch, Chooses(ch, D), NEW b, NEW op
  PROVE  \E g : IsFold(g, D, ch, b, op)
<1> DEFINE L(m) == {s \in SUBSET D : Cardinality(s) <= m}
           IsLevel(g, m) == g = [s \in L(m) |-> IF s = {} THEN b ELSE op[<<ch[s], g[s \ {ch[s]}]>>]]
           Bad == {m \in Nat : ~\E g : IsLevel(g, m)}
<1>a. IsFiniteSet(D) /\ \A s \in SUBSET D : s # {} => ch[s] \in s
  BY DEF Chooses
<1>0. \A s \in SUBSET D : IsFiniteSet(s) /\ Cardinality(s) \in Nat
  BY <1>a, FS_Subset, FS_CardinalityType
<1>1. \E g : IsLevel(g, 0)
  <2> DEFINE g == [s \in L(0) |-> b]
             h == [s \in L(0) |-> IF s = {} THEN b ELSE op[<<ch[s], g[s \ {ch[s]}]>>]]
  <2>1. \A s \in L(0) : s = {}
    BY <1>0, FS_EmptySet
  <2>2. g = h
    BY <2>1
  <2> QED
    BY <2>2
<1>2. ASSUME NEW m \in Nat, NEW g, IsLevel(g, m) PROVE \E h : IsLevel(h, m + 1)
  <2> DEFINE h == [s \in L(m + 1) |-> IF s = {} THEN b ELSE op[<<ch[s], g[s \ {ch[s]}]>>]]
             f == [s \in L(m + 1) |-> IF s = {} THEN b ELSE op[<<ch[s], h[s \ {ch[s]}]>>]]
  <2>1. \A s \in L(m) : s \in L(m + 1) /\ g[s] = h[s]
    <3>1. \A s \in L(m) : s \in L(m + 1)
      BY <1>0
    <3>2. \A s \in L(m) : g[s] = IF s = {} THEN b ELSE op[<<ch[s], g[s \ {ch[s]}]>>]
      BY <1>2
    <3> QED
      BY <3>1, <3>2
  <2>2. \A s \in L(m + 1) : s # {} => s \ {ch[s]} \in L(m)
    <3> SUFFICES ASSUME NEW s \in L(m + 1), s # {} PROVE s \ {ch[s]} \in L(m)
      OBVIOUS
    <3>1. s \in SUBSET D /\ Cardinality(s) <= m + 1 /\ IsFiniteSet(s) /\ ch[s] \in s
          /\ Cardinality(s) \in Nat
      BY <1>0, <1>a
    <3>2. Cardinality(s \ {ch[s]}) = Cardinality(s) - 1
      BY <3>1, FS_RemoveElement
    <3> QED
      BY <3>1, <3>2
  <2>3. \A s \in L(m + 1) : s # {} => g[s \ {ch[s]}] = h[s \ {ch[s]}]
    BY <2>1, <2>2
  <2> HIDE DEF L
  <2>4. h = f
    <3> HIDE DEF IsLevel
    <3> QED
      BY <2>3
  <2> QED
    BY <2>4
<1>3. Bad = {}
  <2> SUFFICES ASSUME Bad # {} PROVE FALSE
    OBVIOUS
  <2> HIDE DEF IsLevel
  <2>1. PICK m \in Bad : \A l \in Bad : m <= l
    <3>1. Bad \in SUBSET Nat
      OBVIOUS
    <3> QED
      BY <3>1, LeastNat
  <2>2. m \in Nat /\ m # 0
    BY <1>1, <2>1
  <2>3. m - 1 \in Nat /\ m - 1 \notin Bad /\ (m - 1) + 1 = m
    BY <2>1, <2>2
  <2>4. PICK g : IsLevel(g, m - 1)
    BY <2>3
  <2>5. \E h : IsLevel(h, m)
    BY <1>2, <2>3, <2>4
  <2> QED
    BY <2>1, <2>5
<1>4. Cardinality(D) \in Nat /\ \A s \in SUBSET D : Cardinality(s) <= Cardinality(D)
  BY <1>a, FS_Subset, FS_CardinalityType
<1>5. PICK g : IsLevel(g, Cardinality(D))
  <2> HIDE DEF IsLevel
  <2> QED
    BY <1>3, <1>4
<1>6. L(Cardinality(D)) = SUBSET D
  BY <1>4
<1> QED
  BY <1>5, <1>6 DEF IsFold

LEMMA FoldTyped ==
  ASSUME NEW D, NEW ch, Chooses(ch, D), NEW A, NEW b \in A,
         NEW op, \A d \in D : \A a \in A : op[<<d, a>>] \in A,
         NEW g, IsFold(g, D, ch, b, op)
  PROVE  \A s \in SUBSET D : g[s] \in A
<1> SUFFICES ASSUME NEW r \in SUBSET D, g[r] \notin A PROVE FALSE
  OBVIOUS
<1> DEFINE T == {l \in Nat : \E s \in SUBSET D : g[s] \notin A /\ Cardinality(s) = l}
<1>a. IsFiniteSet(D) /\ \A s \in SUBSET D : s # {} => ch[s] \in s
  BY DEF Chooses
<1>0. \A s \in SUBSET D : IsFiniteSet(s) /\ Cardinality(s) \in Nat
  BY <1>a, FS_Subset, FS_CardinalityType
<1>2. T \in SUBSET Nat /\ Cardinality(r) \in T
  BY <1>0
<1>3. PICK m \in T : \A l \in T : m <= l
  BY <1>2, LeastNat
<1>4. PICK s \in SUBSET D : g[s] \notin A /\ Cardinality(s) = m
  BY <1>3
<1>5. g[s] = IF s = {} THEN b ELSE op[<<ch[s], g[s \ {ch[s]}]>>]
  BY DEF IsFold
<1>6. s # {}
  BY <1>4, <1>5
<1>7. s \ {ch[s]} \in SUBSET D /\ Cardinality(s \ {ch[s]}) = m - 1 /\ m \in Nat /\ ch[s] \in D
  BY <1>0, <1>a, <1>4, <1>6, FS_RemoveElement
<1>8. g[s \ {ch[s]}] \in A
  <2>1. m - 1 \in Nat
    BY <1>0, <1>7
  <2>2. m - 1 \notin T
    BY <1>3, <1>7
  <2> QED
    BY <1>7, <2>1, <2>2
<1> QED
  BY <1>4, <1>5, <1>6, <1>7, <1>8

LEMMA Extremes ==
  ASSUME NEW n \in Nat, NEW s \in SUBSET (1 .. n), s # {}
  PROVE  Min(s) \in s /\ Max(s) \in s
<1>1. \E x \in s : \A y \in s : x <= y
  BY LeastNat
<1>2. \E x \in s : \A y \in s : y <= x
  <2> DEFINE T == {l \in Nat : \E x \in s : l = n - x}
  <2>0. \A x \in s : x \in Int /\ n - x \in Nat
    OBVIOUS
  <2>1. T \in SUBSET Nat /\ T # {}
    BY <2>0
  <2>2. PICK m \in T : \A l \in T : m <= l
    BY <2>1, LeastNat
  <2>3. PICK x \in s : m = n - x
    BY <2>2
  <2>4. \A y \in s : n - x <= n - y /\ x \in Int /\ y \in Int
    BY <2>0, <2>2, <2>3
  <2> QED
    BY <2>4
<1> QED
  BY <1>1, <1>2 DEF Min, Max

-----------------------------------------------------------------------------
\* A selection: where each element comes from.
Step(xs, S, i, ys) == IF xs[i] \in S THEN Append(ys, xs[i]) ELSE ys

IsOnly(g, xs, S) ==
  g = [s \in SUBSET DOMAIN xs |-> IF s = {} THEN <<>> ELSE Step(xs, S, Max(s), g[s \ {Max(s)}])]

LEMMA OnlyIsFold ==
  ASSUME NEW xs, NEW S
  PROVE  Only(xs, S) = (CHOOSE g : IsOnly(g, xs, S))[DOMAIN xs]
  BY DEF Only, FoldLeft, MapThenFoldSet, IsOnly, Step

LEMMA OnlyExists ==
  ASSUME NEW E, NEW xs \in Seq(E), NEW S
  PROVE  \E g : IsOnly(g, xs, S) /\ \A s \in SUBSET DOMAIN xs : g[s] \in Seq(E)
<1> DEFINE D == DOMAIN xs
           op == [x \in D \X Seq(E) |-> Step(xs, S, x[1], x[2])]
           ch == [s \in SUBSET D |-> Max(s)]
<1>1. D = 1 .. Len(xs) /\ Len(xs) \in Nat /\ IsFiniteSet(D)
  BY FS_Interval
<1>2. \A s \in SUBSET D : s # {} => ch[s] \in s
  BY <1>1, Extremes
<1>3. \A d \in D : \A ys \in Seq(E) : op[<<d, ys>>] = Step(xs, S, d, ys) /\ op[<<d, ys>>] \in Seq(E)
  <2>1. \A d \in D : xs[d] \in E
    OBVIOUS
  <2>2. \A d \in D : \A ys \in Seq(E) : <<d, ys>> \in D \X Seq(E) /\ <<d, ys>>[1] = d /\ <<d, ys>>[2] = ys
    OBVIOUS
  <2> HIDE DEF D
  <2>3. \A d \in D : \A ys \in Seq(E) : op[<<d, ys>>] = Step(xs, S, d, ys)
    BY <2>2
  <2>4. \A d \in D : \A ys \in Seq(E) : Step(xs, S, d, ys) \in Seq(E)
    BY <2>1 DEF Step
  <2> HIDE DEF op
  <2> QED
    BY <2>3, <2>4
<1>4. <<>> \in Seq(E)
  OBVIOUS
<1> HIDE DEF op, ch, D
<1>5. Chooses(ch, D)
  BY <1>1, <1>2 DEF Chooses
<1>5a. PICK g : IsFold(g, D, ch, <<>>, op)
  BY <1>5, FoldExists
<1>6. \A s \in SUBSET D : g[s] \in Seq(E)
  BY <1>3, <1>4, <1>5, <1>5a, FoldTyped
<1>7. \A s \in SUBSET D : s # {} => /\ op[<<ch[s], g[s \ {ch[s]}]>>] = Step(xs, S, ch[s], g[s \ {ch[s]}])
                                    /\ ch[s] = Max(s)
  BY <1>2, <1>3, <1>6 DEF ch
<1>8. g = [s \in SUBSET D |-> IF s = {} THEN <<>> ELSE Step(xs, S, Max(s), g[s \ {Max(s)}])]
  BY <1>5a, <1>7 DEF IsFold
<1> QED
  BY <1>6, <1>8 DEF IsOnly, D

\* Position j of the selection ys of the first m elements comes from position
\* at[j] of xs.
IsSelection(ys, at, xs, S, m) ==
  /\ at \in [1 .. Len(ys) -> 1 .. m]
  /\ \A j \in 1 .. Len(ys) : ys[j] = xs[at[j]] /\ xs[at[j]] \in S
  /\ \A j, l \in 1 .. Len(ys) : at[j] = at[l] => j = l
  /\ \A i \in 1 .. m : xs[i] \in S => \E j \in 1 .. Len(ys) : at[j] = i

LEMMA OneMore ==
  ASSUME NEW E, NEW xs \in Seq(E), NEW S, NEW m \in 1 .. Len(xs), NEW ys \in Seq(E), NEW at,
         IsSelection(ys, at, xs, S, m - 1)
  PROVE  \E bt : IsSelection(Step(xs, S, m, ys), bt, xs, S, m)
<1>0. m - 1 \in Nat /\ m \in Nat /\ m \in DOMAIN xs /\ Len(ys) \in Nat /\ xs[m] \in E
  OBVIOUS
<1>1. CASE xs[m] \notin S
  <2>1. Step(xs, S, m, ys) = ys
    BY <1>1 DEF Step
  <2>2. at \in [1 .. Len(ys) -> 1 .. m]
    BY <1>0 DEF IsSelection
  <2>3. \A i \in 1 .. m : xs[i] \in S => i \in 1 .. m - 1
    BY <1>0, <1>1
  <2>4. IsSelection(ys, at, xs, S, m)
    BY <2>2, <2>3 DEF IsSelection
  <2> QED
    BY <2>1, <2>4
<1>2. CASE xs[m] \in S
  <2> DEFINE zs == Append(ys, xs[m])
             bt == [j \in 1 .. Len(ys) + 1 |-> IF j = Len(ys) + 1 THEN m ELSE at[j]]
  <2>1. Step(xs, S, m, ys) = zs
    BY <1>2 DEF Step
  <2>2. Len(zs) = Len(ys) + 1 /\ zs[Len(ys) + 1] = xs[m] /\ \A j \in 1 .. Len(ys) : zs[j] = ys[j]
    BY <1>0
  <2>3. /\ bt[Len(ys) + 1] = m
        /\ \A j \in 1 .. Len(ys) : bt[j] = at[j] /\ at[j] \in 1 .. m - 1 /\ at[j] # m
        /\ \A j \in 1 .. Len(ys) + 1 : j = Len(ys) + 1 \/ j \in 1 .. Len(ys)
        /\ \A j \in 1 .. Len(ys) : j \in 1 .. Len(ys) + 1
        /\ Len(ys) + 1 \in 1 .. Len(ys) + 1
    BY <1>0 DEF IsSelection
  <2>4. bt \in [1 .. Len(zs) -> 1 .. m]
    <3>1. \A j \in 1 .. Len(ys) + 1 : bt[j] \in 1 .. m
      <4> HIDE DEF bt
      <4> SUFFICES ASSUME NEW j \in 1 .. Len(ys) + 1 PROVE bt[j] \in 1 .. m
        OBVIOUS
      <4>1. CASE j = Len(ys) + 1
        BY <1>0, <2>3, <4>1
      <4>2. CASE j \in 1 .. Len(ys)
        BY <1>0, <2>3, <4>2
      <4> QED
        BY <2>3, <4>1, <4>2
    <3>2. 1 .. Len(zs) = 1 .. Len(ys) + 1
      BY <2>2
    <3>3. bt \in [1 .. Len(ys) + 1 -> 1 .. m]
      BY <3>1
    <3> HIDE DEF zs, bt
    <3> QED
      BY <3>2, <3>3
  <2> HIDE DEF zs, bt
  <2>5. \A j \in 1 .. Len(zs) : zs[j] = xs[bt[j]] /\ xs[bt[j]] \in S
    BY <1>2, <2>2, <2>3 DEF IsSelection
  <2>6. \A j, l \in 1 .. Len(zs) : bt[j] = bt[l] => j = l
    BY <2>2, <2>3 DEF IsSelection
  <2>7. \A i \in 1 .. m : xs[i] \in S => \E j \in 1 .. Len(zs) : bt[j] = i
    <3>1. \A i \in 1 .. m : i = m \/ i \in 1 .. m - 1
      BY <1>0
    <3> SUFFICES ASSUME NEW i \in 1 .. m, xs[i] \in S PROVE \E j \in 1 .. Len(ys) + 1 : bt[j] = i
      BY <2>2
    <3>2. CASE i \in 1 .. m - 1
      <4>1. PICK j \in 1 .. Len(ys) : at[j] = i
        BY <3>2 DEF IsSelection
      <4> QED
        BY <2>3, <4>1
    <3> QED
      BY <2>3, <3>1, <3>2
  <2> QED
    BY <2>1, <2>4, <2>5, <2>6, <2>7 DEF IsSelection
<1> QED
  BY <1>1, <1>2

\* What Only keeps, in what number.
LEMMA Selection ==
  ASSUME NEW E, NEW xs \in Seq(E), NEW S
  PROVE  /\ Only(xs, S) \in Seq(E)
         /\ \E at : IsSelection(Only(xs, S), at, xs, S, Len(xs))
<1> DEFINE D == DOMAIN xs
           g == CHOOSE g : IsOnly(g, xs, S)
           P(m) == g[1 .. m] \in Seq(E) /\ \E at : IsSelection(g[1 .. m], at, xs, S, m)
           T == {m \in 0 .. Len(xs) : ~P(m)}
<1>1. D = 1 .. Len(xs) /\ Len(xs) \in Nat
  OBVIOUS
<1>2. IsOnly(g, xs, S)
  BY OnlyExists
<1> HIDE DEF g
<1>3. \A s \in SUBSET D : g[s] = IF s = {} THEN <<>> ELSE Step(xs, S, Max(s), g[s \ {Max(s)}])
  BY <1>2 DEF IsOnly
<1>4. P(0)
  <2>1. 1 .. 0 = {}
    OBVIOUS
  <2>2. g[1 .. 0] = <<>>
    BY <1>3, <2>1
  <2>3. IsSelection(<<>>, [j \in 1 .. 0 |-> 0], xs, S, 0)
    BY DEF IsSelection
  <2>4. <<>> \in Seq(E)
    OBVIOUS
  <2> QED
    BY <2>2, <2>3, <2>4
<1>5. ASSUME NEW m \in 1 .. Len(xs), P(m - 1) PROVE P(m)
  <2>1. g[1 .. m] = Step(xs, S, m, g[1 .. m - 1])
    <3>1. 1 .. m # {} /\ 1 .. m \in SUBSET D /\ (1 .. m) \ {m} = 1 .. m - 1 /\ Max(1 .. m) = m
      <4>1. 1 \in Int /\ m \in Int /\ 1 <= m /\ m <= Len(xs)
        BY <1>1
      <4>2. Max(1 .. m) = m
        BY <4>1, Least
      <4>3. 1 .. m \in SUBSET D /\ m \in 1 .. m
        BY <1>1, <4>1
      <4>4. (1 .. m) \ {m} = 1 .. m - 1
        BY <4>1
      <4> QED
        BY <4>2, <4>3, <4>4
    <3> QED
      BY <1>3, <3>1
  <2>2. g[1 .. m - 1] \in Seq(E) /\ xs[m] \in E
    BY <1>5
  <2>3. Step(xs, S, m, g[1 .. m - 1]) \in Seq(E)
    BY <2>2 DEF Step
  <2>4. \E at : IsSelection(g[1 .. m], at, xs, S, m)
    BY <1>5, <2>1, <2>2, OneMore
  <2> QED
    BY <2>1, <2>3, <2>4
<1>6. T = {}
  <2> SUFFICES ASSUME T # {} PROVE FALSE
    OBVIOUS
  <2>1. T \in SUBSET Nat
    BY <1>1
  <2> HIDE DEF P
  <2>2. PICK m \in T : \A l \in T : m <= l
    BY <2>1, LeastNat
  <2>3. m # 0 /\ m \in 1 .. Len(xs) /\ m - 1 \in 0 .. Len(xs)
    BY <1>1, <1>4, <2>2
  <2>4. P(m - 1)
    BY <2>1, <2>2, <2>3
  <2> QED
    BY <1>5, <2>2, <2>3, <2>4
<1>7. P(Len(xs))
  <2> HIDE DEF P
  <2> QED
    BY <1>1, <1>6
<1> QED
  BY <1>1, <1>7, OnlyIsFold DEF g

-----------------------------------------------------------------------------
(***************************************************************************)
(* The classes of close threads.                                           *)
(***************************************************************************)
ComsOK == coms \in Seq(com) /\ N >= 2

LEMMA Division ==
  ASSUME NEW d \in Nat, d > 0, NEW x \in Int
  PROVE  /\ x \div d \in Int /\ x % d \in 0 .. d - 1
         /\ x = d * (x \div d) + (x % d)
         /\ \A y \in Int, r \in 0 .. d - 1 : x = d * y + r => y = x \div d /\ r = x % d
<1>1. x \div d \in Int /\ x % d \in 0 .. d - 1 /\ x = d * (x \div d) + (x % d)
  OBVIOUS
<1>2. ASSUME NEW y \in Int, NEW r \in 0 .. d - 1, NEW z \in Int, NEW s \in 0 .. d - 1,
             d * y + r = d * z + s
      PROVE  y = z /\ r = s
  BY <1>2
<1> QED
  BY <1>1, <1>2

\* Around the cycle.
LEMMA Wraps ==
  ASSUME NEW d \in Nat, d > 0, NEW x \in Int
  PROVE  /\ x \in 0 .. d - 1 => x % d = x
         /\ x \in d .. 2 * d - 1 => x % d = x - d
<1>1. ASSUME x \in 0 .. d - 1 PROVE x % d = x
  <2>1. x = d * 0 + x /\ 0 \in Int
    OBVIOUS
  <2> QED
    BY <1>1, <2>1, Division
<1>2. ASSUME x \in d .. 2 * d - 1 PROVE x % d = x - d
  <2>1. x = d * 1 + (x - d) /\ 1 \in Int /\ x - d \in 0 .. d - 1
    BY <1>2
  <2> QED
    BY <2>1, Division
<1> QED
  BY <1>1, <1>2

LEMMA FirstOf ==
  ASSUME ComsOK, NEW c
  PROVE  LET f == SelectInSeq(coms, LAMBDA e : e = c) - 1 IN
           \/ f = -1 /\ c \notin ToSet(coms)
           \/ f \in Threads /\ edge(f) = c
<1> DEFINE I == {i \in 1 .. Len(coms) : coms[i] = c}
           f == SelectInSeq(coms, LAMBDA e : e = c) - 1
<1>1. f = (IF I # {} THEN Min(I) ELSE 0) - 1
  BY DEF SelectInSeq
<1>2. N \in Nat /\ Len(coms) = N /\ DOMAIN coms = 1 .. N
  BY DEF ComsOK, N
<1> SUFFICES (f = -1 /\ c \notin ToSet(coms)) \/ (f \in Threads /\ edge(f) = c)
  OBVIOUS
<1> HIDE DEF f
<1>3. CASE I = {}
  BY <1>1, <1>2, <1>3 DEF ToSet
<1>4. CASE I # {}
  <2>1. Min(I) \in I
    BY <1>2, <1>4, Extremes
  <2>2. f = Min(I) - 1 /\ (Min(I) - 1) + 1 = Min(I)
    BY <1>1, <1>2, <1>4, <2>1
  <2> QED
    BY <1>2, <2>1, <2>2 DEF Threads, edge
<1> QED
  BY <1>3, <1>4

\* The walk ends at an Fr or a Ws, if there is one.
LEMMA StartIsNode ==
  ASSUME ComsOK
  PROVE  /\ Start \in Threads
         /\ {"Fr", "Ws"} \cap ToSet(coms) # {} => edge(Start) # "Rf"
<1> DEFINE f(c) == SelectInSeq(coms, LAMBDA e : e = c) - 1
<1>1. \A c : (f(c) = -1 /\ c \notin ToSet(coms)) \/ (f(c) \in Threads /\ edge(f(c)) = c)
  BY FirstOf
<1>2. Start = IF f("Fr") >= 0 THEN f("Fr") ELSE IF f("Ws") >= 0 THEN f("Ws") ELSE 0
  BY DEF Start
<1> HIDE DEF f
<1>3. N \in Nat /\ N >= 2
  BY DEF ComsOK, N
<1> QED
  BY <1>1, <1>2, <1>3 DEF Threads

LEMMA WalkOrder ==
  ASSUME ComsOK
  PROVE  /\ N \in Nat /\ N >= 2 /\ DOMAIN Nodes = 1 .. N
         /\ \A i \in 1 .. N : Nodes[i] \in Threads
         /\ \A i, j \in 1 .. N : Nodes[i] = Nodes[j] => i = j
         /\ \A t \in Threads : \E i \in 1 .. N : Nodes[i] = t
         /\ \A i \in 1 .. N - 1 : Nodes[i + 1] = next(Nodes[i])
         /\ Nodes[N] = Start
<1>1. N \in Nat /\ N >= 2 /\ Start \in 0 .. N - 1
  BY StartIsNode DEF ComsOK, N, Threads
<1>2. DOMAIN Nodes = 1 .. N /\ \A i \in 1 .. N : Nodes[i] = (Start + i) % N
  BY DEF Nodes
<1> DEFINE n(i) == IF Start + i < N THEN Start + i ELSE Start + i - N
<1>3. \A i \in 1 .. N : Nodes[i] = n(i)
  <2> SUFFICES ASSUME NEW i \in 1 .. N PROVE Nodes[i] = n(i)
    OBVIOUS
  <2>1. Start + i \in 0 .. N - 1 \/ Start + i \in N .. 2 * N - 1
    BY <1>1
  <2>2. Start + i \in Int /\ N > 0
    BY <1>1
  <2>3. (Start + i) % N = n(i)
    BY <1>1, <2>1, <2>2, Wraps
  <2> QED
    BY <1>2, <2>3
<1>4. \A t \in 0 .. N - 1 : next(t) = IF t + 1 = N THEN 0 ELSE t + 1
  <2> SUFFICES ASSUME NEW t \in 0 .. N - 1 PROVE next(t) = IF t + 1 = N THEN 0 ELSE t + 1
    OBVIOUS
  <2>1. t + 1 \in 0 .. N - 1 \/ t + 1 \in N .. 2 * N - 1
    BY <1>1
  <2>2. t + 1 \in Int /\ N > 0
    BY <1>1
  <2> QED
    BY <1>1, <2>1, <2>2, Wraps DEF next
<1>5. \A i \in 1 .. N : Nodes[i] \in Threads
  BY <1>1, <1>3 DEF Threads
<1>6. \A i, j \in 1 .. N : Nodes[i] = Nodes[j] => i = j
  BY <1>1, <1>3
<1>7. \A t \in Threads : \E i \in 1 .. N : Nodes[i] = t
  <2> SUFFICES ASSUME NEW t \in Threads PROVE \E i \in 1 .. N : Nodes[i] = t
    OBVIOUS
  <2>1. CASE t > Start
    <3>1. t - Start \in 1 .. N /\ n(t - Start) = t
      BY <1>1, <2>1 DEF Threads
    <3> QED
      BY <1>3, <3>1
  <2>2. CASE ~(t > Start)
    <3>1. t - Start + N \in 1 .. N /\ n(t - Start + N) = t
      BY <1>1, <2>2 DEF Threads
    <3> QED
      BY <1>3, <3>1
  <2> QED
    BY <2>1, <2>2
<1>8. \A i \in 1 .. N - 1 : Nodes[i + 1] = next(Nodes[i])
  <2> SUFFICES ASSUME NEW i \in 1 .. N - 1 PROVE Nodes[i + 1] = next(Nodes[i])
    OBVIOUS
  <2>1. i \in 1 .. N /\ i + 1 \in 1 .. N /\ n(i) \in 0 .. N - 1
    BY <1>1
  <2>2. Nodes[i] = n(i) /\ Nodes[i + 1] = n(i + 1)
    BY <1>3, <2>1
  <2>3. n(i + 1) = IF n(i) + 1 = N THEN 0 ELSE n(i) + 1
    BY <1>1
  <2> HIDE DEF n
  <2> QED
    BY <1>4, <2>1, <2>2, <2>3
<1>9. Nodes[N] = Start
  <2>1. N \in 1 .. N /\ n(N) = Start
    BY <1>1
  <2> QED
    BY <1>3, <2>1
<1> QED
  BY <1>1, <1>2, <1>5, <1>6, <1>7, <1>8, <1>9

-----------------------------------------------------------------------------
\* xs has each of the threads of A once.
Covers(xs, A) ==
  /\ xs \in Seq(Seq(Threads))
  /\ \A i \in 1 .. Len(xs) : Len(xs[i]) \in {1, 2}
  /\ \A i \in 1 .. Len(xs) : \A j \in 1 .. Len(xs[i]) : xs[i][j] \in A
  /\ \A a \in A : \E i \in 1 .. Len(xs) : \E j \in 1 .. Len(xs[i]) : xs[i][j] = a
  /\ \A i, l \in 1 .. Len(xs) : \A j \in 1 .. Len(xs[i]) : \A m \in 1 .. Len(xs[l]) :
       xs[i][j] = xs[l][m] => i = l /\ j = m

\* Its pairs are linked by an Rf, and its other threads have no Rf after them,
\* but for the last one.
Linked(xs) ==
  \A i \in 1 .. Len(xs) :
    /\ Len(xs[i]) = 2 => edge(xs[i][1]) = "Rf" /\ xs[i][2] = next(xs[i][1])
    /\ Len(xs[i]) = 1 => edge(xs[i][1]) # "Rf" \/ xs[i][1] = Start

LEMMA Concatenated ==
  ASSUME NEW A, NEW B, A \cap B = {}, NEW xs, Covers(xs, A), NEW ys, Covers(ys, B)
  PROVE  /\ Covers(xs \o ys, A \cup B)
         /\ Linked(xs) /\ Linked(ys) => Linked(xs \o ys)
<1> DEFINE zs == xs \o ys
<1>1. /\ xs \in Seq(Seq(Threads)) /\ ys \in Seq(Seq(Threads)) /\ zs \in Seq(Seq(Threads))
      /\ Len(xs) \in Nat /\ Len(ys) \in Nat /\ Len(zs) = Len(xs) + Len(ys)
      /\ \A i \in 1 .. Len(zs) : zs[i] = IF i <= Len(xs) THEN xs[i] ELSE ys[i - Len(xs)]
  BY ConcatProperties DEF Covers
<1> HIDE DEF zs
<1>2. \A i \in 1 .. Len(zs) : \/ i \in 1 .. Len(xs) /\ zs[i] = xs[i]
                              \/ i - Len(xs) \in 1 .. Len(ys) /\ zs[i] = ys[i - Len(xs)]
  BY <1>1
<1>3. /\ \A i \in 1 .. Len(xs) : i \in 1 .. Len(zs) /\ zs[i] = xs[i]
      /\ \A i \in 1 .. Len(ys) : i + Len(xs) \in 1 .. Len(zs) /\ zs[i + Len(xs)] = ys[i]
  <2>1. \A i \in 1 .. Len(xs) : i \in 1 .. Len(zs) /\ zs[i] = xs[i]
    BY <1>1
  <2>2. ASSUME NEW i \in 1 .. Len(ys) PROVE i + Len(xs) \in 1 .. Len(zs) /\ zs[i + Len(xs)] = ys[i]
    <3>1. i + Len(xs) \in 1 .. Len(zs) /\ ~(i + Len(xs) <= Len(xs)) /\ (i + Len(xs)) - Len(xs) = i
      BY <1>1
    <3> QED
      BY <1>1, <3>1
  <2> QED
    BY <2>1, <2>2
<1>4. \A i \in 1 .. Len(zs) : Len(zs[i]) \in {1, 2}
  <2>1. (\A i \in 1 .. Len(xs) : Len(xs[i]) \in {1, 2}) /\ \A i \in 1 .. Len(ys) : Len(ys[i]) \in {1, 2}
    BY DEF Covers
  <2> QED
    BY <1>2, <2>1
<1>5. \A i \in 1 .. Len(zs) : \A j \in 1 .. Len(zs[i]) : zs[i][j] \in A \cup B
  BY <1>2 DEF Covers
<1>6. \A a \in A \cup B : \E i \in 1 .. Len(zs) : \E j \in 1 .. Len(zs[i]) : zs[i][j] = a
  <2>1. \A a \in A : \E i \in 1 .. Len(zs) : \E j \in 1 .. Len(zs[i]) : zs[i][j] = a
    <3> SUFFICES ASSUME NEW a \in A
                 PROVE  \E i \in 1 .. Len(zs) : \E j \in 1 .. Len(zs[i]) : zs[i][j] = a
      OBVIOUS
    <3>1. PICK i \in 1 .. Len(xs) : \E j \in 1 .. Len(xs[i]) : xs[i][j] = a
      BY DEF Covers
    <3> QED
      BY <1>3, <3>1
  <2>2. \A a \in B : \E i \in 1 .. Len(zs) : \E j \in 1 .. Len(zs[i]) : zs[i][j] = a
    <3> SUFFICES ASSUME NEW a \in B
                 PROVE  \E i \in 1 .. Len(zs) : \E j \in 1 .. Len(zs[i]) : zs[i][j] = a
      OBVIOUS
    <3>1. PICK i \in 1 .. Len(ys) : \E j \in 1 .. Len(ys[i]) : ys[i][j] = a
      BY DEF Covers
    <3> QED
      BY <1>3, <3>1
  <2> QED
    BY <2>1, <2>2
<1>7. ASSUME NEW i \in 1 .. Len(zs), NEW l \in 1 .. Len(zs), NEW j \in 1 .. Len(zs[i]),
             NEW m \in 1 .. Len(zs[l]),
             zs[i][j] = zs[l][m]
      PROVE  i = l /\ j = m
  <2>1. CASE i \in 1 .. Len(xs) /\ zs[i] = xs[i] /\ l \in 1 .. Len(xs) /\ zs[l] = xs[l]
    BY <1>7, <2>1 DEF Covers
  <2>2. CASE /\ i - Len(xs) \in 1 .. Len(ys) /\ zs[i] = ys[i - Len(xs)]
             /\ l - Len(xs) \in 1 .. Len(ys) /\ zs[l] = ys[l - Len(xs)]
    <3> DEFINE a == i - Len(xs)
               b == l - Len(xs)
    <3>1. a \in 1 .. Len(ys) /\ b \in 1 .. Len(ys) /\ zs[i] = ys[a] /\ zs[l] = ys[b]
      BY <2>2
    <3>2. a = b => i = l
      BY <1>1
    <3> HIDE DEF a, b
    <3>3. a = b /\ j = m
      BY <1>7, <3>1 DEF Covers
    <3> QED
      BY <3>2, <3>3
  <2>3. CASE i \in 1 .. Len(xs) /\ zs[i] = xs[i] /\ l - Len(xs) \in 1 .. Len(ys) /\ zs[l] = ys[l - Len(xs)]
    <3>1. zs[i][j] \in A /\ zs[l][m] \in B
      BY <1>7, <2>3 DEF Covers
    <3> QED
      BY <1>7, <3>1
  <2>4. CASE l \in 1 .. Len(xs) /\ zs[l] = xs[l] /\ i - Len(xs) \in 1 .. Len(ys) /\ zs[i] = ys[i - Len(xs)]
    <3>1. zs[l][m] \in A /\ zs[i][j] \in B
      BY <1>7, <2>4 DEF Covers
    <3> QED
      BY <1>7, <3>1
  <2> QED
    BY <1>2, <2>1, <2>2, <2>3, <2>4
<1>8. Linked(xs) /\ Linked(ys) => Linked(zs)
  <2> SUFFICES ASSUME Linked(xs), Linked(ys), NEW i \in 1 .. Len(zs)
               PROVE  /\ Len(zs[i]) = 2 => edge(zs[i][1]) = "Rf" /\ zs[i][2] = next(zs[i][1])
                      /\ Len(zs[i]) = 1 => edge(zs[i][1]) # "Rf" \/ zs[i][1] = Start
    BY DEF Linked
  <2>1. CASE i \in 1 .. Len(xs) /\ zs[i] = xs[i]
    BY <2>1 DEF Linked
  <2>2. CASE i - Len(xs) \in 1 .. Len(ys) /\ zs[i] = ys[i - Len(xs)]
    BY <2>2 DEF Linked
  <2> QED
    BY <1>2, <2>1, <2>2
<1> QED
  BY <1>1, <1>4, <1>5, <1>6, <1>7, <1>8 DEF Covers, zs

\* The nodes of the walk from a to b, linked by Rfs.
IsChain(xs, a, b) ==
  /\ xs \in Seq(Threads) /\ Len(xs) = b - a + 1
  /\ \A j \in 1 .. Len(xs) : xs[j] = Nodes[a + j - 1]
  /\ \A j \in 1 .. Len(xs) - 1 : edge(xs[j]) = "Rf"
  /\ Len(xs) > 0 => edge(xs[Len(xs)]) # "Rf" \/ b = N

Between(a, b) == {Nodes[l] : l \in a .. b}

\* The chain in pairs.
Paired(xs) ==
  [i \in 1 .. (Len(xs) + 1) \div 2 |->
     SubSeq(xs, 2 * i - 1, IF 2 * i <= Len(xs) THEN 2 * i ELSE Len(xs))]

LEMMA PairsOfChain ==
  ASSUME NEW xs \in Seq(Threads)
  PROVE  LET h == Paired(xs) IN
         /\ h \in Seq(Seq(Threads)) /\ Len(h) = (Len(xs) + 1) \div 2
         /\ \A i \in 1 .. Len(h) : /\ 2 * i - 1 \in 1 .. Len(xs)
                                   /\ Len(h[i]) = IF 2 * i <= Len(xs) THEN 2 ELSE 1
                                   /\ \A j \in 1 .. Len(h[i]) : h[i][j] = xs[2 * (i - 1) + j]
<1> DEFINE h == Paired(xs)
           H == (Len(xs) + 1) \div 2
           to(i) == IF 2 * i <= Len(xs) THEN 2 * i ELSE Len(xs)
<1>1. H \in Nat /\ Len(xs) \in Nat /\ (2 * H = Len(xs) \/ 2 * H = Len(xs) + 1)
  OBVIOUS
<1> HIDE DEF H
<1>2. \A i \in 1 .. H : 2 * i - 1 \in 1 .. Len(xs) /\ to(i) \in 1 .. Len(xs) /\ 2 * i - 1 <= to(i)
                        /\ to(i) - (2 * i - 1) + 1 = IF 2 * i <= Len(xs) THEN 2 ELSE 1
  BY <1>1
<1>3. \A i \in 1 .. H : h[i] = SubSeq(xs, 2 * i - 1, to(i))
  BY DEF Paired, H
<1>4. DOMAIN h = 1 .. H
  BY DEF Paired, H
<1> HIDE DEF h, to
<1>5. ASSUME NEW i \in 1 .. H
      PROVE  /\ h[i] \in Seq(Threads) /\ Len(h[i]) = IF 2 * i <= Len(xs) THEN 2 ELSE 1
             /\ \A j \in 1 .. Len(h[i]) : h[i][j] = xs[2 * (i - 1) + j]
  <2> DEFINE a == 2 * i - 1
             b == to(i)
  <2>1. a \in Int /\ b \in Int /\ a <= b /\ a \in 1 .. Len(xs) /\ b \in 1 .. Len(xs)
        /\ b - a + 1 = (IF 2 * i <= Len(xs) THEN 2 ELSE 1) /\ h[i] = SubSeq(xs, a, b)
    <3>1. /\ 2 * i - 1 \in 1 .. Len(xs) /\ to(i) \in 1 .. Len(xs) /\ 2 * i - 1 <= to(i)
          /\ to(i) - (2 * i - 1) + 1 = IF 2 * i <= Len(xs) THEN 2 ELSE 1
      BY <1>2
    <3>2. h[i] = SubSeq(xs, 2 * i - 1, to(i))
      BY <1>3
    <3> QED
      BY <1>1, <3>1, <3>2
  <2>2. \A j \in 1 .. b - a + 1 : a + j - 1 = 2 * (i - 1) + j
    BY <1>1
  <2> HIDE DEF a, b
  <2>3. \A j \in a .. b : xs[j] \in Threads
    BY <2>1
  <2>4. /\ SubSeq(xs, a, b) \in Seq(Threads) /\ Len(SubSeq(xs, a, b)) = b - a + 1
        /\ \A j \in 1 .. b - a + 1 : SubSeq(xs, a, b)[j] = xs[a + j - 1]
    BY <2>1, <2>3, SubSeqProperties
  <2> QED
    BY <2>1, <2>2, <2>4
<1>6. h \in Seq(Seq(Threads)) /\ Len(h) = H
  <2>1. h = [i \in 1 .. H |-> h[i]]
    BY <1>4 DEF h, Paired, H
  <2>2. \A i \in 1 .. H : h[i] \in Seq(Threads)
    BY <1>5
  <2>3. h \in [1 .. H -> Seq(Threads)]
    BY <2>1, <2>2
  <2> QED
    BY <1>1, <2>3
<1> QED
  BY <1>2, <1>5, <1>6 DEF h, H
LEMMA ChainCovered ==
  ASSUME ComsOK, NEW a \in 1 .. N + 1, NEW b \in a - 1 .. N, NEW xs, IsChain(xs, a, b)
  PROVE  Covers(Paired(xs), Between(a, b)) /\ Linked(Paired(xs))
<1> DEFINE h == Paired(xs)
           L == Len(xs)
           pos(i, j) == 2 * (i - 1) + j
<1>1. N \in Nat /\ a \in Int /\ b \in Int /\ 1 <= a /\ b <= N /\ L \in Nat /\ L = b - a + 1
      /\ xs \in Seq(Threads)
  BY WalkOrder DEF IsChain
<1>2. /\ h \in Seq(Seq(Threads)) /\ Len(h) = (L + 1) \div 2
      /\ \A i \in 1 .. Len(h) : /\ 2 * i - 1 \in 1 .. L
                                /\ Len(h[i]) = IF 2 * i <= L THEN 2 ELSE 1
                                /\ \A j \in 1 .. Len(h[i]) : h[i][j] = xs[pos(i, j)]
  BY <1>1, PairsOfChain
<1>2a. \A i \in 1 .. Len(h) : Len(h[i]) = IF 2 * i <= L THEN 2 ELSE 1
  BY <1>2
<1>3. Len(h) \in Nat /\ (2 * Len(h) = L \/ 2 * Len(h) = L + 1)
  BY <1>1, <1>2
<1> HIDE DEF h, L
<1>4. \A p \in 1 .. L : xs[p] = Nodes[a + p - 1] /\ a + p - 1 \in a .. b /\ a + p - 1 \in 1 .. N
  BY <1>1 DEF IsChain, L
<1>5. \A i \in 1 .. Len(h) : \A j \in 1 .. Len(h[i]) : pos(i, j) \in 1 .. L /\ j \in {1, 2}
  <2> SUFFICES ASSUME NEW i \in 1 .. Len(h), NEW j \in 1 .. Len(h[i])
               PROVE  pos(i, j) \in 1 .. L /\ j \in {1, 2}
    OBVIOUS
  <2>1. i \in Int /\ 1 <= i /\ 2 * i - 1 <= L
    BY <1>2, <1>3
  <2>2. CASE 2 * i <= L
    <3>1. Len(h[i]) = 2
      BY <1>2, <2>2
    <3>2. j = 1 \/ j = 2
      BY <3>1
    <3> QED
      BY <1>1, <2>1, <2>2, <3>2
  <2>3. CASE ~(2 * i <= L)
    <3>1. j = 1
      BY <1>2, <2>3
    <3> QED
      BY <1>1, <2>1, <3>1
  <2> QED
    BY <2>2, <2>3
<1>6. \A i \in 1 .. Len(h) : Len(h[i]) \in {1, 2}
  BY <1>2
<1>7. \A i \in 1 .. Len(h) : \A j \in 1 .. Len(h[i]) : h[i][j] \in Between(a, b)
  <2> SUFFICES ASSUME NEW i \in 1 .. Len(h), NEW j \in 1 .. Len(h[i]) PROVE h[i][j] \in Between(a, b)
    OBVIOUS
  <2>1. h[i][j] = xs[pos(i, j)] /\ pos(i, j) \in 1 .. L
    BY <1>2, <1>5
  <2> QED
    BY <1>4, <2>1 DEF Between
<1>8. \A t \in Between(a, b) : \E i \in 1 .. Len(h) : \E j \in 1 .. Len(h[i]) : h[i][j] = t
  <2> SUFFICES ASSUME NEW l \in a .. b
               PROVE  \E i \in 1 .. Len(h) : \E j \in 1 .. Len(h[i]) : h[i][j] = Nodes[l]
    BY DEF Between
  <2> DEFINE p == l - a + 1
             i == (p + 1) \div 2
             j == p - 2 * (i - 1)
  <2>1. p \in 1 .. L /\ a + p - 1 = l
    BY <1>1
  <2>2. i \in Int /\ (2 * i = p + 1 \/ 2 * i = p) /\ i \in 1 .. Len(h)
    BY <1>1, <1>3, <2>1
  <2>3. pos(i, j) = p /\ j \in 1 .. 2 /\ (j = 2 => 2 * i = p)
    BY <2>1, <2>2
  <2> HIDE DEF p, i, j
  <2>4. j \in 1 .. Len(h[i])
    <3>1. CASE j = 1
      <4>1. Len(h[i]) = 1 \/ Len(h[i]) = 2
        BY <1>6, <2>2
      <4>2. 1 \in 1 .. 1 /\ 1 \in 1 .. 2
        OBVIOUS
      <4> QED
        BY <3>1, <4>1, <4>2
    <3>2. CASE j = 2
      <4>0. 2 * i = p /\ p \in 1 .. L
        BY <2>1, <2>3, <3>2
      <4>1. 2 * i <= L
        BY <1>1, <4>0
      <4>2. Len(h[i]) = 2
        BY <1>2a, <2>2, <4>1
      <4> QED
        BY <3>2, <4>2
    <3> QED
      BY <2>3, <3>1, <3>2
  <2>5. h[i][j] = xs[p]
    BY <1>2, <2>2, <2>3, <2>4
  <2> QED
    BY <1>4, <2>1, <2>2, <2>4, <2>5
<1>9. ASSUME NEW i \in 1 .. Len(h), NEW l \in 1 .. Len(h), NEW j \in 1 .. Len(h[i]),
             NEW m \in 1 .. Len(h[l]),
             h[i][j] = h[l][m]
      PROVE  i = l /\ j = m
  <2>1. xs[pos(i, j)] = xs[pos(l, m)] /\ pos(i, j) \in 1 .. L /\ pos(l, m) \in 1 .. L
        /\ j \in {1, 2} /\ m \in {1, 2}
    BY <1>2, <1>5, <1>9
  <2>2. pos(i, j) = pos(l, m)
    <3> DEFINE s == pos(i, j)
               t == pos(l, m)
    <3>1. s \in 1 .. L /\ t \in 1 .. L /\ xs[s] = xs[t]
      BY <2>1
    <3> HIDE DEF s, t
    <3>2. Nodes[a + s - 1] = Nodes[a + t - 1] /\ a + s - 1 \in 1 .. N /\ a + t - 1 \in 1 .. N
      BY <1>4, <3>1
    <3>3. a + s - 1 = a + t - 1
      BY <3>2, WalkOrder
    <3>4. s = t
      BY <1>1, <3>1, <3>3
    <3> QED
      BY <3>4 DEF s, t
  <2> QED
    BY <1>1, <1>3, <2>1, <2>2
<1>10. Linked(h)
  <2> SUFFICES ASSUME NEW i \in 1 .. Len(h)
               PROVE  /\ Len(h[i]) = 2 => edge(h[i][1]) = "Rf" /\ h[i][2] = next(h[i][1])
                      /\ Len(h[i]) = 1 => edge(h[i][1]) # "Rf" \/ h[i][1] = Start
    BY DEF Linked
  <2>1. i \in Int /\ 1 <= i /\ 2 * i - 1 \in 1 .. L /\ pos(i, 1) = 2 * i - 1 /\ pos(i, 2) = 2 * i
    BY <1>2, <1>3
  <2>2. ASSUME Len(h[i]) = 2 PROVE edge(h[i][1]) = "Rf" /\ h[i][2] = next(h[i][1])
    <3>0. Len(h[i]) = IF 2 * i <= L THEN 2 ELSE 1
      BY <1>2a
    <3>0a. 2 * i <= L
      <4> SUFFICES ASSUME ~(2 * i <= L) PROVE FALSE
        OBVIOUS
      <4>1. Len(h[i]) = 1
        BY <3>0
      <4>2. 1 # 2
        OBVIOUS
      <4> QED
        BY <2>2, <4>1, <4>2, Zenon
    <3>1. 2 * i <= L /\ 1 \in 1 .. Len(h[i]) /\ 2 \in 1 .. Len(h[i])
      <4>1. 1 \in 1 .. 2 /\ 2 \in 1 .. 2
        OBVIOUS
      <4>2. 1 .. Len(h[i]) = 1 .. 2
        BY <2>2
      <4> QED
        BY <3>0a, <4>1, <4>2, Zenon
    <3>2. h[i][1] = xs[2 * i - 1] /\ h[i][2] = xs[2 * i]
      BY <1>2, <2>1, <3>1
    <3>3. 2 * i - 1 \in 1 .. L - 1 /\ 2 * i \in 1 .. L
      BY <1>1, <2>1, <3>1
    <3>4. edge(xs[2 * i - 1]) = "Rf"
      BY <3>3 DEF IsChain, L
    <3> DEFINE w == a + (2 * i - 1) - 1
    <3>5. w \in 1 .. N - 1 /\ w + 1 = a + 2 * i - 1 /\ xs[2 * i - 1] = Nodes[w]
      BY <1>1, <1>4, <2>1, <3>3
    <3>6. xs[2 * i] = Nodes[w + 1]
      BY <1>4, <3>3, <3>5
    <3> HIDE DEF w
    <3>7. Nodes[w + 1] = next(Nodes[w])
      BY <3>5, WalkOrder
    <3> QED
      BY <3>2, <3>4, <3>5, <3>6, <3>7
  <2>3. ASSUME Len(h[i]) = 1 PROVE edge(h[i][1]) # "Rf" \/ h[i][1] = Start
    <3>0. Len(h[i]) = IF 2 * i <= L THEN 2 ELSE 1
      BY <1>2a
    <3>1. ~(2 * i <= L) /\ 1 \in 1 .. Len(h[i])
      <4>1. 1 # 2 /\ 1 \in 1 .. 1
        OBVIOUS
      <4>2. ~(2 * i <= L)
        BY <2>3, <3>0, <4>1, Zenon
      <4>3. 1 \in 1 .. Len(h[i])
        BY <2>3, <4>1, Zenon
      <4> QED
        BY <4>2, <4>3
    <3>2. h[i][1] = xs[L] /\ L > 0 /\ L \in 1 .. L
      <4>1. 2 * i - 1 = L /\ L > 0
        BY <1>1, <2>1, <3>1
      <4> QED
        BY <1>1, <1>2, <2>1, <3>1, <4>1
    <3>3. edge(xs[L]) # "Rf" \/ b = N
      BY <3>2 DEF IsChain, L
    <3>4. xs[L] = Nodes[b]
      BY <1>1, <1>4, <3>2
    <3> QED
      BY <3>2, <3>3, <3>4, WalkOrder
  <2> QED
    BY <2>2, <2>3
<1> QED
  BY <1>2, <1>6, <1>7, <1>8, <1>9, <1>10 DEF Covers, h

-----------------------------------------------------------------------------
Base == << <<>>, <<>> >>
Accs == Seq(Threads) \X Seq(Seq(Threads))

IsWalk(g) ==
  g = [s \in SUBSET DOMAIN Nodes |-> IF s = {} THEN Base ELSE WithNode(Nodes[Min(s)], g[s \ {Min(s)}])]

LEMMA CollectIsFold ==
  FoldRight(WithNode, Nodes, << <<>>, <<>> >>) = (CHOOSE g : IsWalk(g))[DOMAIN Nodes]
  BY DEF FoldRight, MapThenFoldSet, IsWalk, Base

LEMMA PairedFirst == \A xs, ys : to2(xs, ys) = Paired(xs) \o ys
  BY DEF to2, Paired

LEMMA WalkTypes ==
  ASSUME NEW n \in Threads, NEW acc \in Accs
  PROVE  WithNode(n, acc) \in Accs
<1>1. acc[1] \in Seq(Threads) /\ acc[2] \in Seq(Seq(Threads)) /\ <<n>> \in Seq(Threads)
  BY DEF Accs
<1>2. <<n>> \o acc[1] \in Seq(Threads)
  BY <1>1
<1>3. Paired(acc[1]) \in Seq(Seq(Threads))
  BY <1>1, PairsOfChain
<1>4. Paired(acc[1]) \o acc[2] \in Seq(Seq(Threads))
  BY <1>1, <1>3, ConcatProperties
<1> QED
  BY <1>1, <1>2, <1>4, PairedFirst DEF WithNode, Accs

LEMMA WalkExists ==
  ASSUME ComsOK
  PROVE  \E g : IsWalk(g) /\ \A s \in SUBSET DOMAIN Nodes : g[s] \in Accs
<1> DEFINE D == DOMAIN Nodes
           op == [x \in D \X Accs |-> WithNode(Nodes[x[1]], x[2])]
           ch == [s \in SUBSET D |-> Min(s)]
<1>1. D = 1 .. N /\ N \in Nat /\ IsFiniteSet(D)
  BY WalkOrder, FS_Interval
<1>2. \A s \in SUBSET D : s # {} => ch[s] \in s
  BY <1>1, Extremes
<1>3. \A d \in D : \A acc \in Accs : op[<<d, acc>>] = WithNode(Nodes[d], acc) /\ op[<<d, acc>>] \in Accs
  <2>1. \A d \in D : Nodes[d] \in Threads
    BY WalkOrder
  <2>2. \A d \in D : \A acc \in Accs : <<d, acc>> \in D \X Accs /\ <<d, acc>>[1] = d /\ <<d, acc>>[2] = acc
    OBVIOUS
  <2> HIDE DEF D
  <2>3. \A d \in D : \A acc \in Accs : op[<<d, acc>>] = WithNode(Nodes[d], acc)
    BY <2>2
  <2> HIDE DEF op
  <2> QED
    BY <2>1, <2>3, WalkTypes
<1>4. Base \in Accs
  <2>1. <<>> \in Seq(Threads) /\ <<>> \in Seq(Seq(Threads))
    OBVIOUS
  <2> QED
    BY <2>1 DEF Base, Accs
<1> HIDE DEF op, ch, D
<1>5. Chooses(ch, D)
  BY <1>1, <1>2 DEF Chooses
<1>6. PICK g : IsFold(g, D, ch, Base, op)
  BY <1>5, FoldExists
<1>7. \A s \in SUBSET D : g[s] \in Accs
  BY <1>3, <1>4, <1>5, <1>6, FoldTyped
<1>8. \A s \in SUBSET D : s # {} => /\ op[<<ch[s], g[s \ {ch[s]}]>>] = WithNode(Nodes[ch[s]], g[s \ {ch[s]}])
                                    /\ ch[s] = Min(s)
  BY <1>2, <1>3, <1>7 DEF ch
<1>9. g = [s \in SUBSET D |-> IF s = {} THEN Base ELSE WithNode(Nodes[Min(s)], g[s \ {Min(s)}])]
  BY <1>6, <1>8 DEF IsFold
<1> QED
  BY <1>7, <1>9 DEF IsWalk, D

\* The walk back has reached position i.
WalkInv(acc, i) ==
  /\ acc \in Accs
  /\ \E b \in i - 1 .. N :
       /\ i <= N => i <= b
       /\ IsChain(acc[1], i, b)
       /\ Covers(acc[2], Between(b + 1, N)) /\ Linked(acc[2])

LEMMA BackOne ==
  ASSUME ComsOK, NEW i \in 1 .. N, NEW acc, WalkInv(acc, i + 1)
  PROVE  WalkInv(WithNode(Nodes[i], acc), i)
<1> DEFINE n == Nodes[i]
           xs == acc[1]
           ys == acc[2]
<1>1. n \in Threads /\ N \in Nat /\ i \in Int
  BY WalkOrder
<1>2. PICK b \in (i + 1) - 1 .. N : /\ i + 1 <= N => i + 1 <= b
                                    /\ IsChain(xs, i + 1, b)
                                    /\ Covers(ys, Between(b + 1, N)) /\ Linked(ys)
  BY DEF WalkInv
<1>3. acc \in Accs /\ WithNode(n, acc) \in Accs /\ xs \in Seq(Threads) /\ ys \in Seq(Seq(Threads))
  BY <1>1, WalkTypes DEF WalkInv, Accs
<1>4. b \in Int /\ i <= b /\ b <= N /\ Len(xs) \in Nat /\ Len(xs) = b - i
  BY <1>1, <1>2, <1>3 DEF IsChain
<1>5. CASE edge(n) = "Rf"
  <2> DEFINE zs == <<n>> \o xs
  <2>1. WithNode(n, acc) = <<zs, ys>>
    BY <1>5 DEF WithNode
  <2>2. zs \in Seq(Threads) /\ Len(zs) = Len(xs) + 1 /\ zs[1] = n
        /\ \A j \in 2 .. Len(zs) : zs[j] = xs[j - 1] /\ j - 1 \in 1 .. Len(xs)
    BY <1>1, <1>3
  <2> HIDE DEF zs
  <2>3. \A j \in 1 .. Len(zs) : j = 1 \/ j \in 2 .. Len(zs)
    BY <1>4, <2>2
  <2>4. \A j \in 1 .. Len(zs) : zs[j] = Nodes[i + j - 1]
    <3>1. \A j \in 2 .. Len(zs) : zs[j] = Nodes[i + j - 1]
      <4> SUFFICES ASSUME NEW j \in 2 .. Len(zs) PROVE zs[j] = Nodes[i + j - 1]
        OBVIOUS
      <4> DEFINE l == j - 1
      <4>0. l \in 1 .. Len(xs) /\ zs[j] = xs[l]
        BY <2>2
      <4>1. l \in 1 .. Len(xs) /\ zs[j] = xs[l] /\ (i + 1) + l - 1 = i + j - 1
        BY <1>1, <4>0
      <4> HIDE DEF l
      <4>2. xs[l] = Nodes[(i + 1) + l - 1]
        BY <1>2, <4>1 DEF IsChain
      <4> QED
        BY <4>1, <4>2
    <3>2. i + 1 - 1 = i
      BY <1>1
    <3> QED
      BY <2>2, <2>3, <3>1, <3>2
  <2>5. \A j \in 1 .. Len(zs) - 1 : edge(zs[j]) = "Rf"
    <3> SUFFICES ASSUME NEW j \in 1 .. Len(zs) - 1 PROVE edge(zs[j]) = "Rf"
      OBVIOUS
    <3>1. CASE j = 1
      BY <1>5, <2>2, <3>1
    <3>2. CASE j # 1
      <4>1. j \in 2 .. Len(zs) /\ j - 1 \in 1 .. Len(xs) - 1
        BY <1>4, <2>2, <3>2
      <4> QED
        BY <1>2, <2>2, <4>1 DEF IsChain
    <3> QED
      BY <3>1, <3>2
  <2>6. edge(zs[Len(zs)]) # "Rf" \/ b = N
    <3>1. CASE Len(xs) = 0
      <4>1. b = i
        BY <1>1, <1>4, <3>1
      <4>2. i = N
        BY <1>1, <1>2, <1>4, <4>1
      <4> QED
        BY <4>1, <4>2
    <3>2. CASE Len(xs) > 0
      <4>1. Len(zs) \in 2 .. Len(zs) /\ Len(zs) - 1 = Len(xs)
        BY <1>4, <2>2, <3>2
      <4>2. zs[Len(zs)] = xs[Len(xs)]
        BY <2>2, <4>1
      <4> QED
        BY <1>2, <3>2, <4>2 DEF IsChain
    <3> QED
      BY <1>4, <3>1, <3>2
  <2>7. IsChain(zs, i, b)
    <3>1. Len(zs) = b - i + 1
      BY <1>1, <1>4, <2>2
    <3> QED
      BY <2>2, <2>4, <2>5, <2>6, <3>1 DEF IsChain
  <2>8. <<zs, ys>>[1] = zs /\ <<zs, ys>>[2] = ys /\ b \in i - 1 .. N
    BY <1>1, <1>4
  <2> QED
    BY <1>2, <1>3, <1>4, <2>1, <2>7, <2>8 DEF WalkInv
<1>6. CASE edge(n) # "Rf"
  <2> DEFINE zs == Paired(xs) \o ys
  <2>1. WithNode(n, acc) = << <<n>>, zs>>
    BY <1>6, PairedFirst DEF WithNode
  <2>2. IsChain(<<n>>, i, i)
    <3>1. <<n>> \in Seq(Threads) /\ Len(<<n>>) = 1 /\ <<n>>[1] = n
      BY <1>1
    <3>2. i - i + 1 = 1 /\ i + 1 - 1 = i /\ 1 .. 1 = {1} /\ 1 .. 1 - 1 = {}
      BY <1>1
    <3> QED
      BY <1>6, <3>1, <3>2 DEF IsChain
  <2>3. i + 1 \in 1 .. N + 1 /\ b \in (i + 1) - 1 .. N
    BY <1>1, <1>4
  <2>4. Covers(Paired(xs), Between(i + 1, b)) /\ Linked(Paired(xs))
    BY <1>2, <2>3, ChainCovered
  <2>5. Between(i + 1, b) \cap Between(b + 1, N) = {}
    <3>1. \A l \in i + 1 .. b : l \in 1 .. N
      BY <1>1, <1>4
    <3>2. \A l \in b + 1 .. N : l \in 1 .. N
      BY <1>1, <1>4
    <3>3. \A l \in i + 1 .. b : \A m \in b + 1 .. N : l # m
      BY <1>1, <1>4
    <3> QED
      BY <3>1, <3>2, <3>3, WalkOrder DEF Between
  <2>6. Between(i + 1, b) \cup Between(b + 1, N) = Between(i + 1, N)
    <3>1. i + 1 .. N = (i + 1 .. b) \cup (b + 1 .. N)
      BY <1>1, <1>4
    <3> QED
      BY <3>1 DEF Between
  <2>7. Covers(zs, Between(i + 1, N)) /\ Linked(zs)
    BY <1>2, <2>4, <2>5, <2>6, Concatenated
  <2> HIDE DEF zs
  <2>8. << <<n>>, zs>>[1] = <<n>> /\ << <<n>>, zs>>[2] = zs /\ i \in i - 1 .. N
    BY <1>1, <1>4
  <2> QED
    BY <1>1, <1>3, <2>1, <2>2, <2>7, <2>8 DEF WalkInv
<1> QED
  BY <1>5, <1>6

LEMMA CollectCovers ==
  ASSUME ComsOK
  PROVE  Covers(collect, Threads) /\ Linked(collect)
<1> DEFINE g == CHOOSE g : IsWalk(g)
           T == {m \in 0 .. N : ~WalkInv(g[N + 1 - m .. N], N + 1 - m)}
<1>1. N \in Nat /\ N >= 2 /\ DOMAIN Nodes = 1 .. N
  BY WalkOrder
<1>2. IsWalk(g)
  BY WalkExists
<1> HIDE DEF g
<1>3. \A s \in SUBSET (1 .. N) : g[s] = IF s = {} THEN Base ELSE WithNode(Nodes[Min(s)], g[s \ {Min(s)}])
  BY <1>1, <1>2 DEF IsWalk
<1>4. WalkInv(g[N + 1 .. N], N + 1)
  <2>1. N + 1 .. N = {} /\ {} \in SUBSET (1 .. N)
    BY <1>1
  <2>2. g[N + 1 .. N] = Base
    BY <1>3, <2>1
  <2>3. Base \in Accs /\ Base[1] = <<>> /\ Base[2] = <<>>
    <3>1. <<>> \in Seq(Threads) /\ <<>> \in Seq(Seq(Threads))
      OBVIOUS
    <3> QED
      BY <3>1 DEF Base, Accs
  <2>4. IsChain(<<>>, N + 1, N)
    BY <1>1 DEF IsChain
  <2>5. Between(N + 1, N) = {}
    BY <2>1 DEF Between
  <2>6. Covers(<<>>, {}) /\ Linked(<<>>)
    BY DEF Covers, Linked
  <2>7. N \in (N + 1) - 1 .. N /\ ~(N + 1 <= N)
    BY <1>1
  <2> QED
    BY <2>2, <2>3, <2>4, <2>5, <2>6, <2>7 DEF WalkInv
<1>5. ASSUME NEW i \in 1 .. N, WalkInv(g[i + 1 .. N], i + 1) PROVE WalkInv(g[i .. N], i)
  <2>1. i \in Int /\ 1 <= i /\ i <= N
    BY <1>1
  <2>2. Min(i .. N) = i
    BY <1>1, <2>1, Least
  <2>3. i .. N # {} /\ i .. N \in SUBSET (1 .. N) /\ (i .. N) \ {i} = i + 1 .. N
    BY <1>1, <2>1
  <2>4. g[i .. N] = WithNode(Nodes[i], g[i + 1 .. N])
    BY <1>3, <2>2, <2>3
  <2> QED
    BY <1>5, <2>4, BackOne
<1>6. T = {}
  <2> SUFFICES ASSUME T # {} PROVE FALSE
    OBVIOUS
  <2>1. T \in SUBSET Nat
    BY <1>1
  <2>2. PICK m \in T : \A l \in T : m <= l
    BY <2>1, LeastNat
  <2>3. m # 0
    <3>1. N + 1 - 0 = N + 1
      BY <1>1
    <3> QED
      BY <1>4, <2>2, <3>1
  <2> DEFINE i == N + 1 - m
  <2>4. i \in 1 .. N /\ i + 1 = N + 1 - (m - 1) /\ m - 1 \in 0 .. N /\ ~(m <= m - 1)
    BY <1>1, <2>2, <2>3
  <2>5. WalkInv(g[i + 1 .. N], i + 1)
    BY <2>2, <2>4
  <2>6. ~WalkInv(g[i .. N], i)
    BY <2>2
  <2> HIDE DEF i, T
  <2> QED
    BY <1>5, <2>4, <2>5, <2>6
<1>7. WalkInv(g[1 .. N], 1)
  <2>1. N \in 0 .. N /\ N + 1 - N = 1
    BY <1>1
  <2> QED
    BY <1>6, <2>1
<1> DEFINE acc == g[1 .. N]
<1>8. collect = Paired(acc[1]) \o acc[2]
  BY <1>1, CollectIsFold, PairedFirst DEF collect, g
<1> HIDE DEF acc
<1>9. PICK b \in 1 - 1 .. N : /\ IsChain(acc[1], 1, b)
                              /\ Covers(acc[2], Between(b + 1, N)) /\ Linked(acc[2])
  BY <1>7 DEF WalkInv, acc
<1>10. b \in Int /\ b \in 1 - 1 .. N /\ 1 \in 1 .. N + 1
  BY <1>1
<1>11. Covers(Paired(acc[1]), Between(1, b)) /\ Linked(Paired(acc[1]))
  BY <1>9, <1>10, ChainCovered
<1>12. Between(1, b) \cap Between(b + 1, N) = {} /\ Between(1, b) \cup Between(b + 1, N) = Threads
  <2>1. \A l \in 1 .. b : l \in 1 .. N
    BY <1>1, <1>10
  <2>2. \A l \in b + 1 .. N : l \in 1 .. N
    BY <1>1, <1>10
  <2>3. \A l \in 1 .. b : \A m \in b + 1 .. N : l # m
    BY <1>1, <1>10
  <2>4. \A l \in 1 .. N : l \in 1 .. b \/ l \in b + 1 .. N
    BY <1>1, <1>10
  <2>5. Between(1, b) \cap Between(b + 1, N) = {}
    BY <2>1, <2>2, <2>3, WalkOrder DEF Between
  <2>6. Threads \subseteq Between(1, b) \cup Between(b + 1, N)
    <3> SUFFICES ASSUME NEW t \in Threads PROVE t \in Between(1, b) \cup Between(b + 1, N)
      OBVIOUS
    <3>1. PICK l \in 1 .. N : Nodes[l] = t
      BY WalkOrder
    <3> QED
      BY <2>4, <3>1 DEF Between
  <2>7. Between(1, b) \cup Between(b + 1, N) \subseteq Threads
    BY <2>1, <2>2, WalkOrder DEF Between
  <2> QED
    BY <2>5, <2>6, <2>7
<1> QED
  BY <1>8, <1>9, <1>11, <1>12, Concatenated

-----------------------------------------------------------------------------
\* Its pairs are linked by an Rf, and so is the whole cycle if it has two
\* threads.
WellPaired(xs) ==
  \A i \in 1 .. Len(xs) :
    Len(xs[i]) = 2 =>
      /\ edge(xs[i][1]) = "Rf" /\ xs[i][2] = next(xs[i][1])
      /\ N = 2 => \A t \in Threads : edge(t) = "Rf"

\* Threads left alone have no Rf after them, but for the last one.
WellAlone(xs) ==
  \A i \in 1 .. Len(xs) : Len(xs[i]) = 1 => edge(xs[i][1]) # "Rf" \/ xs[i][1] = Start

LEMMA TwoThreads ==
  ASSUME ComsOK
  PROVE  /\ N \in Nat /\ N >= 2 /\ 0 \in Threads /\ 1 \in Threads
         /\ N = 2 => Threads = {0, 1} /\ next(0) = 1 /\ next(1) = 0
         /\ N # 2 => 2 \in Threads
<1>1. N \in Nat /\ N >= 2
  BY DEF ComsOK, N
<1>2. N = 2 => next(0) = 1 /\ next(1) = 0
  BY DEF next
<1> QED
  BY <1>1, <1>2 DEF Threads

\* A thread has one place.
LEMMA OnePlace ==
  ASSUME NEW A, NEW xs, Covers(xs, A), NEW i \in 1 .. Len(xs), NEW l \in 1 .. Len(xs),
         NEW j \in 1 .. Len(xs[i]), NEW m \in 1 .. Len(xs[l]), xs[i][j] = xs[l][m]
  PROVE  i = l /\ j = m
  BY DEF Covers

\* A chain of two threads is cut if it is the whole cycle and has another edge
\* than an Rf.
LEMMA SplitCovers ==
  ASSUME ComsOK
  PROVE  LET xs == Split(collect) IN
         /\ Covers(xs, Threads) /\ WellPaired(xs)
         /\ N > 2 => WellAlone(xs)
<1> DEFINE xs == collect
           Cut == Len(xs) = 1 /\ Len(xs[1]) = 2 /\ (\E p \in 0 .. N - 1 : is_not_rf(edge(p)))
<1>1. Covers(xs, Threads) /\ Linked(xs)
  BY CollectCovers
<1>2. N \in Nat /\ N >= 2
  BY TwoThreads
<1> HIDE DEF xs
<1>3. CASE Cut
  <2> DEFINE a == xs[1][1]
             b == xs[1][2]
             zs == << <<a>>, <<b>> >>
  <2>1. 1 \in 1 .. Len(xs) /\ 1 \in 1 .. Len(xs[1]) /\ 2 \in 1 .. Len(xs[1]) /\ xs[1] \in Seq(Threads)
    BY <1>1, <1>3 DEF Covers
  <2>2. a \in Threads /\ b \in Threads
    BY <2>1
  <2>3. a # b
    BY <1>1, <2>1 DEF Covers
  <2>4. \A t \in Threads : t = a \/ t = b
    <3> SUFFICES ASSUME NEW t \in Threads PROVE t = a \/ t = b
      OBVIOUS
    <3>1. PICK i \in 1 .. Len(xs) : \E j \in 1 .. Len(xs[i]) : xs[i][j] = t
      BY <1>1 DEF Covers
    <3>2. i = 1
      BY <1>3
    <3>3. PICK j \in 1 .. Len(xs[1]) : xs[1][j] = t
      BY <3>1, <3>2
    <3>4. j = 1 \/ j = 2
      BY <1>3
    <3> QED
      BY <3>3, <3>4
  <2>5. Split(collect) = zs
    BY <1>3 DEF Split, xs
  <2> HIDE DEF a, b
  <2>6. zs \in Seq(Seq(Threads)) /\ Len(zs) = 2 /\ zs[1] = <<a>> /\ zs[2] = <<b>>
        /\ Len(zs[1]) = 1 /\ Len(zs[2]) = 1 /\ zs[1][1] = a /\ zs[2][1] = b
    BY <2>2
  <2> HIDE DEF zs
  <2>7. \A i \in 1 .. Len(zs) : i \in {1, 2} /\ Len(zs[i]) = 1 /\ 1 .. Len(zs[i]) = {1}
                                /\ zs[i][1] = IF i = 1 THEN a ELSE b
    <3>1. \A i \in 1 .. 2 : i = 1 \/ i = 2
      OBVIOUS
    <3>2. 1 .. 1 = {1}
      OBVIOUS
    <3>3. \A i \in 1 .. Len(zs) : i = 1 \/ i = 2
      BY <2>6, <3>1, Zenon
    <3>4. \A i \in 1 .. Len(zs) : Len(zs[i]) = 1
      BY <2>6, <3>3, Zenon
    <3>5. \A i \in 1 .. Len(zs) : 1 .. Len(zs[i]) = {1}
      BY <3>2, <3>4, Zenon
    <3>6. \A i \in 1 .. Len(zs) : zs[i][1] = IF i = 1 THEN a ELSE b
      BY <2>6, <3>3
    <3> QED
      BY <3>3, <3>4, <3>5, <3>6, Zenon
  <2>8. 1 \in 1 .. Len(zs) /\ 2 \in 1 .. Len(zs) /\ 1 \in 1 .. Len(zs[1]) /\ 1 \in 1 .. Len(zs[2])
    BY <2>6
  <2>9. Covers(zs, Threads)
    <3>1. \A i \in 1 .. Len(zs) : Len(zs[i]) \in {1, 2}
      BY <2>7
    <3>2. \A i \in 1 .. Len(zs) : \A j \in 1 .. Len(zs[i]) : zs[i][j] \in Threads
      BY <2>2, <2>7
    <3>3. \A t \in Threads : \E i \in 1 .. Len(zs) : \E j \in 1 .. Len(zs[i]) : zs[i][j] = t
      BY <2>4, <2>6, <2>8
    <3>4. \A i, l \in 1 .. Len(zs) : \A j \in 1 .. Len(zs[i]) : \A m \in 1 .. Len(zs[l]) :
            zs[i][j] = zs[l][m] => i = l /\ j = m
      BY <2>3, <2>7
    <3> QED
      BY <2>6, <3>1, <3>2, <3>3, <3>4 DEF Covers
  <2>10. WellPaired(zs)
    BY <2>7 DEF WellPaired
  <2>11. N = 2
    <3>1. CASE N # 2
      <4>1. 0 \in Threads /\ 1 \in Threads /\ 2 \in Threads
        BY <3>1, TwoThreads
      <4> QED
        BY <2>4, <4>1
    <3> QED
      BY <3>1
  <2> QED
    BY <2>5, <2>9, <2>10, <2>11
<1>4. CASE ~Cut
  <2>1. Split(collect) = xs
    BY <1>4 DEF Split, xs
  <2>2. WellAlone(xs)
    BY <1>1 DEF WellAlone, Linked
  <2>3. ASSUME NEW i \in 1 .. Len(xs), Len(xs[i]) = 2, N = 2, NEW t \in Threads
        PROVE  edge(t) = "Rf"
    <3>1. 1 \in 1 .. Len(xs[i]) /\ 2 \in 1 .. Len(xs[i]) /\ Len(xs) \in Nat
      BY <2>3, <1>1 DEF Covers
    <3>2. xs[i][1] \in {0, 1} /\ xs[i][2] \in {0, 1} /\ xs[i][1] # xs[i][2]
      <4>1. xs[i][1] \in Threads /\ xs[i][2] \in Threads
        BY <1>1, <3>1 DEF Covers
      <4>2. xs[i][1] # xs[i][2]
        <5>1. CASE xs[i][1] = xs[i][2]
          <6>1. 1 = 2
            BY <1>1, <3>1, <5>1, OnePlace
          <6> QED
            BY <6>1
        <5> QED
          BY <5>1
      <4> QED
        BY <2>3, <4>1, <4>2, TwoThreads
    <3>3. \A l \in 1 .. Len(xs) : l = i
      <4> SUFFICES ASSUME NEW l \in 1 .. Len(xs) PROVE l = i
        OBVIOUS
      <4>1. 1 \in 1 .. Len(xs[l])
        <5>1. Len(xs[l]) = 1 \/ Len(xs[l]) = 2
          BY <1>1 DEF Covers
        <5> QED
          BY <5>1
      <4>2. xs[l][1] \in {0, 1}
        BY <1>1, <2>3, <4>1, TwoThreads DEF Covers
      <4>3. xs[l][1] = xs[i][1] \/ xs[l][1] = xs[i][2]
        BY <3>2, <4>2
      <4>4. i \in 1 .. Len(xs) /\ 1 \in 1 .. Len(xs[i]) /\ 2 \in 1 .. Len(xs[i])
        BY <3>1
      <4> QED
        BY <1>1, <4>1, <4>3, <4>4, OnePlace
    <3>4. Len(xs) = 1 /\ i = 1
      <4>1. 1 \in 1 .. Len(xs) /\ Len(xs) \in 1 .. Len(xs)
        BY <3>1
      <4> QED
        BY <3>3, <4>1
    <3>5. \A p \in 0 .. N - 1 : edge(p) = "Rf"
      BY <1>4, <2>3, <3>4 DEF is_not_rf
    <3> QED
      BY <3>5 DEF Threads
  <2>4. WellPaired(xs)
    BY <1>1, <2>3 DEF WellPaired, Linked
  <2> QED
    BY <1>1, <2>1, <2>2, <2>4
<1> QED
  BY <1>3, <1>4

-----------------------------------------------------------------------------
\* The threads of the classes that are in S.
In(xs, S) == {xs[i][j] : i \in {i \in 1 .. Len(xs) : xs[i] \in S}, j \in {1, 2}}

\* The threads of the classes of length n.
OfLength(xs, n) ==
  {t \in Threads : \E i \in 1 .. Len(xs) : Len(xs[i]) = n /\ \E j \in 1 .. Len(xs[i]) : xs[i][j] = t}

LEMMA SelectionCovers ==
  ASSUME NEW xs, Covers(xs, Threads), NEW n \in {1, 2}
  PROVE  LET ys == ofSize(xs, n) IN
         /\ Covers(ys, OfLength(xs, n))
         /\ \A i \in 1 .. Len(ys) : Len(ys[i]) = n /\ \E l \in 1 .. Len(xs) : ys[i] = xs[l]
<1> DEFINE S == {x \in ToSet(xs) : Len(x) = n}
           ys == ofSize(xs, n)
<1>1. xs \in Seq(Seq(Threads))
  BY DEF Covers
<1>2. ys \in Seq(Seq(Threads)) /\ \E at : IsSelection(ys, at, xs, S, Len(xs))
  <2>1. ys = Only(xs, S)
    BY DEF ofSize
  <2> HIDE DEF S, ys
  <2> QED
    BY <1>1, <2>1, Selection
<1> HIDE DEF ys
<1>3. PICK at : IsSelection(ys, at, xs, S, Len(xs))
  BY <1>2
<1>4. \A i \in 1 .. Len(ys) : at[i] \in 1 .. Len(xs) /\ ys[i] = xs[at[i]] /\ Len(ys[i]) = n
  BY <1>3 DEF IsSelection
<1>5. \A i \in 1 .. Len(xs) : xs[i] \in S <=> Len(xs[i]) = n
  BY <1>1 DEF ToSet
<1> HIDE DEF S
<1>6. \A i \in 1 .. Len(ys) : \A j \in 1 .. Len(ys[i]) : ys[i][j] \in OfLength(xs, n)
  <2> SUFFICES ASSUME NEW i \in 1 .. Len(ys), NEW j \in 1 .. Len(ys[i])
               PROVE  ys[i][j] \in OfLength(xs, n)
    OBVIOUS
  <2> DEFINE l == at[i]
  <2>1. l \in 1 .. Len(xs) /\ ys[i] = xs[l] /\ Len(xs[l]) = n /\ j \in 1 .. Len(xs[l])
    <3>1. l \in 1 .. Len(xs) /\ ys[i] = xs[l] /\ Len(ys[i]) = n
      BY <1>4
    <3> HIDE DEF l
    <3> QED
      BY <3>1
  <2> HIDE DEF l
  <2>2. xs[l][j] \in Threads
    BY <2>1 DEF Covers
  <2> QED
    BY <2>1, <2>2 DEF OfLength
<1>7. \A t \in OfLength(xs, n) : \E i \in 1 .. Len(ys) : \E j \in 1 .. Len(ys[i]) : ys[i][j] = t
  <2> SUFFICES ASSUME NEW t \in OfLength(xs, n)
               PROVE  \E i \in 1 .. Len(ys) : \E j \in 1 .. Len(ys[i]) : ys[i][j] = t
    OBVIOUS
  <2>1. PICK l \in 1 .. Len(xs) : Len(xs[l]) = n /\ \E j \in 1 .. Len(xs[l]) : xs[l][j] = t
    BY DEF OfLength
  <2>2. PICK i \in 1 .. Len(ys) : at[i] = l
    BY <1>3, <1>5, <2>1 DEF IsSelection
  <2>3. ys[i] = xs[l]
    BY <1>4, <2>2
  <2> QED
    BY <2>1, <2>3
<1>8. ASSUME NEW i \in 1 .. Len(ys), NEW l \in 1 .. Len(ys), NEW j \in 1 .. Len(ys[i]),
             NEW m \in 1 .. Len(ys[l]), ys[i][j] = ys[l][m]
      PROVE  i = l /\ j = m
  <2> DEFINE a == at[i]
             b == at[l]
  <2>1. a \in 1 .. Len(xs) /\ b \in 1 .. Len(xs) /\ ys[i] = xs[a] /\ ys[l] = xs[b]
    BY <1>4
  <2>2. a = b => i = l
    BY <1>3 DEF IsSelection
  <2> HIDE DEF a, b
  <2>3. j \in 1 .. Len(xs[a]) /\ m \in 1 .. Len(xs[b]) /\ xs[a][j] = xs[b][m]
    BY <1>8, <2>1
  <2>4. a = b /\ j = m
    BY <2>1, <2>3, OnePlace
  <2> QED
    BY <2>2, <2>4
<1>9. \A i \in 1 .. Len(ys) : Len(ys[i]) \in {1, 2}
  BY <1>4
<1>10. \A i \in 1 .. Len(ys) : Len(ys[i]) = n /\ \E l \in 1 .. Len(xs) : ys[i] = xs[l]
  BY <1>4
<1>11. Covers(ys, OfLength(xs, n))
  BY <1>2, <1>6, <1>7, <1>8, <1>9 DEF Covers
<1> QED
  BY <1>10, <1>11 DEF ys, S

\* compute only changes the order of the classes.
LEMMA ComputeCovers ==
  ASSUME ComsOK
  PROVE  /\ Covers(compute, Threads) /\ WellPaired(compute)
         /\ N > 2 => WellAlone(compute)
<1> DEFINE xs == Split(collect)
           ps == ofSize(xs, 2)
           ss == ofSize(xs, 1)
<1>1. Covers(xs, Threads) /\ WellPaired(xs) /\ (N > 2 => WellAlone(xs))
  BY SplitCovers
<1>2. compute = ps \o ss
  BY DEF compute
<1> HIDE DEF xs
<1>3. /\ Covers(ps, OfLength(xs, 2)) /\ Covers(ss, OfLength(xs, 1))
      /\ \A i \in 1 .. Len(ps) : \E l \in 1 .. Len(xs) : ps[i] = xs[l]
      /\ \A i \in 1 .. Len(ss) : \E l \in 1 .. Len(xs) : ss[i] = xs[l]
  BY <1>1, SelectionCovers
<1> HIDE DEF ps, ss
<1>4. OfLength(xs, 2) \cap OfLength(xs, 1) = {}
  <2> SUFFICES ASSUME NEW t \in OfLength(xs, 2), t \in OfLength(xs, 1) PROVE FALSE
    OBVIOUS
  <2>1. PICK i \in 1 .. Len(xs) : Len(xs[i]) = 2 /\ \E j \in 1 .. Len(xs[i]) : xs[i][j] = t
    BY DEF OfLength
  <2>2. PICK l \in 1 .. Len(xs) : Len(xs[l]) = 1 /\ \E j \in 1 .. Len(xs[l]) : xs[l][j] = t
    BY DEF OfLength
  <2>3. i = l
    <3>1. PICK j \in 1 .. Len(xs[i]) : xs[i][j] = t
      BY <2>1
    <3>2. PICK m \in 1 .. Len(xs[l]) : xs[l][m] = t
      BY <2>2
    <3> QED
      BY <1>1, <3>1, <3>2, OnePlace
  <2>4. 1 # 2
    OBVIOUS
  <2> QED
    BY <2>1, <2>2, <2>3, <2>4, Zenon
<1>5. OfLength(xs, 2) \cup OfLength(xs, 1) = Threads
  <2>1. ASSUME NEW t \in Threads PROVE t \in OfLength(xs, 2) \cup OfLength(xs, 1)
    <3>1. PICK i \in 1 .. Len(xs) : \E j \in 1 .. Len(xs[i]) : xs[i][j] = t
      BY <1>1 DEF Covers
    <3>2. Len(xs[i]) = 1 \/ Len(xs[i]) = 2
      BY <1>1 DEF Covers
    <3> QED
      BY <3>1, <3>2 DEF OfLength
  <2> QED
    BY <2>1 DEF OfLength
<1>6. Covers(compute, Threads)
  BY <1>2, <1>3, <1>4, <1>5, Concatenated
<1>7. \A i \in 1 .. Len(compute) : \E l \in 1 .. Len(xs) : compute[i] = xs[l]
  <2> SUFFICES ASSUME NEW i \in 1 .. Len(compute) PROVE \E l \in 1 .. Len(xs) : compute[i] = xs[l]
    OBVIOUS
  <2>1. /\ ps \in Seq(Seq(Threads)) /\ ss \in Seq(Seq(Threads))
        /\ Len(ps) \in Nat /\ Len(ss) \in Nat
    BY <1>3 DEF Covers
  <2>2. Len(compute) = Len(ps) + Len(ss) /\ compute[i] = IF i <= Len(ps) THEN ps[i] ELSE ss[i - Len(ps)]
    BY <1>2, <2>1, ConcatProperties
  <2>3. CASE i <= Len(ps)
    <3>1. i \in 1 .. Len(ps) /\ compute[i] = ps[i]
      BY <2>1, <2>2, <2>3
    <3> QED
      BY <1>3, <3>1
  <2>4. CASE ~(i <= Len(ps))
    <3>1. i - Len(ps) \in 1 .. Len(ss) /\ compute[i] = ss[i - Len(ps)]
      BY <2>1, <2>2, <2>4
    <3> QED
      BY <1>3, <3>1
  <2> QED
    BY <2>3, <2>4
<1>8. WellPaired(compute)
  BY <1>1, <1>7 DEF WellPaired
<1>9. N > 2 => WellAlone(compute)
  BY <1>1, <1>7 DEF WellAlone
<1> QED
  BY <1>6, <1>8, <1>9

LEMMA ClassesCompatible ==
  ASSUME ComsOK
  PROVE  Compatible /\ RfPaired
<1> DEFINE xs == compute
<1>1. Covers(xs, Threads) /\ WellPaired(xs) /\ (N > 2 => WellAlone(xs))
  BY ComputeCovers
<1>2. xs \in Seq(Seq(Threads)) /\ DOMAIN xs = 1 .. Len(xs)
  BY <1>1 DEF Covers
<1> HIDE DEF xs
<1>3. Partition
  <2> DEFINE places(p) == {x \in (DOMAIN xs) \X {1, 2} : x[2] <= Len(xs[x[1]]) /\ xs[x[1]][x[2]] = p}
  <2> SUFFICES ASSUME NEW p \in Threads PROVE Cardinality(places(p)) = 1
    BY DEF Partition, Threads, xs
  <2>1. PICK i \in 1 .. Len(xs) : \E j \in 1 .. Len(xs[i]) : xs[i][j] = p
    BY <1>1 DEF Covers
  <2>2. PICK j \in 1 .. Len(xs[i]) : xs[i][j] = p
    BY <2>1
  <2>3. \A l \in 1 .. Len(xs) : Len(xs[l]) = 1 \/ Len(xs[l]) = 2
    BY <1>1 DEF Covers
  <2>4. j \in {1, 2} /\ j <= Len(xs[i])
    BY <2>2, <2>3
  <2>5. <<i, j>> \in places(p)
    BY <1>2, <2>2, <2>4
  <2>6. \A x \in places(p) : x = <<i, j>>
    <3> SUFFICES ASSUME NEW l \in 1 .. Len(xs), NEW m \in {1, 2}, m <= Len(xs[l]), xs[l][m] = p
                 PROVE  l = i /\ m = j
      BY <1>2
    <3>1. m \in 1 .. Len(xs[l])
      BY <2>3
    <3> QED
      BY <1>1, <2>2, <3>1, OnePlace
  <2>7. places(p) = {<<i, j>>}
    <3> HIDE DEF places
    <3> QED
      BY <2>5, <2>6
  <2> HIDE DEF places
  <2> QED
    BY <2>7, FS_Singleton
<1>4. \A i \in 1 .. Len(xs) : Len(xs[i]) = 2 => xs[i][1] \in Threads /\ xs[i][2] \in Threads
  <2> SUFFICES ASSUME NEW i \in 1 .. Len(xs), Len(xs[i]) = 2
               PROVE  xs[i][1] \in Threads /\ xs[i][2] \in Threads
    OBVIOUS
  <2>1. 1 \in 1 .. Len(xs[i]) /\ 2 \in 1 .. Len(xs[i])
    OBVIOUS
  <2> QED
    BY <1>1, <2>1 DEF Covers
<1>5. \A d \in Pairs : /\ edge(d[1]) = "Rf" /\ d[2] = next(d[1])
                       /\ d[1] \in Threads /\ d[2] \in Threads
                       /\ N = 2 => \A t \in Threads : edge(t) = "Rf"
  <2> SUFFICES ASSUME NEW d \in Pairs
               PROVE  /\ edge(d[1]) = "Rf" /\ d[2] = next(d[1])
                      /\ d[1] \in Threads /\ d[2] \in Threads
                      /\ N = 2 => \A t \in Threads : edge(t) = "Rf"
    OBVIOUS
  <2>1. PICK i \in 1 .. Len(xs) : d = xs[i] /\ Len(xs[i]) = 2
    BY <1>2 DEF Pairs, ToSet, xs
  <2> QED
    BY <1>1, <1>4, <2>1 DEF WellPaired
<1>6. \A e \in collect_fr : edge(e[1]) = "Fr" /\ e[2] = next(e[1]) /\ e[1] \in Threads
  BY DEF collect_fr, Threads
<1>7. ASSUME NEW d \in Pairs PROVE <<d[1], d[2]>> \notin collect_fr /\ <<d[2], d[1]>> \notin collect_fr
  <2>1. <<d[1], d[2]>> \notin collect_fr
    <3>1. CASE <<d[1], d[2]>> \in collect_fr
      <4>1. edge(d[1]) = "Fr"
        BY <1>6, <3>1
      <4> QED
        BY <1>5, <1>7, <4>1
    <3> QED
      BY <3>1
  <2>2. CASE <<d[2], d[1]>> \in collect_fr
    <3>1. edge(d[2]) = "Fr" /\ d[1] = next(d[2]) /\ d[2] = next(d[1])
      BY <1>5, <1>6, <1>7, <2>2
    <3>2. N = 2
      <4>1. d[1] \in 0 .. N - 1 /\ d[2] \in 0 .. N - 1 /\ N \in Nat /\ N >= 2
        BY <1>5, <1>7, TwoThreads DEF Threads
      <4>2. \A t \in 0 .. N - 1 : next(t) = IF t + 1 = N THEN 0 ELSE t + 1
        <5> SUFFICES ASSUME NEW t \in 0 .. N - 1 PROVE next(t) = IF t + 1 = N THEN 0 ELSE t + 1
          OBVIOUS
        <5>1. (t + 1 \in 0 .. N - 1 \/ t + 1 \in N .. 2 * N - 1) /\ t + 1 \in Int /\ N > 0
          BY <4>1
        <5> QED
          BY <4>1, <5>1, Wraps DEF next
      <4>3. d[2] = (IF d[1] + 1 = N THEN 0 ELSE d[1] + 1) /\ d[1] = IF d[2] + 1 = N THEN 0 ELSE d[2] + 1
        BY <3>1, <4>1, <4>2
      <4> QED
        BY <4>1, <4>3
    <3>3. edge(d[2]) = "Rf"
      BY <1>5, <1>7, <3>2
    <3> QED
      BY <3>1, <3>3
  <2> QED
    BY <2>1, <2>2
<1>8. Compatible
  BY <1>3, <1>7 DEF Compatible
<1>9. ASSUME N > 2, {"Fr", "Ws"} \cap ToSet(coms) # {}, NEW p \in 0 .. N - 1, edge(p) = "Rf",
             <<p>> \in ToSet(compute)
      PROVE  <<next(p)>> \notin ToSet(compute)
  <2>1. PICK i \in 1 .. Len(xs) : xs[i] = <<p>>
    BY <1>2, <1>9 DEF ToSet, xs
  <2>2. Len(xs[i]) = 1 /\ xs[i][1] = p
    BY <2>1
  <2>3. p = Start
    BY <1>1, <1>9, <2>2 DEF WellAlone
  <2> QED
    BY <1>9, <2>3, StartIsNode
<1>10. RfPaired
  BY <1>5, <1>9 DEF RfPaired
<1> QED
  BY <1>8, <1>10

-----------------------------------------------------------------------------
(***************************************************************************)
(* Placement in mode custom.  A processor is on the list of one core or    *)
(* has been given to one thread, through classes placed together, class    *)
(* after class, instance after instance, and classes placed one thread at  *)
(* a time.  What makes it inductive: the threads that are still to be      *)
(* placed have no processor, each of them is in one place of the classes   *)
(* to come, and run starts from lists that the core map separates.         *)
(***************************************************************************)
\* The test does not change.
JobInv == \E j \in Jobs : coms = j.coms /\ def = j.def

\* The options that run starts from.
OptsInv ==
  /\ {"avail", "n_exe", "aff_incr", "aff_cpus"} \subseteq DOMAIN opts
  /\ opts.avail \in Int /\ opts.n_exe \in Int /\ opts.aff_incr \in Int
  /\ opts.aff_cpus \in Seq(Nat)

\* Nothing is placed before the command line is read.
BeforeInv == outcome # "running" => /\ cmd.mode = "none" /\ ~fatal
                                    /\ k = 0 /\ q = 1 /\ solo = <<>>

\* The threads of instance i that are still to be placed.
Pending(i, t) ==
  \/ i > k
  \/ i = k /\ \/ \E l \in q + 1 .. Len(color) : t \in Range(color[l])
              \/ t \in Range(IF solo = <<>> THEN color[q] ELSE solo)

\* A processor is on the list of one core, once, or is given to one thread.
FreeOnce == \A c, d \in Cores : \A i \in 1 .. Len(core[c]) : \A j \in 1 .. Len(core[d]) :
              core[c][i] = core[d][j] => c = d /\ i = j
TakenOnce == \A s, t \in Slots : aff_cpus[s] = aff_cpus[t] /\ aff_cpus[s] # -1 => s = t
FreeOrTaken == \A c \in Cores : \A i \in 1 .. Len(core[c]) : \A s \in Slots : core[c][i] # aff_cpus[s]
NoneLost == \A p \in Procs : \/ \E c \in Cores : \E i \in 1 .. Len(core[c]) : core[c][i] = p
                             \/ \E s \in Slots : aff_cpus[s] = p

PlaceTypeOK ==
  /\ cmd.n_exe \in Int /\ all_cpus_sz \in Nat /\ -1 \notin Procs
  /\ aff_cpus \in [Slots -> Procs \cup {-1}]
  /\ core \in [Cores -> Seq(Procs)] /\ \A c \in Cores : Len(core[c]) <= all_cpus_sz
  /\ k \in Nat /\ q \in 1 .. Len(color)

SoloInv ==
  /\ solo \in Seq(Threads)
  /\ \A i, j \in 1 .. Len(solo) : solo[i] = solo[j] => i = j
  /\ \A i \in 1 .. Len(solo) : solo[i] \in Range(color[q])

OwnInv == FreeOnce /\ TakenOnce /\ FreeOrTaken /\ NoneLost

PendingInv == \A i \in Insts : \A t \in Threads : Pending(i, t) => Of(i, t) = -1

CustomOK  == PlaceTypeOK /\ SoloInv /\ OwnInv /\ PendingInv
CustomInv == cmd.mode = "custom" => CustomOK

ExhaustedInv == fatal => cmd.mode = "custom" /\ \A c \in Cores : core[c] = <<>>

PlacementInv == JobInv /\ OptsInv /\ BeforeInv /\ CustomInv /\ ExhaustedInv

\* The classes, as a list that does not change.
LEMMA SameClasses ==
  ASSUME coms' = coms
  PROVE  compute' = compute /\ N' = N
<1>1. N' = N /\ (\A p : edge(p)' = edge(p)) /\ Start' = Start
  <2>1. N' = N
    BY DEF N
  <2>2. \A p : edge(p)' = edge(p)
    BY DEF edge
  <2>3. Start' = Start
    BY DEF Start, SelectInSeq
  <2> QED
    BY <2>1, <2>2, <2>3
<1>2. Nodes' = Nodes
  BY <1>1 DEF Nodes
<1>3. collect' = collect
  BY <1>1, <1>2 DEF collect, FoldRight, MapThenFoldSet, WithNode
<1>4. Split(collect)' = Split(collect)
  BY <1>1, <1>3 DEF Split
<1> QED
  BY <1>1, <1>4 DEF compute

LEMMA SlotsApart ==
  ASSUME N \in Nat, N > 0, cmd.n_exe \in Int
  PROVE  /\ \A i \in Insts : \A t \in Threads : i \in Nat /\ Slot(i, t) \in Slots
         /\ \A i, j \in Nat : \A t, u \in Threads : Slot(i, t) = Slot(j, u) => i = j /\ t = u
<1>1. ASSUME NEW i \in Insts, NEW t \in Threads PROVE i \in Nat /\ Slot(i, t) \in Slots
  <2> DEFINE n == cmd.n_exe
  <2>1. i \in Nat /\ n \in Int /\ i + 1 <= n /\ t \in Nat /\ t < N
    BY <1>1 DEF Insts, Threads
  <2> HIDE DEF n
  <2>2. (i + 1) * N <= n * N
    BY <2>1
  <2>3. (i + 1) * N = i * N + N /\ n * N = N * n /\ i * N \in Nat /\ N * n \in Int
    BY <2>1
  <2>4. i * N + t \in 0 .. N * n - 1
    BY <2>1, <2>2, <2>3
  <2> QED
    BY <2>1, <2>4 DEF Slot, Slots, n
<1>2. ASSUME NEW i \in Nat, NEW j \in Nat, NEW t \in Threads, NEW u \in Threads, Slot(i, t) = Slot(j, u)
      PROVE  i = j /\ t = u
  <2>1. i * N + t = j * N + u /\ t \in 0 .. N - 1 /\ u \in 0 .. N - 1
    BY <1>2 DEF Slot, Threads
  <2>2. N * i + t = N * j + u /\ i \in Int /\ j \in Int /\ N * i + t \in Int
    BY <2>1
  <2>3. N * i + t = N * i + t /\ N * i + t = N * j + u
    BY <2>2
  <2>4. i = (N * i + t) \div N /\ t = (N * i + t) % N /\ j = (N * i + t) \div N /\ u = (N * i + t) % N
    BY <2>1, <2>2, <2>3, Division
  <2> QED
    BY <2>4
<1> QED
  BY <1>1, <1>2

-----------------------------------------------------------------------------
\* The threads ts of an instance that has placed none of them get processors.
Placeable(ts) ==
  /\ ts \in Seq(Threads)
  /\ \A i, j \in 1 .. Len(ts) : ts[i] = ts[j] => i = j
  /\ \A i \in 1 .. Len(ts) : Of(k, ts[i]) = -1

LEMMA TakeEffect ==
  ASSUME PlaceTypeOK, N \in Nat, N > 0, k \in Insts, cmd.mode = "custom",
         NEW c \in Cores, NEW ts, Placeable(ts), Len(ts) <= Len(core[c]), Take(c, ts)
  PROVE  /\ aff_cpus' \in [Slots -> Procs \cup {-1}]
         /\ \A i \in 1 .. Len(ts) : /\ Slot(k, ts[i]) \in Slots /\ aff_cpus[Slot(k, ts[i])] = -1
                                    /\ Len(core[c]) - i + 1 \in 1 .. Len(core[c])
                                    /\ aff_cpus'[Slot(k, ts[i])] = core[c][Len(core[c]) - i + 1]
         /\ \A s \in Slots : (\A i \in 1 .. Len(ts) : s # Slot(k, ts[i])) => aff_cpus'[s] = aff_cpus[s]
         /\ core' \in [Cores -> Seq(Procs)]
         /\ \A d \in Cores : d # c => core'[d] = core[d]
         /\ Len(core'[c]) = Len(core[c]) - Len(ts)
         /\ \A i \in 1 .. Len(core'[c]) : i \in 1 .. Len(core[c]) /\ core'[c][i] = core[c][i]
<1> DEFINE L == Len(core[c])
           ps == Reverse(core[c])
           at(s) == CHOOSE i \in DOMAIN ts : s = Slot(k, ts[i])
           new(s) == IF \E i \in DOMAIN ts : s = Slot(k, ts[i]) THEN ps[at(s)] ELSE aff_cpus[s]
<1>1. /\ core[c] \in Seq(Procs) /\ L \in Nat /\ ts \in Seq(Threads) /\ Len(ts) \in Nat /\ DOMAIN ts = 1 .. Len(ts)
      /\ \A i \in 1 .. L : core[c][i] \in Procs
  BY DEF PlaceTypeOK, Placeable
<1>2. \A i \in 1 .. L : ps[i] = core[c][L - i + 1] /\ L - i + 1 \in 1 .. L
  BY <1>1 DEF Reverse
<1>3. aff_cpus' = [s \in Slots |-> new(s)]
  BY DEF Take, PlaceTypeOK
<1>4. \A i \in 1 .. Len(ts) : ts[i] \in Threads /\ Slot(k, ts[i]) \in Slots /\ aff_cpus[Slot(k, ts[i])] = -1
  BY <1>1, SlotsApart DEF Placeable, PlaceTypeOK, Of
<1>5. \A i \in 1 .. Len(ts) : at(Slot(k, ts[i])) = i
  <2> SUFFICES ASSUME NEW i \in 1 .. Len(ts) PROVE at(Slot(k, ts[i])) = i
    OBVIOUS
  <2> DEFINE j == at(Slot(k, ts[i]))
  <2>1. j \in DOMAIN ts /\ Slot(k, ts[i]) = Slot(k, ts[j])
    BY <1>1
  <2> HIDE DEF j
  <2>2. ts[i] \in Threads /\ ts[j] \in Threads /\ k \in Nat
    BY <1>1, <1>4, <2>1, SlotsApart DEF PlaceTypeOK
  <2>3. ts[i] = ts[j]
    BY <2>1, <2>2, SlotsApart DEF PlaceTypeOK
  <2>4. i = j
    BY <1>1, <2>1, <2>3 DEF Placeable
  <2> QED
    BY <2>4 DEF j
<1> HIDE DEF at
<1>6. \A i \in 1 .. Len(ts) : new(Slot(k, ts[i])) = core[c][L - i + 1] /\ L - i + 1 \in 1 .. L
  <2> SUFFICES ASSUME NEW i \in 1 .. Len(ts)
               PROVE  new(Slot(k, ts[i])) = core[c][L - i + 1] /\ L - i + 1 \in 1 .. L
    OBVIOUS
  <2> DEFINE s == Slot(k, ts[i])
  <2>1. at(s) = i /\ \E j \in DOMAIN ts : s = Slot(k, ts[j])
    BY <1>1, <1>5
  <2>2. i \in 1 .. L
    BY <1>1
  <2> HIDE DEF s, ps
  <2>3. new(s) = ps[i]
    BY <2>1
  <2> QED
    BY <1>2, <2>2, <2>3 DEF s
<1>7. \A s \in Slots : (\A i \in 1 .. Len(ts) : s # Slot(k, ts[i])) => new(s) = aff_cpus[s]
  BY <1>1
<1>8. \A s \in Slots : new(s) \in Procs \cup {-1}
  <2> SUFFICES ASSUME NEW s \in Slots PROVE new(s) \in Procs \cup {-1}
    OBVIOUS
  <2>1. CASE \E i \in 1 .. Len(ts) : s = Slot(k, ts[i])
    <3>1. PICK i \in 1 .. Len(ts) : s = Slot(k, ts[i])
      BY <2>1
    <3> HIDE DEF new
    <3>2. new(s) = core[c][L - i + 1] /\ L - i + 1 \in 1 .. L
      BY <1>6, <3>1
    <3> QED
      BY <1>1, <3>2
  <2>2. CASE \A i \in 1 .. Len(ts) : s # Slot(k, ts[i])
    <3> HIDE DEF new
    <3> QED
      BY <1>7, <2>2 DEF PlaceTypeOK
  <2> QED
    BY <2>1, <2>2
<1> HIDE DEF new
<1>9. \A s \in Slots : aff_cpus'[s] = new(s)
  BY <1>3
<1>10. aff_cpus' \in [Slots -> Procs \cup {-1}]
  BY <1>3, <1>8
<1>11. core' = [core EXCEPT ![c] = SubSeq(core[c], 1, L - Len(ts))]
  BY DEF Take, Left
<1> DEFINE rest == SubSeq(core[c], 1, L - Len(ts))
<1>12. /\ rest \in Seq(Procs) /\ Len(rest) = L - Len(ts)
       /\ \A i \in 1 .. Len(rest) : i \in 1 .. L /\ rest[i] = core[c][i]
  <2> DEFINE b == L - Len(ts)
  <2>1. b \in Nat /\ b <= L
    BY <1>1
  <2> HIDE DEF b
  <2>2. \A i \in 1 .. b : i \in 1 .. L /\ core[c][i] \in Procs
    BY <1>1, <2>1
  <2>3. SubSeq(core[c], 1, b) = [i \in 1 .. b |-> core[c][i]]
    BY <2>1
  <2>4. SubSeq(core[c], 1, b) \in Seq(Procs) /\ Len(SubSeq(core[c], 1, b)) = b
        /\ \A i \in 1 .. b : SubSeq(core[c], 1, b)[i] = core[c][i]
    BY <2>1, <2>2, <2>3
  <2> QED
    BY <2>2, <2>4 DEF b
<1> HIDE DEF rest
<1>13. core' = [core EXCEPT ![c] = rest]
  BY <1>11 DEF rest
<1>14. core' \in [Cores -> Seq(Procs)] /\ core'[c] = rest /\ \A d \in Cores : d # c => core'[d] = core[d]
  BY <1>12, <1>13 DEF PlaceTypeOK
<1> QED
  BY <1>4, <1>6, <1>7, <1>9, <1>10, <1>12, <1>14

LEMMA SameShapes ==
  ASSUME coms' = coms, cmd' = cmd
  PROVE  /\ Slots' = Slots /\ Insts' = Insts /\ Threads' = Threads
         /\ Procs' = Procs /\ Cores' = Cores /\ all_cpus_sz' = all_cpus_sz
         /\ color' = color /\ \A i, t : Slot(i, t)' = Slot(i, t)
<1>1. compute' = compute /\ N' = N
  BY SameClasses
<1>2. Slots' = Slots /\ Insts' = Insts /\ Threads' = Threads /\ color' = color
  BY <1>1 DEF Slots, Insts, Threads, color
<1>3. \A i, t : Slot(i, t)' = Slot(i, t)
  BY <1>1 DEF Slot
<1>4. Procs' = Procs /\ all_cpus_sz' = all_cpus_sz /\ cm' = cm
  BY DEF Procs, all_cpus_sz, cm
<1>5. Cores' = Cores
  BY <1>4 DEF Cores
<1> QED
  BY <1>2, <1>3, <1>4, <1>5

LEMMA TakeOwns ==
  ASSUME PlaceTypeOK, OwnInv, N \in Nat, N > 0, k \in Insts, cmd.mode = "custom",
         NEW c \in Cores, NEW ts, Placeable(ts), Len(ts) <= Len(core[c]), Take(c, ts),
         coms' = coms, cmd' = cmd
  PROVE  OwnInv'
<1> DEFINE L == Len(core[c])
           m == Len(ts)
           slot(i) == Slot(k, ts[i])
<1>1. /\ aff_cpus' \in [Slots -> Procs \cup {-1}]
      /\ \A i \in 1 .. m : /\ slot(i) \in Slots /\ aff_cpus[slot(i)] = -1
                           /\ L - i + 1 \in 1 .. L
                           /\ aff_cpus'[slot(i)] = core[c][L - i + 1]
      /\ \A s \in Slots : (\A i \in 1 .. m : s # slot(i)) => aff_cpus'[s] = aff_cpus[s]
      /\ core' \in [Cores -> Seq(Procs)]
      /\ \A d \in Cores : d # c => core'[d] = core[d]
      /\ Len(core'[c]) = L - m
      /\ \A i \in 1 .. Len(core'[c]) : i \in 1 .. L /\ core'[c][i] = core[c][i]
  BY TakeEffect
<1>2. L \in Nat /\ m \in Nat /\ m <= L
  BY DEF PlaceTypeOK, Placeable
<1> HIDE DEF slot, L, m
<1>3. Slots' = Slots /\ Procs' = Procs /\ Cores' = Cores
  BY SameShapes
\* What is free was free.
<1>4. ASSUME NEW d \in Cores, NEW i \in 1 .. Len(core'[d])
      PROVE  /\ i \in 1 .. Len(core[d]) /\ core'[d][i] = core[d][i] /\ i \in Int
             /\ d = c => i <= L - m
  <2>1. CASE d = c
    BY <1>1, <1>2, <1>4, <2>1 DEF L
  <2>2. CASE d # c
    BY <1>1, <1>4, <2>2
  <2> QED
    BY <2>1, <2>2
\* What is taken was free, at the end of the list, or was taken.
<1>5. ASSUME NEW s \in Slots
      PROVE  \/ aff_cpus'[s] = aff_cpus[s] /\ \A i \in 1 .. m : s # slot(i)
             \/ \E i \in 1 .. m : /\ s = slot(i) /\ aff_cpus'[s] = core[c][L - i + 1]
                                  /\ L - i + 1 \in 1 .. L /\ L - i + 1 > L - m
  <2>1. CASE \A i \in 1 .. m : s # slot(i)
    BY <1>1, <2>1
  <2>2. CASE \E i \in 1 .. m : s = slot(i)
    <3>1. PICK i \in 1 .. m : s = slot(i)
      BY <2>2
    <3>2. L - i + 1 > L - m
      BY <1>2
    <3> QED
      BY <1>1, <3>1, <3>2
  <2> QED
    BY <2>1, <2>2
<1>6. FreeOnce'
  <2> SUFFICES ASSUME NEW d \in Cores, NEW e_ \in Cores,
                      NEW i \in 1 .. Len(core'[d]), NEW j \in 1 .. Len(core'[e_]),
                      core'[d][i] = core'[e_][j]
               PROVE  d = e_ /\ i = j
    BY <1>3 DEF FreeOnce
  <2>1. i \in 1 .. Len(core[d]) /\ j \in 1 .. Len(core[e_]) /\ core[d][i] = core[e_][j]
    BY <1>4
  <2> QED
    BY <2>1 DEF OwnInv, FreeOnce
<1>7. TakenOnce'
  <2> SUFFICES ASSUME NEW s \in Slots, NEW t \in Slots, aff_cpus'[s] = aff_cpus'[t], aff_cpus'[s] # -1
               PROVE  s = t
    BY <1>3 DEF TakenOnce
  <2> DEFINE Old(u) == aff_cpus'[u] = aff_cpus[u]
             New(u) == \E i \in 1 .. m : /\ u = slot(i) /\ aff_cpus'[u] = core[c][L - i + 1]
                                         /\ L - i + 1 \in 1 .. L /\ L - i + 1 > L - m
  <2>1. (Old(s) \/ New(s)) /\ (Old(t) \/ New(t))
    BY <1>5
  <2>2. CASE Old(s) /\ Old(t)
    BY <2>2 DEF OwnInv, TakenOnce
  <2>3. ASSUME NEW u \in Slots, NEW v \in Slots, Old(u), New(v) PROVE aff_cpus'[u] # aff_cpus'[v]
    BY <2>3 DEF OwnInv, FreeOrTaken, L
  <2>4. CASE New(s) /\ New(t)
    <3>1. PICK i \in 1 .. m : s = slot(i) /\ aff_cpus'[s] = core[c][L - i + 1] /\ L - i + 1 \in 1 .. L
      BY <2>4
    <3>2. PICK j \in 1 .. m : t = slot(j) /\ aff_cpus'[t] = core[c][L - j + 1] /\ L - j + 1 \in 1 .. L
      BY <2>4
    <3> DEFINE x == L - i + 1
               y == L - j + 1
    <3>3. x \in 1 .. Len(core[c]) /\ y \in 1 .. Len(core[c]) /\ core[c][x] = core[c][y]
      BY <3>1, <3>2 DEF L
    <3> HIDE DEF x, y
    <3>3a. x = y
      BY <3>3 DEF OwnInv, FreeOnce
    <3>4. i = j
      BY <1>2, <3>3a DEF x, y
    <3> QED
      BY <3>1, <3>2, <3>4
  <2> QED
    BY <2>1, <2>2, <2>3, <2>4
<1>8. FreeOrTaken'
  <2> SUFFICES ASSUME NEW d \in Cores, NEW i \in 1 .. Len(core'[d]), NEW s \in Slots,
                      core'[d][i] = aff_cpus'[s]
               PROVE  FALSE
    BY <1>3 DEF FreeOrTaken
  <2>1. i \in 1 .. Len(core[d]) /\ core'[d][i] = core[d][i] /\ i \in Int /\ (d = c => i <= L - m)
    BY <1>4
  <2>2. CASE aff_cpus'[s] = aff_cpus[s]
    BY <2>1, <2>2 DEF OwnInv, FreeOrTaken
  <2>3. CASE \E j \in 1 .. m : /\ s = slot(j) /\ aff_cpus'[s] = core[c][L - j + 1]
                               /\ L - j + 1 \in 1 .. L /\ L - j + 1 > L - m
    <3>1. PICK j \in 1 .. m : /\ aff_cpus'[s] = core[c][L - j + 1]
                              /\ L - j + 1 \in 1 .. L /\ L - j + 1 > L - m
      BY <2>3
    <3> DEFINE x == L - j + 1
    <3>2. x \in 1 .. Len(core[c]) /\ core[d][i] = core[c][x] /\ x > L - m
      BY <2>1, <3>1 DEF L
    <3> HIDE DEF x
    <3>3. d = c /\ i = x
      BY <2>1, <3>2 DEF OwnInv, FreeOnce
    <3>4. i <= L - m /\ i > L - m
      BY <2>1, <3>2, <3>3
    <3> QED
      BY <1>2, <2>1, <3>4
  <2> QED
    BY <1>5, <2>2, <2>3
<1>9. NoneLost'
  <2> SUFFICES ASSUME NEW p \in Procs
               PROVE  \/ \E d \in Cores : \E i \in 1 .. Len(core'[d]) : core'[d][i] = p
                      \/ \E s \in Slots : aff_cpus'[s] = p
    BY <1>3 DEF NoneLost
  <2>1. CASE \E s \in Slots : aff_cpus[s] = p
    <3>1. PICK s \in Slots : aff_cpus[s] = p
      BY <2>1
    <3>2. \A i \in 1 .. m : s # slot(i)
      BY <1>1, <3>1 DEF PlaceTypeOK
    <3> QED
      BY <1>1, <3>1, <3>2
  <2>2. CASE \E d \in Cores : \E i \in 1 .. Len(core[d]) : core[d][i] = p
    <3>1. PICK d \in Cores : \E i \in 1 .. Len(core[d]) : core[d][i] = p
      BY <2>2
    <3>2. PICK i \in 1 .. Len(core[d]) : core[d][i] = p
      BY <3>1
    <3>3. CASE d # c
      BY <1>1, <3>2, <3>3
    <3>4. CASE d = c /\ i <= L - m
      <4>1. i \in 1 .. Len(core'[c])
        BY <1>1, <1>2, <3>2, <3>4 DEF L
      <4> QED
        BY <1>1, <3>2, <3>4, <4>1
    <3>5. CASE d = c /\ ~(i <= L - m)
      <4> DEFINE j == L - i + 1
      <4>1. i \in 1 .. L
        BY <3>5 DEF L
      <4>2. j \in 1 .. m /\ L - j + 1 = i
        BY <1>2, <3>5, <4>1
      <4> HIDE DEF j
      <4>3. slot(j) \in Slots /\ aff_cpus'[slot(j)] = core[c][L - j + 1]
        BY <1>1, <4>2
      <4> QED
        BY <3>2, <3>5, <4>2, <4>3
    <3> QED
      BY <3>3, <3>4, <3>5
  <2> QED
    BY <2>1, <2>2 DEF OwnInv, NoneLost
<1> QED
  BY <1>6, <1>7, <1>8, <1>9 DEF OwnInv

-----------------------------------------------------------------------------
LEMMA SetKeepsCounts ==
  ASSUME OptsInv, NEW f, NEW v, opts' = [opts EXCEPT ![f] = v],
         v \in Int \/ f \notin {"avail", "n_exe", "aff_incr"}, v \in Seq(Nat) \/ f # "aff_cpus"
  PROVE  OptsInv'
  BY DEF OptsInv

LEMMA ConversionIsInt ==
  ASSUME NEW v \in Int
  PROVE  strtol(v) \in Int /\ ToInt(v) \in Int /\ Cpu(v) \in Int
<1> DEFINE d == 2 * (IntMax + 1)
<1>1. strtol(v) \in Int
  BY WidthAssumption DEF strtol
<1>2. d \in Nat /\ d > 0 /\ IntMin \in Int
  BY WidthAssumption DEF IntMin
<1> HIDE DEF d
<1>3. \A x \in Int : ((x - IntMin) % d) + IntMin \in Int
  BY <1>2
<1>4. \A x \in Int : ToInt(x) \in Int
  BY <1>3 DEF ToInt, d
<1> QED
  BY <1>1, <1>4 DEF Cpu

LEMMA NumberIsInt ==
  ASSUME CmdTypeOK, Known, Opt \in DOMAIN Number
  PROVE  AtLeast(do_argint(Arg), Number[Opt].least) \in Int
<1>1. Arg \in Numeral
  BY ArgumentTypes
<1>2a. Arg.v \in Int /\ Arg.suf \in {"", "k", "m"}
  BY <1>1, SuffixIsPower DEF Numeral
<1>2b. strtol(Arg.v) \in Int
  BY <1>2a, ConversionIsInt
<1>2c. 10 ^ Power[Arg.suf] \in Int
  <2>1. 10 ^ Power[""] \in Int /\ 10 ^ Power["k"] \in Int /\ 10 ^ Power["m"] \in Int
    <3>1. \A x : x = 1 \/ x = 10 \/ x = 100 => x \in Int
      OBVIOUS
    <3> QED
      BY <3>1, SuffixIsPower, Zenon
  <2> QED
    BY <1>2a, <2>1, Zenon
<1>2. strtol(Arg.v) \in Int /\ 10 ^ Power[Arg.suf] \in Int
  BY <1>2b, <1>2c
<1>3. do_argint(Arg) \in Int
  <2> DEFINE x == strtol(Arg.v) * 10 ^ Power[Arg.suf]
  <2>1. x \in Int
    BY <1>2
  <2> HIDE DEF x
  <2>2. ToInt(x) \in Int
    BY <2>1, ConversionIsInt
  <2> QED
    BY <2>2 DEF do_argint, x
<1>4. Number[Opt].least \in Int
  BY WidthAssumption DEF Number, IntMin
<1> QED
  BY <1>3, <1>4 DEF AtLeast

\* Parsing keeps the two numbers that the number of instances is made of.
LEMMA OptsStep ==
  ASSUME CmdTypeOK, OptsInv, parse_cmd
  PROVE  OptsInv'
<1>1. CASE SetNumber
  <2> DEFINE v == AtLeast(do_argint(Arg), Number[Opt].least)
  <2>1. v \in Int
    BY <1>1, NumberIsInt DEF SetNumber
  <2> HIDE DEF v
  <2>2. \/ opts' = [opts EXCEPT !.aff_incr = v, !.aff_mode = "incr"]
        \/ opts' = [opts EXCEPT !.avail = v, !.n_exe = IF v < 1 THEN 1 ELSE @]
        \/ opts' = [opts EXCEPT ![Number[Opt].f] = v]
    BY <1>1 DEF SetNumber, Set, v
  <2>3. CASE opts' = [opts EXCEPT !.aff_incr = v, !.aff_mode = "incr"]
    BY <2>1, <2>3 DEF OptsInv
  <2>4. CASE opts' = [opts EXCEPT !.avail = v, !.n_exe = IF v < 1 THEN 1 ELSE @]
    BY <2>1, <2>4 DEF OptsInv
  <2>5. CASE opts' = [opts EXCEPT ![Number[Opt].f] = v]
    <3>1. Number[Opt].f # "aff_cpus"
      BY <1>1 DEF SetNumber, Number
    <3> QED
      BY <2>1, <2>5, <3>1, SetKeepsCounts
  <2> QED
    BY <2>2, <2>3, <2>4, <2>5
<1>2. CASE SetFlag
  <2>1. Flag[Opt][2] \in Int /\ Flag[Opt][1] # "aff_cpus"
    BY <1>2 DEF SetFlag, Flag
  <2> QED
    BY <1>2, <2>1, SetKeepsCounts DEF SetFlag, Set
<1>3. CASE Increment
  <2>1. Count[Opt] \notin {"avail", "n_exe", "aff_incr", "aff_cpus"}
    BY <1>3 DEF Increment, Count
  <2> QED
    BY <1>3, <2>1, SetKeepsCounts DEF Increment, Set
<1>4. CASE Scale
  <2>1. PICK s, r : opts' = [opts EXCEPT !.size_of_test = s, !.max_run = r]
    BY <1>4 DEF Scale
  <2> QED
    BY <2>1 DEF OptsInv
<1>5. CASE SetMode \/ argints \/ SetAllDelays \/ parse_prefetch \/ set_prefetch
  <2>1. \E f \in {"aff_mode", "delta_tb", "prefetch"} : \E v : opts' = [opts EXCEPT ![f] = v]
    BY <1>5 DEF SetMode, argints, SetAllDelays, parse_prefetch, set_prefetch, Set
  <2> QED
    BY <2>1, SetKeepsCounts
<1>6. CASE SetTopo
  <2>1. opts' = [opts EXCEPT !.aff_mode = "topo", !.aff_topo = Arg]
    BY <1>6 DEF SetTopo
  <2> QED
    BY <2>1 DEF OptsInv
<1>7. CASE fatal_overflow \/ usage \/ Parsed
  BY <1>7 DEF fatal_overflow, usage, Parsed, Exit, OptsInv
<1>8. CASE do_parse
  <2>1. UNCHANGED opts \/ \E v : opts' = [opts EXCEPT !.param[Arg.tag] = v]
    BY <1>8 DEF do_parse, Exit
  <2> QED
    BY <2>1 DEF OptsInv
<1>9. CASE argcpus
  <2> DEFINE cs == [i \in DOMAIN Arg.ns |-> Cpu(Arg.ns[i])]
  <2>1. Arg.ns \in Seq(Int) /\ \A i \in DOMAIN Arg.ns : Cpu(Arg.ns[i]) >= 0
    BY <1>9, ArgumentTypes DEF argcpus
  <2>2. \A i \in DOMAIN Arg.ns : Cpu(Arg.ns[i]) \in Nat
    <3> DEFINE ns == Arg.ns
    <3>1. ns \in Seq(Int) /\ \A i \in DOMAIN ns : Cpu(ns[i]) >= 0
      BY <2>1
    <3> HIDE DEF ns
    <3>2. \A i \in DOMAIN ns : ns[i] \in Int
      BY <3>1
    <3>3. \A i \in DOMAIN ns : Cpu(ns[i]) \in Int
      BY <3>2, ConversionIsInt
    <3>4. \A i \in DOMAIN ns : Cpu(ns[i]) \in Nat
      BY <3>1, <3>3
    <3> QED
      BY <3>4 DEF ns
  <2>3. cs \in Seq(Nat)
    <3> DEFINE ns == Arg.ns
    <3>1. ns \in Seq(Int) /\ \A i \in DOMAIN ns : Cpu(ns[i]) \in Nat
      BY <2>1, <2>2
    <3> HIDE DEF ns
    <3>2. DOMAIN ns = 1 .. Len(ns) /\ Len(ns) \in Nat
      BY <3>1
    <3>3. [i \in 1 .. Len(ns) |-> Cpu(ns[i])] \in Seq(Nat)
      BY <3>1, <3>2
    <3>4. [i \in DOMAIN ns |-> Cpu(ns[i])] \in Seq(Nat)
      BY <3>2, <3>3
    <3> QED
      BY <3>4 DEF ns
  <2>4. opts' = [opts EXCEPT !["aff_cpus"] = cs]
    BY <1>9 DEF argcpus, Set
  <2> HIDE DEF cs
  <2> QED
    BY <2>3, <2>4, SetKeepsCounts
<1> QED
  BY <1>1, <1>2, <1>3, <1>4, <1>5, <1>6, <1>7, <1>8, <1>9 DEF parse_cmd

LEMMA ParsingOutcome ==
  ASSUME parse_cmd
  PROVE  outcome = "parsing" /\ outcome' # "running" /\ def' = def
<1>1. CASE SetNumber \/ SetFlag \/ Increment \/ Scale \/ SetMode \/ SetTopo \/ argcpus
  BY <1>1 DEF SetNumber, SetFlag, Increment, Scale, SetMode, SetTopo, argcpus, Known, Parsing, Accept
<1>2. CASE argints \/ SetAllDelays \/ parse_prefetch \/ set_prefetch
  BY <1>2 DEF argints, SetAllDelays, parse_prefetch, set_prefetch, Known, Parsing, Accept
<1>3. CASE fatal_overflow \/ usage \/ Parsed
  BY <1>3 DEF fatal_overflow, usage, Parsed, Exit, Known, Parsing
<1>4. CASE do_parse
  BY <1>4 DEF do_parse, Exit, Accept, Parsing
<1> QED
  BY <1>1, <1>2, <1>3, <1>4 DEF parse_cmd

-----------------------------------------------------------------------------
LEMMA JobCom == JobInv => ComsOK
  BY JobsAssumption DEF JobInv, ComsOK, N

LEMMA SomeClass ==
  ASSUME ComsOK
  PROVE  /\ Covers(color, Threads) /\ N \in Nat /\ N > 0 /\ Len(color) \in Nat /\ 1 \in 1 .. Len(color)
         /\ \A l \in 1 .. Len(color) : color[l] \in Seq(Threads) /\ Len(color[l]) \in {1, 2}
<1>1. Covers(color, Threads)
  BY ComputeCovers DEF color
<1>2. N \in Nat /\ N > 0 /\ 0 \in Threads
  BY DEF ComsOK, N, Threads
<1>3. color \in Seq(Seq(Threads)) /\ \E l \in 1 .. Len(color) : TRUE
  BY <1>1, <1>2 DEF Covers
<1>4. Len(color) \in Nat /\ 1 \in 1 .. Len(color)
  BY <1>3
<1>5. \A l \in 1 .. Len(color) : color[l] \in Seq(Threads)
  BY <1>3
<1> QED
  BY <1>1, <1>2, <1>4, <1>5 DEF Covers

\* The state run starts the placement from, in mode custom.
CustomStart ==
  /\ JobInv /\ cmd.mode = "custom" /\ cmd.n_exe \in Int
  /\ cmd.def_sz \in Nat /\ cmd.cpus \in Seq(0 .. cmd.def_sz - 1) /\ IsInjective(cmd.cpus)
  /\ aff_cpus = FirstCpus /\ core = FirstCores
  /\ k = 0 /\ q = 1 /\ solo = <<>>

\* Each processor is on the list of its core, once, and no thread has one.
LEMMA FirstPlaces == CustomStart => CustomInv
<1> SUFFICES ASSUME CustomStart PROVE CustomInv
  OBVIOUS
<1> DEFINE xs == cmd.cpus
           m == Len(xs)
           S(c) == {p \in DOMAIN cm : cm[p] = c}
           D == 0 .. cmd.def_sz - 1
<1>1. /\ xs \in Seq(D) /\ m \in Nat /\ DOMAIN xs = 1 .. m /\ all_cpus_sz = m
      /\ \A i \in 1 .. m : xs[i] \in D
      /\ \A i, j \in 1 .. m : xs[i] = xs[j] => i = j
      /\ Procs = {xs[i] : i \in 1 .. m}
  <2>1. xs \in Seq(D) /\ IsInjective(xs) /\ all_cpus_sz = m /\ Procs = Range(xs)
    BY DEF CustomStart, all_cpus_sz, Procs
  <2> HIDE DEF xs, D
  <2>2. m \in Nat /\ DOMAIN xs = 1 .. m /\ \A i \in 1 .. m : xs[i] \in D
    BY <2>1
  <2> QED
    BY <2>1, <2>2 DEF IsInjective, Range
<1>2. DOMAIN cm = D /\ \A p \in D : cm[p] \in Cores
  BY DEF cm, Cores, Range
<1>3. ComsOK
  BY JobCom DEF CustomStart
<1>4. core \in [Cores -> Seq(D)] /\ \A c \in Cores : core[c] = Only(xs, S(c))
  <2>1. core = [c \in Cores |-> Only(xs, S(c))]
    BY DEF CustomStart, FirstCores
  <2> HIDE DEF xs, S
  <2>2. \A c \in Cores : Only(xs, S(c)) \in Seq(D)
    BY <1>1, Selection
  <2> QED
    BY <2>1, <2>2
\* The processors of a core, in their order.
<1> DEFINE Kept(c, at) == /\ at \in [1 .. Len(core[c]) -> 1 .. m]
                          /\ \A j \in 1 .. Len(core[c]) : core[c][j] = xs[at[j]] /\ cm[xs[at[j]]] = c
                          /\ \A j, l \in 1 .. Len(core[c]) : at[j] = at[l] => j = l
                          /\ \A i \in 1 .. m : cm[xs[i]] = c => \E j \in 1 .. Len(core[c]) : at[j] = i
<1>5. \A c \in Cores : \E at : Kept(c, at)
  <2> SUFFICES ASSUME NEW c \in Cores PROVE \E at : Kept(c, at)
    OBVIOUS
  <2> HIDE DEF S
  <2>1. PICK at : IsSelection(Only(xs, S(c)), at, xs, S(c), Len(xs))
    BY <1>1, Selection
  <2>2. IsSelection(core[c], at, xs, S(c), m)
    BY <1>4, <2>1
  <2> HIDE DEF xs, m
  <2>3. \A i \in 1 .. m : xs[i] \in S(c) <=> cm[xs[i]] = c
    BY <1>1, <1>2 DEF S
  <2>4. at \in [1 .. Len(core[c]) -> 1 .. m]
    BY <2>2 DEF IsSelection
  <2>5. Kept(c, at)
    BY <2>2, <2>3, <2>4 DEF IsSelection
  <2> QED
    BY <2>5
<1> HIDE DEF xs, m, S
<1>6. PlaceTypeOK
  <2>1. -1 \notin Procs /\ Procs \subseteq D
    BY <1>1
  <2>2. aff_cpus = [s \in Slots |-> -1]
    <3>1. aff_cpus_sz = N * cmd.n_exe
      BY DEF CustomStart, aff_cpus_sz
    <3> QED
      BY <3>1 DEF CustomStart, FirstCpus, Slots
  <2>3. \A c \in Cores : core[c] \in Seq(Procs) /\ Len(core[c]) <= m
    <3> SUFFICES ASSUME NEW c \in Cores PROVE core[c] \in Seq(Procs) /\ Len(core[c]) <= m
      OBVIOUS
    <3>1. PICK at : Kept(c, at)
      BY <1>5
    <3>2. core[c] \in Seq(D) /\ Len(core[c]) \in Nat
      BY <1>4
    <3>3. \A j \in 1 .. Len(core[c]) : core[c][j] \in Procs
      BY <1>1, <3>1
    <3>4. core[c] \in Seq(Procs)
      BY <3>2, <3>3
    <3>5. at \in Injection(1 .. Len(core[c]), 1 .. m)
      BY <3>1 DEF Injection, IsInjective
    <3>6. /\ IsFiniteSet(1 .. m) /\ Cardinality(1 .. m) = m
          /\ Cardinality(1 .. Len(core[c])) = Len(core[c])
      <4>1. \A y \in Nat : IsFiniteSet(1 .. y) /\ Cardinality(1 .. y) = y
        <5> SUFFICES ASSUME NEW y \in Nat PROVE IsFiniteSet(1 .. y) /\ Cardinality(1 .. y) = y
          OBVIOUS
        <5>1. IsFiniteSet(1 .. y) /\ Cardinality(1 .. y) = IF 1 > y THEN 0 ELSE y - 1 + 1
          BY FS_Interval
        <5> QED
          BY <5>1
      <4> QED
        BY <1>1, <3>2, <4>1
    <3>7. Cardinality(1 .. Len(core[c])) <= Cardinality(1 .. m)
      BY <3>5, <3>6, FS_Injection
    <3> QED
      BY <3>4, <3>6, <3>7
  <2>4. core \in [Cores -> Seq(Procs)]
    BY <1>4, <2>3
  <2> QED
    BY <1>1, <1>3, <2>1, <2>2, <2>3, <2>4, SomeClass DEF PlaceTypeOK, CustomStart
<1>7. SoloInv
  BY DEF SoloInv, CustomStart
<1>8. \A s \in Slots : aff_cpus[s] = -1
  BY DEF CustomStart, FirstCpus, aff_cpus_sz, Slots
<1>9. OwnInv
  <2>1. FreeOnce
    <3> SUFFICES ASSUME NEW c \in Cores, NEW d \in Cores, NEW i \in 1 .. Len(core[c]),
                        NEW j \in 1 .. Len(core[d]), core[c][i] = core[d][j]
                 PROVE  c = d /\ i = j
      BY DEF FreeOnce
    <3>1. PICK at : Kept(c, at)
      BY <1>5
    <3>2. PICK bt : Kept(d, bt)
      BY <1>5
    <3>3. c = d
      BY <3>1, <3>2
    <3>4. Kept(c, at) /\ j \in 1 .. Len(core[c])
      BY <3>1, <3>3
    <3>5. at[i] = at[j]
      BY <1>1, <3>3, <3>4
    <3> QED
      BY <3>3, <3>4, <3>5
  <2>2. TakenOnce
    BY <1>8 DEF TakenOnce
  <2>3. FreeOrTaken
    <3>1. \A c \in Cores : \A i \in 1 .. Len(core[c]) : core[c][i] \in Procs
      BY <1>6 DEF PlaceTypeOK
    <3> QED
      BY <1>6, <1>8, <3>1 DEF FreeOrTaken, PlaceTypeOK
  <2>4. NoneLost
    <3> SUFFICES ASSUME NEW p \in Procs PROVE \E c \in Cores : \E i \in 1 .. Len(core[c]) : core[c][i] = p
      BY DEF NoneLost
    <3>1. PICK i \in 1 .. m : p = xs[i]
      BY <1>1
    <3>2. cm[p] \in Cores
      BY <1>1, <1>2, <3>1
    <3>3. PICK at : Kept(cm[p], at)
      BY <1>5, <3>2
    <3>4. PICK j \in 1 .. Len(core[cm[p]]) : at[j] = i
      BY <3>1, <3>3
    <3> QED
      BY <3>1, <3>2, <3>3, <3>4
  <2> QED
    BY <2>1, <2>2, <2>3, <2>4 DEF OwnInv
<1>10. ASSUME NEW i \in Insts, NEW t \in Threads PROVE Of(i, t) = -1
  BY <1>3, <1>8, SomeClass, SlotsApart DEF CustomStart, Of
<1> QED
  BY <1>6, <1>7, <1>9, <1>10 DEF CustomInv, CustomOK, PendingInv

-----------------------------------------------------------------------------
\* What Take gives is not pending any more.
LEMMA TakePends ==
  ASSUME PlaceTypeOK, PendingInv, N \in Nat, N > 0, k \in Insts, cmd.mode = "custom",
         coms' = coms, cmd' = cmd,
         NEW c \in Cores, NEW ts, Placeable(ts), Len(ts) <= Len(core[c]), Take(c, ts),
         \A i \in Insts : \A t \in Threads :
           Pending(i, t)' => Pending(i, t) /\ (i = k => \A j \in 1 .. Len(ts) : t # ts[j])
  PROVE  PendingInv'
<1>1. Insts' = Insts /\ Threads' = Threads /\ \A i, t : Slot(i, t)' = Slot(i, t)
  BY SameShapes
<1> SUFFICES ASSUME NEW i \in Insts, NEW t \in Threads, Pending(i, t)'
             PROVE  aff_cpus'[Slot(i, t)] = -1
  <2>1. \A i_ \in Insts : \A t_ \in Threads : Of(i_, t_)' = aff_cpus'[Slot(i_, t_)]
    BY <1>1 DEF Of
  <2> QED
    BY <1>1, <2>1 DEF PendingInv
<1>2. aff_cpus[Slot(i, t)] = -1
  BY DEF PendingInv, Of
<1>3. Slot(i, t) \in Slots /\ i \in Nat /\ k \in Nat
  BY SlotsApart DEF PlaceTypeOK
<1>4. \A j \in 1 .. Len(ts) : Slot(i, t) # Slot(k, ts[j])
  <2> SUFFICES ASSUME NEW j \in 1 .. Len(ts), Slot(i, t) = Slot(k, ts[j]) PROVE FALSE
    OBVIOUS
  <2>1. ts[j] \in Threads
    BY DEF Placeable
  <2>2. i = k /\ t = ts[j]
    BY <1>3, <2>1, SlotsApart DEF PlaceTypeOK
  <2> QED
    BY <2>2
<1> QED
  BY <1>2, <1>3, <1>4, TakeEffect

LEMMA TakeTypes ==
  ASSUME PlaceTypeOK, N \in Nat, N > 0, k \in Insts, cmd.mode = "custom", coms' = coms, cmd' = cmd,
         NEW c \in Cores, NEW ts, Placeable(ts), Len(ts) <= Len(core[c]), Take(c, ts),
         k' \in Nat, q' \in 1 .. Len(color)
  PROVE  PlaceTypeOK'
<1>1. Slots' = Slots /\ Procs' = Procs /\ Cores' = Cores /\ all_cpus_sz' = all_cpus_sz /\ color' = color
  BY SameShapes
<1>2. /\ aff_cpus' \in [Slots -> Procs \cup {-1}] /\ core' \in [Cores -> Seq(Procs)]
      /\ \A d \in Cores : d # c => core'[d] = core[d]
      /\ Len(core'[c]) = Len(core[c]) - Len(ts)
  BY TakeEffect
<1>3. Len(ts) \in Nat /\ Len(core[c]) \in Nat
  BY DEF PlaceTypeOK, Placeable
<1>4. \A d \in Cores : Len(core'[d]) <= all_cpus_sz
  <2> SUFFICES ASSUME NEW d \in Cores PROVE Len(core'[d]) <= all_cpus_sz
    OBVIOUS
  <2>1. CASE d = c
    <3>1. Len(core[c]) <= all_cpus_sz /\ all_cpus_sz \in Nat
      BY DEF PlaceTypeOK
    <3> QED
      BY <1>2, <1>3, <2>1, <3>1
  <2>2. CASE d # c
    BY <1>2, <2>2 DEF PlaceTypeOK
  <2> QED
    BY <2>1, <2>2
<1> QED
  BY <1>1, <1>2, <1>4 DEF PlaceTypeOK

\* After a class, what is pending was pending and is not of this class.
LEMMA ClassDone ==
  ASSUME ComsOK, PlaceTypeOK, NextClass, solo' = <<>>, coms' = coms, cmd' = cmd
  PROVE  /\ k' \in Nat /\ q' \in 1 .. Len(color)
         /\ \A i \in Insts : \A t \in Threads :
              Pending(i, t)' => Pending(i, t) /\ (i = k => t \notin Range(color[q]))
<1>1. Covers(color, Threads) /\ Len(color) \in Nat /\ 1 \in 1 .. Len(color)
  BY SomeClass
<1>2. color' = color
  BY SameShapes
<1>3. k \in Nat /\ q \in 1 .. Len(color)
  BY DEF PlaceTypeOK
<1>4. ASSUME NEW l \in q + 1 .. Len(color), NEW t \in Range(color[l]) PROVE t \notin Range(color[q])
  <2>1. l \in 1 .. Len(color) /\ l # q /\ color[l] \in Seq(Threads) /\ color[q] \in Seq(Threads)
    BY <1>1, <1>3, SomeClass
  <2> SUFFICES ASSUME t \in Range(color[q]) PROVE FALSE
    OBVIOUS
  <2>2. PICK i \in 1 .. Len(color[l]) : t = color[l][i]
    BY <2>1 DEF Range
  <2>3. PICK j \in 1 .. Len(color[q]) : t = color[q][j]
    BY <2>1 DEF Range
  <2> DEFINE xs == color
  <2>4. /\ Covers(xs, Threads) /\ l \in 1 .. Len(xs) /\ q \in 1 .. Len(xs)
        /\ i \in 1 .. Len(xs[l]) /\ j \in 1 .. Len(xs[q]) /\ xs[l][i] = xs[q][j]
    BY <1>1, <1>3, <2>1, <2>2, <2>3
  <2> HIDE DEF xs
  <2>5. l = q
    BY <2>4, OnePlace
  <2> QED
    BY <2>1, <2>5
<1>5. CASE q < Len(color)
  <2>1. q' = q + 1 /\ k' = k
    BY <1>5 DEF NextClass
  <2>2. q + 1 \in 1 .. Len(color) /\ q + 1 \in q + 1 .. Len(color)
        /\ \A l \in q + 1 + 1 .. Len(color) : l \in q + 1 .. Len(color)
    BY <1>1, <1>3, <1>5
  <2>3. ASSUME NEW i \in Insts, NEW t \in Threads, Pending(i, t)'
        PROVE  Pending(i, t) /\ (i = k => t \notin Range(color[q]))
    <3>1. i > k \/ (i = k /\ \E l \in q + 1 .. Len(color) : t \in Range(color[l]))
      BY <1>2, <2>1, <2>2, <2>3 DEF Pending
    <3>2. i > k => i # k
      BY <1>3 DEF Insts
    <3> QED
      BY <1>4, <3>1, <3>2 DEF Pending
  <2> QED
    BY <1>3, <2>1, <2>2, <2>3
<1>6. CASE ~(q < Len(color))
  <2>1. q' = 1 /\ k' = k + 1
    BY <1>6 DEF NextClass
  <2>2. ASSUME NEW i \in Insts, NEW t \in Threads, Pending(i, t)'
        PROVE  Pending(i, t) /\ (i = k => t \notin Range(color[q]))
    <3>1. i \in Int
      BY DEF Insts
    <3>2. i > k
      BY <1>3, <2>1, <2>2, <3>1 DEF Pending
    <3> QED
      BY <1>3, <3>1, <3>2 DEF Pending
  <2> QED
    BY <1>1, <1>3, <2>1, <2>2
<1> QED
  BY <1>5, <1>6

\* A class placed on one core.
LEMMA TogetherStep ==
  ASSUME ComsOK, CustomOK, Together
  PROVE  CustomOK'
<1>1. k \in Insts /\ cmd.mode = "custom" /\ solo = <<>> /\ solo' = <<>> /\ coms' = coms /\ cmd' = cmd /\ NextClass
  BY DEF Together, Placing
<1> DEFINE ts == color[q]
<1>2. PICK c \in Cores : Len(ts) <= Len(core[c]) /\ Take(c, ts)
  <2>1. PICK c \in find_color_diff(ts) : Take(c, ts)
    BY DEF Together
  <2>2. c \in Cores /\ Len(core[c]) >= Len(ts)
    BY <2>1 DEF find_color_diff
  <2>3. Len(ts) <= Len(core[c])
    <3>1. ts \in Seq(Threads) /\ core[c] \in Seq(Procs)
      BY <2>2, SomeClass DEF CustomOK, PlaceTypeOK
    <3> QED
      BY <2>2, <3>1
  <2> QED
    BY <2>1, <2>2, <2>3
<1>3. /\ N \in Nat /\ N > 0 /\ q \in 1 .. Len(color) /\ ts \in Seq(Threads) /\ Covers(color, Threads)
      /\ k' \in Nat /\ q' \in 1 .. Len(color)
      /\ \A i \in Insts : \A t \in Threads :
           Pending(i, t)' => Pending(i, t) /\ (i = k => t \notin Range(ts))
  BY <1>1, SomeClass, ClassDone DEF CustomOK, PlaceTypeOK
<1>4. Placeable(ts)
  <2>1. \A i, j \in 1 .. Len(ts) : ts[i] = ts[j] => i = j
    BY <1>3 DEF Covers
  <2>2. \A i \in 1 .. Len(ts) : ts[i] \in Threads /\ ts[i] \in Range(ts)
    BY <1>3 DEF Range
  <2>3. \A i \in 1 .. Len(ts) : Pending(k, ts[i])
    BY <1>1, <2>2 DEF Pending
  <2> QED
    BY <1>1, <1>3, <2>1, <2>2, <2>3 DEF Placeable, CustomOK, PendingInv
<1>5. \A i \in Insts : \A t \in Threads :
        Pending(i, t)' => Pending(i, t) /\ (i = k => \A j \in 1 .. Len(ts) : t # ts[j])
  <2>1. \A j \in 1 .. Len(ts) : ts[j] \in Range(ts)
    BY <1>3 DEF Range
  <2> QED
    BY <1>3, <2>1
<1> HIDE DEF ts
<1>6. PlaceTypeOK' /\ OwnInv' /\ PendingInv'
  BY <1>1, <1>2, <1>3, <1>4, <1>5, TakeTypes, TakeOwns, TakePends DEF CustomOK
<1>7. SoloInv'
  BY <1>1 DEF SoloInv
<1> QED
  BY <1>6, <1>7 DEF CustomOK

\* A thread placed alone.
LEMMA OneByOneStep ==
  ASSUME ComsOK, CustomOK, OneByOne
  PROVE  CustomOK'
<1>1. k \in Insts /\ cmd.mode = "custom" /\ solo # <<>> /\ solo' = Tail(solo) /\ coms' = coms /\ cmd' = cmd
  BY DEF OneByOne, Placing
<1> DEFINE u == Head(solo)
           ts == <<u>>
<1>2. /\ solo \in Seq(Threads) /\ Len(solo) \in Nat /\ Len(solo) > 0 /\ 1 \in 1 .. Len(solo)
      /\ u = solo[1] /\ u \in Threads /\ u \in Range(color[q]) /\ u \in Range(solo)
  BY <1>1 DEF CustomOK, SoloInv, Range
<1>3. /\ N \in Nat /\ N > 0 /\ q \in 1 .. Len(color) /\ k \in Nat /\ Covers(color, Threads)
      /\ color' = color
  BY <1>1, SomeClass, SameShapes DEF CustomOK, PlaceTypeOK
<1>4. /\ Tail(solo) \in Seq(Threads)
      /\ Len(Tail(solo)) = Len(solo) - 1 /\ DOMAIN Tail(solo) = 1 .. Len(solo) - 1
      /\ \A i \in 1 .. Len(solo) - 1 : i + 1 \in 1 .. Len(solo) /\ i + 1 # 1 /\ Tail(solo)[i] = solo[i + 1]
  BY <1>1, <1>2
<1>5. PICK c \in Cores : core[c] # <<>> /\ Take(c, ts)
  BY DEF OneByOne, find_one_proc
<1>6. Len(ts) = 1 /\ ts[1] = u /\ Len(ts) <= Len(core[c])
  <2>1. core[c] \in Seq(Procs) /\ core[c] # <<>>
    BY <1>5 DEF CustomOK, PlaceTypeOK
  <2> QED
    BY <2>1
<1>7. Placeable(ts)
  <2>1. Pending(k, u)
    BY <1>1, <1>2 DEF Pending
  <2>2. Of(k, u) = -1
    BY <1>1, <1>2, <2>1 DEF CustomOK, PendingInv
  <2> HIDE DEF u
  <2>3. ts \in Seq(Threads) /\ \A i, j \in 1 .. Len(ts) : i = 1 /\ j = 1
    BY <1>2
  <2> QED
    BY <1>6, <2>2, <2>3 DEF Placeable
<1>8. /\ k' \in Nat /\ q' \in 1 .. Len(color)
      /\ \A i \in Insts : \A t \in Threads : Pending(i, t)' => Pending(i, t) /\ (i = k => t # u)
      /\ SoloInv'
  <2>1. CASE Tail(solo) = <<>>
    <3>1. NextClass
      BY <2>1 DEF OneByOne
    <3>2a. solo' = <<>>
      BY <1>1, <2>1
    <3>2. SoloInv'
      BY <3>2a DEF SoloInv
    <3> QED
      BY <1>1, <1>2, <2>1, <3>1, <3>2, ClassDone DEF CustomOK
  <2>2. CASE Tail(solo) # <<>>
    <3>1. k' = k /\ q' = q
      BY <2>2 DEF OneByOne
    <3>2. SoloInv'
      <4>1. \A i \in 1 .. Len(solo') : i \in 1 .. Len(solo) - 1 /\ i + 1 \in 1 .. Len(solo) /\ solo'[i] = solo[i + 1]
        BY <1>1, <1>4
      <4>2. solo' \in Seq(Threads') /\ color' = color
        BY <1>1, <1>4, SameShapes
      <4>3. \A i, j \in 1 .. Len(solo') : solo'[i] = solo'[j] => i = j
        <5> SUFFICES ASSUME NEW i \in 1 .. Len(solo'), NEW j \in 1 .. Len(solo'), solo'[i] = solo'[j] PROVE i = j
          OBVIOUS
        <5>1. i + 1 = j + 1
          BY <4>1 DEF CustomOK, SoloInv
        <5> QED
          BY <5>1
      <4>4. \A i \in 1 .. Len(solo') : solo'[i] \in Range(color[q])
        BY <4>1 DEF CustomOK, SoloInv
      <4> QED
        BY <3>1, <4>2, <4>3, <4>4 DEF SoloInv
    <3>3. ASSUME NEW i \in Insts, NEW t \in Threads, Pending(i, t)'
          PROVE  Pending(i, t) /\ (i = k => t # u)
      <4>1. \/ i > k
            \/ i = k /\ \E l \in q + 1 .. Len(color) : t \in Range(color[l])
            \/ i = k /\ t \in Range(Tail(solo))
        BY <1>1, <1>3, <2>2, <3>1, <3>3 DEF Pending
      <4>2. CASE i > k
        BY <1>3, <4>2 DEF Pending, Insts
      <4>3. CASE i = k /\ \E l \in q + 1 .. Len(color) : t \in Range(color[l])
        <5>1. PICK l \in q + 1 .. Len(color) : t \in Range(color[l])
          BY <4>3
        <5>2. l \in 1 .. Len(color) /\ l # q /\ color[l] \in Seq(Threads) /\ color[q] \in Seq(Threads)
          BY <1>3, <5>1, SomeClass
        <5>3. PICK m \in 1 .. Len(color[l]) : t = color[l][m]
          BY <5>1, <5>2 DEF Range
        <5>4. PICK j \in 1 .. Len(color[q]) : u = color[q][j]
          BY <1>2, <5>2 DEF Range
        <5> DEFINE xs == color
        <5>5. /\ Covers(xs, Threads) /\ l \in 1 .. Len(xs) /\ q \in 1 .. Len(xs) /\ l # q
              /\ m \in 1 .. Len(xs[l]) /\ t = xs[l][m] /\ j \in 1 .. Len(xs[q]) /\ u = xs[q][j]
          BY <1>3, <5>2, <5>3, <5>4
        <5> HIDE DEF xs
        <5>6. t # u
          BY <5>5, OnePlace
        <5> QED
          BY <4>3, <5>6 DEF Pending
      <4>4. CASE i = k /\ t \in Range(Tail(solo))
        <5>1. PICK m \in 1 .. Len(solo) - 1 : t = Tail(solo)[m]
          BY <1>4, <4>4 DEF Range
        <5> DEFINE n == m + 1
        <5>2. n \in 1 .. Len(solo) /\ n # 1 /\ t = solo[n]
          BY <1>4, <5>1
        <5> HIDE DEF n
        <5>3. t # u /\ t \in Range(solo)
          BY <1>2, <5>2 DEF CustomOK, SoloInv, Range
        <5> QED
          BY <1>1, <4>4, <5>3 DEF Pending
      <4> QED
        BY <4>1, <4>2, <4>3, <4>4
    <3> QED
      BY <1>3, <3>1, <3>2, <3>3
  <2> QED
    BY <2>1, <2>2
<1>9. \A i \in Insts : \A t \in Threads :
        Pending(i, t)' => Pending(i, t) /\ (i = k => \A j \in 1 .. Len(ts) : t # ts[j])
  <2>1. \A j \in 1 .. Len(ts) : ts[j] = u
    BY <1>6
  <2> QED
    BY <1>8, <2>1
<1> HIDE DEF ts, u
<1>10. PlaceTypeOK' /\ OwnInv' /\ PendingInv'
  BY <1>1, <1>3, <1>5, <1>6, <1>7, <1>8, <1>9, TakeTypes, TakeOwns, TakePends DEF CustomOK
<1> QED
  BY <1>8, <1>10 DEF CustomOK

-----------------------------------------------------------------------------
\* The class cannot be placed together: all of it is still to be placed.
LEMMA SeparateStep ==
  ASSUME ComsOK, CustomOK, Separate
  PROVE  CustomOK'
<1>1. /\ cmd.mode = "custom" /\ solo = <<>> /\ solo' = color[q]
      /\ UNCHANGED <<coms, cmd, aff_cpus, k, core, q>>
  BY DEF Separate, Placing
<1>2. /\ Slots' = Slots /\ Insts' = Insts /\ Threads' = Threads /\ Procs' = Procs /\ Cores' = Cores
      /\ all_cpus_sz' = all_cpus_sz /\ color' = color /\ \A i, t : Slot(i, t)' = Slot(i, t)
  BY <1>1, SameShapes
<1>3. PlaceTypeOK' /\ OwnInv'
  BY <1>1, <1>2 DEF CustomOK, PlaceTypeOK, OwnInv, FreeOnce, TakenOnce, FreeOrTaken, NoneLost
<1>4. q \in 1 .. Len(color) /\ color[q] \in Seq(Threads) /\ Len(color[q]) \in {1, 2} /\ Covers(color, Threads)
  BY SomeClass DEF CustomOK, PlaceTypeOK
<1>5. color[q] # <<>> /\ DOMAIN color[q] = 1 .. Len(color[q])
  <2>1. \A ts \in Seq(Threads) : Len(ts) \in {1, 2} => ts # <<>> /\ DOMAIN ts = 1 .. Len(ts)
    OBVIOUS
  <2> QED
    BY <1>4, <2>1
<1>6. SoloInv'
  <2>1. \A i, j \in 1 .. Len(color[q]) : color[q][i] = color[q][j] => i = j
    BY <1>4 DEF Covers
  <2>2. \A i \in 1 .. Len(color[q]) : color[q][i] \in Range(color[q])
    BY <1>5 DEF Range
  <2> QED
    BY <1>1, <1>2, <1>4, <2>1, <2>2 DEF SoloInv
<1>7. PendingInv'
  <2>1. \A i, t : Pending(i, t)' => Pending(i, t)
    BY <1>1, <1>2, <1>5 DEF Pending
  <2>2. \A i, t : Of(i, t)' = Of(i, t)
    BY <1>1, <1>2 DEF Of
  <2> QED
    BY <1>2, <2>1, <2>2 DEF PendingInv, CustomOK
<1> QED
  BY <1>3, <1>6, <1>7 DEF CustomOK

LEMMA SameCustom ==
  ASSUME CustomOK, UNCHANGED <<coms, cmd, aff_cpus, k, core, q, solo>>
  PROVE  CustomOK'
<1>1. /\ Slots' = Slots /\ Insts' = Insts /\ Threads' = Threads /\ Procs' = Procs /\ Cores' = Cores
      /\ all_cpus_sz' = all_cpus_sz /\ color' = color /\ \A i, t : Slot(i, t)' = Slot(i, t)
  BY SameShapes
<1>2. PlaceTypeOK' /\ OwnInv' /\ SoloInv'
  BY <1>1 DEF CustomOK, PlaceTypeOK, SoloInv, OwnInv, FreeOnce, TakenOnce, FreeOrTaken, NoneLost
<1>3. \A i, t : Pending(i, t)' = Pending(i, t) /\ Of(i, t)' = Of(i, t)
  BY <1>1 DEF Pending, Of
<1> QED
  BY <1>1, <1>2, <1>3 DEF CustomOK, PendingInv

\* There is no processor for a thread when all the lists are empty.
LEMMA NoProcessor ==
  ASSUME NEW t, find_one_proc(t) = {}
  PROVE  \A c \in Cores : core[c] = <<>>
  BY DEF find_one_proc

LEMMA CustomStep ==
  ASSUME ComsOK, CustomInv, ExhaustedInv, custom_affinity
  PROVE  CustomInv' /\ ExhaustedInv'
<1>1. cmd.mode = "custom" /\ ~fatal /\ cmd' = cmd /\ coms' = coms
  BY DEF custom_affinity, Together, Separate, OneByOne, CannotAllocate, Placing
<1>2. CustomOK
  BY <1>1 DEF CustomInv
<1>3. CustomInv' <=> (cmd'.mode = "custom" => CustomOK')
  BY DEF CustomInv
<1>4. CASE Together \/ Separate \/ OneByOne
  <2>1. CustomOK'
    BY <1>2, <1>4, TogetherStep, SeparateStep, OneByOneStep
  <2>2. fatal' = fatal
    BY <1>4 DEF Together, Separate, OneByOne
  <2> QED
    BY <1>1, <1>3, <2>1, <2>2 DEF ExhaustedInv
<1>5. CASE CannotAllocate
  <2>1. CustomOK'
    BY <1>2, <1>5, SameCustom DEF CannotAllocate
  <2>2. \A c \in Cores : core[c] = <<>>
    BY <1>5, NoProcessor DEF CannotAllocate
  <2>3. core' = core /\ Cores' = Cores
    BY <1>1, <1>5, SameShapes DEF CannotAllocate
  <2> QED
    BY <1>1, <1>3, <2>1, <2>2, <2>3 DEF ExhaustedInv
<1> QED
  BY <1>4, <1>5 DEF custom_affinity

-----------------------------------------------------------------------------
LEMMA PlacementInits == Init => PlacementInv
<1> SUFFICES ASSUME Init PROVE PlacementInv
  OBVIOUS
<1>1. PICK j \in Jobs : coms = j.coms /\ def = j.def /\ opts = j.def
  BY DEF Init
<1>2. JobInv
  BY <1>1 DEF JobInv
<1>3a. OptsInv
  <2> DEFINE d == j.def
             D == 0 .. d.def_sz - 1
  <2>1. /\ {"avail", "n_exe", "aff_incr", "aff_cpus"} \subseteq DOMAIN d
        /\ d.avail \in Int /\ d.n_exe \in Int /\ d.aff_incr \in Int
        /\ d.aff_cpus \in Seq(D)
    BY JobsAssumption
  <2>2. d.aff_cpus \in Seq(Nat)
    <3> DEFINE xs == d.aff_cpus
    <3>1. xs \in Seq(D) /\ \A x \in D : x \in Nat
      BY <2>1
    <3> HIDE DEF xs, D
    <3>2. xs \in Seq(Nat)
      BY <3>1
    <3> QED
      BY <3>2 DEF xs
  <2>3. opts = d
    BY <1>1
  <2> HIDE DEF d
  <2> QED
    BY <2>1, <2>2, <2>3 DEF OptsInv
<1>3. cmd.mode = "none" /\ ~fatal /\ k = 0 /\ q = 1 /\ solo = <<>>
  BY DEF Init, Params, PlacementInit
<1> QED
  BY <1>2, <1>3a, <1>3 DEF PlacementInv, BeforeInv, CustomInv, ExhaustedInv

LEMMA RunStep ==
  ASSUME PlacementInv, run
  PROVE  PlacementInv'
<1>1. /\ outcome # "running" /\ outcome' = "running" /\ Modelled
      /\ UNCHANGED <<coms, def, opts, k, q, solo, fatal>>
      /\ cmd' = Params(aff_mode, opts.aff_cpus, n_exe, opts.aff_incr)
      /\ aff_cpus' = FirstCpus' /\ core' = FirstCores'
  BY DEF run, StartPlacement
<1>2. JobInv' /\ OptsInv' /\ BeforeInv'
  BY <1>1 DEF PlacementInv, JobInv, OptsInv, BeforeInv
<1>3. ~fatal /\ k = 0 /\ q = 1 /\ solo = <<>>
  BY <1>1 DEF PlacementInv, BeforeInv
<1>4. ExhaustedInv'
  BY <1>1, <1>3 DEF ExhaustedInv
<1>5. ASSUME cmd'.mode = "custom" PROVE CustomInv'
  <2>1. cmd' = [mode |-> aff_mode, cpus |-> opts.aff_cpus, n_exe |-> n_exe, aff_incr |-> opts.aff_incr,
                smt |-> def.smt, smtmode |-> def.smtmode, def_sz |-> def.def_sz, nsockets |-> def.nsockets]
    BY <1>1 DEF Params
  <2>2. /\ cmd'.mode = aff_mode /\ cmd'.cpus = opts.aff_cpus /\ cmd'.n_exe = n_exe
        /\ cmd'.def_sz = def.def_sz
    BY <2>1
  <2>3. opts.aff_cpus = def.aff_cpus
    BY <1>1, <1>5, <2>2 DEF Modelled
  <2>4. /\ def.def_sz \in Nat /\ def.aff_cpus \in Seq(0 .. def.def_sz - 1)
        /\ Len(def.aff_cpus) = def.def_sz /\ IsInjective(def.aff_cpus)
    BY JobsAssumption DEF PlacementInv, JobInv
  <2>5. n_exe \in Int
    <3>1. N \in Nat /\ N > 0
      BY JobCom, SomeClass DEF PlacementInv
    <3>2. n_avail \in Int
      BY <2>3, <2>4 DEF n_avail, PlacementInv, OptsInv
    <3> QED
      BY <3>1, <3>2 DEF n_exe, PlacementInv, OptsInv
  <2>6. CustomStart'
    BY <1>1, <1>2, <1>3, <1>5, <2>2, <2>3, <2>4, <2>5 DEF CustomStart
  <2>7. CustomStart' => CustomInv'
    BY FirstPlaces, PTL
  <2> QED
    BY <2>6, <2>7
<1>6. CustomInv'
  BY <1>5 DEF CustomInv
<1> QED
  BY <1>2, <1>4, <1>6 DEF PlacementInv

\* What changes neither the placement nor the options it is made from.
LEMMA OtherStep ==
  ASSUME PlacementInv, UNCHANGED <<coms, def, opts, outcome, cmd, fatal>>,
         \/ cmd.mode # "custom" /\ outcome = "running"
         \/ UNCHANGED <<aff_cpus, k, core, q, solo>>
  PROVE  PlacementInv'
<1>1. JobInv' /\ OptsInv' /\ BeforeInv'
  BY DEF PlacementInv, JobInv, OptsInv, BeforeInv
<1>2. CustomInv' <=> (cmd'.mode = "custom" => CustomOK')
  BY DEF CustomInv
<1>3. CustomInv'
  BY <1>2, SameCustom DEF PlacementInv, CustomInv
<1>4. ExhaustedInv'
  <2>1. Cores' = Cores
    BY SameShapes
  <2> QED
    BY <2>1 DEF PlacementInv, ExhaustedInv
<1> QED
  BY <1>1, <1>3, <1>4 DEF PlacementInv

LEMMA PlacementStep ==
  ASSUME CmdInv, PlacementInv, [Next]_vars
  PROVE  PlacementInv'
<1>1. CASE Parse
  <2>1. /\ parse_cmd /\ UNCHANGED <<coms, cmd, aff_cpus, k, core, q, solo, fatal>>
        /\ outcome # "running" /\ outcome' # "running" /\ def' = def
    BY <1>1, ParsingOutcome DEF Parse, placement, incr, custom
  <2>2. OptsInv'
    BY <2>1, OptsStep DEF CmdInv, PlacementInv
  <2>3. cmd.mode = "none" /\ ~fatal
    BY <2>1 DEF PlacementInv, BeforeInv
  <2>4. JobInv' /\ BeforeInv' /\ CustomInv' /\ ExhaustedInv'
    BY <2>1, <2>3 DEF PlacementInv, JobInv, BeforeInv, CustomInv, ExhaustedInv
  <2> QED
    BY <2>2, <2>4 DEF PlacementInv
<1>2. CASE run
  BY <1>2, RunStep
<1>3. CASE RUN
  <2>1. /\ outcome # "running" /\ outcome' = "running" /\ UNCHANGED <<coms, def, opts, fatal>>
        /\ cmd'.mode = "presi"
    BY <1>3 DEF RUN, Params, custom
  <2>2. ~fatal
    BY <2>1 DEF PlacementInv, BeforeInv
  <2> QED
    BY <2>1, <2>2 DEF PlacementInv, JobInv, OptsInv, BeforeInv, CustomInv, ExhaustedInv
<1>4. CASE Run
  <2>1. outcome = "running" /\ UNCHANGED <<def, opts, outcome>>
    BY <1>4 DEF Run, cmdline
  <2>2. CASE Allocate \/ perm_prefix_ints
    <3>1. cmd.mode # "custom" /\ UNCHANGED <<coms, cmd, fatal>>
      BY <2>2 DEF Allocate, perm_prefix_ints, custom
    <3> QED
      BY <2>1, <3>1, OtherStep
  <2>3. CASE custom_affinity
    <3>1. coms' = coms /\ ComsOK
      BY <2>3, JobCom DEF PlacementInv, custom_affinity, Together, Separate, OneByOne, CannotAllocate
    <3>2. JobInv' /\ OptsInv' /\ BeforeInv'
      BY <2>1, <3>1 DEF PlacementInv, JobInv, OptsInv, BeforeInv
    <3>3. CustomInv' /\ ExhaustedInv'
      BY <2>3, <3>1, CustomStep DEF PlacementInv
    <3> QED
      BY <3>2, <3>3 DEF PlacementInv
  <2>4. CASE alloc_instances
    <3>1. cmd.mode # "custom" /\ UNCHANGED <<coms, cmd, fatal>>
      BY <2>4 DEF alloc_instances, find_all, Exit_, alloc_instance, Allocating, Scanning, custom
    <3> QED
      BY <2>1, <3>1, OtherStep
  <2> QED
    BY <1>4, <2>2, <2>3, <2>4 DEF Run, Place
<1>5. CASE Finished \/ UNCHANGED vars
  BY <1>5, OtherStep DEF Finished, vars, cmdline, placement, custom
<1> QED
  BY <1>1, <1>2, <1>3, <1>4, <1>5 DEF Next

LEMMA PlacementInvariance == Spec => []PlacementInv
<1>1. CmdInv /\ PlacementInv /\ [Next]_vars => PlacementInv'
  BY PlacementStep
<1> QED
  BY <1>1, PlacementInits, CmdInvariance, PTL DEF Spec

-----------------------------------------------------------------------------
\* Each thread is in one class, and threads that must be far are never in one
\* class: custom_affinity does not test it.
THEOREM ClassesArePartition == Spec => []Compatible
<1>1. PlacementInv => Compatible
  BY JobCom, ClassesCompatible DEF PlacementInv
<1> QED
  BY <1>1, PlacementInvariance, PTL

\* The threads of a class are linked by an Rf, and an Rf links two threads that
\* are both left alone only in a cycle that there is nowhere to cut.
THEOREM RfTogether == Spec => []RfPaired
<1>1. PlacementInv => RfPaired
  BY JobCom, ClassesCompatible DEF PlacementInv
<1> QED
  BY <1>1, PlacementInvariance, PTL

\* A processor that is given is given to one thread.
LEMMA GivenOnce ==
  ASSUME PlaceTypeOK, TakenOnce, NEW s \in Slots, NEW p \in Procs, aff_cpus[s] = p
  PROVE  Load(p) = 1
<1>1. {t \in Slots : aff_cpus[t] = p} = {s}
  BY DEF PlaceTypeOK, TakenOnce
<1> QED
  BY <1>1, FS_Singleton DEF Load

\* The places of processor p on the lists of the cores.
Free(p) == {x \in Cores \X (1 .. all_cpus_sz) : x[2] <= Len(core[x[1]]) /\ core[x[1]][x[2]] = p}

\* In mode custom each processor is free once or is given once.
LEMMA OneOwner ==
  ASSUME CustomInv, ~Scanning
  PROVE  OwnProcessor
<1> SUFFICES ASSUME cmd.mode = "custom", NEW p \in Procs PROVE Cardinality(Free(p)) + Load(p) = 1
  BY DEF OwnProcessor, Scanning, Free
<1>1. PlaceTypeOK /\ OwnInv
  BY DEF CustomInv, CustomOK
<1>2. \A x \in Free(p) : /\ x = <<x[1], x[2]>> /\ x[1] \in Cores /\ x[2] \in 1 .. Len(core[x[1]])
                         /\ core[x[1]][x[2]] = p
  BY <1>1 DEF Free, PlaceTypeOK
<1>3. CASE \E s \in Slots : aff_cpus[s] = p
  <2>1. Load(p) = 1
    BY <1>1, <1>3, GivenOnce DEF OwnInv
  <2>2. Free(p) = {}
    BY <1>1, <1>2, <1>3 DEF OwnInv, FreeOrTaken
  <2> QED
    BY <2>1, <2>2, FS_EmptySet
<1>4. CASE ~\E s \in Slots : aff_cpus[s] = p
  <2>1. {s \in Slots : aff_cpus[s] = p} = {}
    BY <1>4
  <2>2. Load(p) = 0
    BY <2>1, FS_EmptySet DEF Load
  <2>3. PICK c \in Cores : \E i \in 1 .. Len(core[c]) : core[c][i] = p
    BY <1>1, <1>4 DEF OwnInv, NoneLost
  <2>4. PICK i \in 1 .. Len(core[c]) : core[c][i] = p
    BY <2>3
  <2>5. i \in 1 .. all_cpus_sz /\ i <= Len(core[c])
    <3>1. core[c] \in Seq(Procs) /\ Len(core[c]) <= all_cpus_sz /\ all_cpus_sz \in Nat
      BY <1>1 DEF PlaceTypeOK
    <3> QED
      BY <3>1
  <2>6. <<c, i>> \in Free(p)
    BY <2>4, <2>5 DEF Free
  <2>7. ASSUME NEW x \in Free(p) PROVE x = <<c, i>>
    <3>1. x[1] = c /\ x[2] = i
      BY <1>1, <1>2, <2>4 DEF OwnInv, FreeOnce
    <3> QED
      BY <1>2, <3>1
  <2>8. Free(p) = {<<c, i>>}
    BY <2>6, <2>7
  <2>9. Cardinality(Free(p)) = 1
    BY <2>8, FS_Singleton
  <2> QED
    BY <2>2, <2>9
<1> QED
  BY <1>3, <1>4

\* In mode custom, whatever the test, the machine and the cores that the search
\* finds first, each processor is free once or is given to one thread of one
\* instance, at each step of custom_affinity.
THEOREM CustomOwnProcessor == Spec => [](~Scanning => OwnProcessor)
<1>1. PlacementInv => (~Scanning => OwnProcessor)
  BY OneOwner DEF PlacementInv
<1> QED
  BY <1>1, PlacementInvariance, PTL

\* "Cannot allocate threads" is said only when each processor has been given to
\* a thread: no constraint of far threads makes custom_affinity fail.
THEOREM FatalOnlyWhenExhausted == Spec => []FatalWhenExhausted
<1>1. PlacementInv => FatalWhenExhausted
  <2> SUFFICES ASSUME PlacementInv, fatal, NEW p \in Procs PROVE Load(p) = 1
    BY DEF FatalWhenExhausted
  <2>1. PlaceTypeOK /\ OwnInv /\ \A c \in Cores : core[c] = <<>>
    BY DEF PlacementInv, CustomInv, CustomOK, ExhaustedInv
  <2>2. \E s \in Slots : aff_cpus[s] = p
    <3>1. \A c \in Cores : 1 .. Len(core[c]) = {}
      BY <2>1
    <3> QED
      BY <2>1, <3>1 DEF OwnInv, NoneLost
  <2> QED
    BY <2>1, <2>2, GivenOnce DEF OwnInv
<1> QED
  BY <1>1, PlacementInvariance, PTL

-----------------------------------------------------------------------------
(***************************************************************************)
(* Modes incr and random.  The s-th thread of mode incr is placed by step  *)
(* s % l of the walk that starts at (s \div l) % g, where l steps come back *)
(* to the start and g is the greatest common divisor of the step and of    *)
(* the number of processors: this closed form of the two counters of the   *)
(* code is the inductive invariant.  A processor is then met once in each  *)
(* g * l steps.  Mode random permutes an array in which each processor is  *)
(* met once in each all_cpus_sz places.                                    *)
(***************************************************************************)
\* Multiples.
Divides(d, x) == \E y \in Int : x = d * y

LEMMA MultipleSum ==
  ASSUME NEW d \in Int, NEW x \in Int, NEW y \in Int, Divides(d, x), Divides(d, y)
  PROVE  Divides(d, x + y) /\ Divides(d, x - y)
<1>1. PICK a \in Int : x = d * a
  BY DEF Divides
<1>2. PICK b \in Int : y = d * b
  BY DEF Divides
<1>3. x + y = d * (a + b) /\ x - y = d * (a - b) /\ a + b \in Int /\ a - b \in Int
  BY <1>1, <1>2
<1> QED
  BY <1>3 DEF Divides

LEMMA MultipleProduct ==
  ASSUME NEW d \in Int, NEW x \in Int, NEW z \in Int, Divides(d, x)
  PROVE  Divides(d, x * z) /\ Divides(d, z * x)
<1>1. PICK a \in Int : x = d * a
  BY DEF Divides
<1>2. x * z = d * (a * z) /\ z * x = d * (a * z) /\ a * z \in Int
  BY <1>1
<1> QED
  BY <1>2 DEF Divides

\* Numbers with the same remainder.
LEMMA SameRemainder ==
  ASSUME NEW d \in Nat, d > 0, NEW x \in Int, NEW y \in Int
  PROVE  x % d = y % d <=> Divides(d, x - y)
<1>1. ASSUME x % d = y % d PROVE Divides(d, x - y)
  <2>1. /\ x = d * (x \div d) + (x % d) /\ y = d * (y \div d) + (y % d)
        /\ x \div d \in Int /\ y \div d \in Int /\ x % d \in Int
    BY Division
  <2>2. x - y = d * ((x \div d) - (y \div d))
    BY <1>1, <2>1
  <2> QED
    BY <2>1, <2>2 DEF Divides
<1>2. ASSUME Divides(d, x - y) PROVE x % d = y % d
  <2>1. PICK a \in Int : x - y = d * a
    BY <1>2 DEF Divides
  <2>2. y = d * (y \div d) + (y % d) /\ y \div d \in Int /\ y % d \in 0 .. d - 1
    BY Division
  <2>3. x = d * ((y \div d) + a) + (y % d) /\ (y \div d) + a \in Int
    BY <2>1, <2>2
  <2> QED
    BY <2>2, <2>3, Division
<1> QED
  BY <1>1, <1>2

LEMMA Small ==
  ASSUME NEW d \in Nat, d > 0, NEW x \in Int, Divides(d, x), -d < x, x < d
  PROVE  x = 0
<1>1. PICK a \in Int : x = d * a
  BY DEF Divides
<1>2. CASE a >= 1
  BY <1>1, <1>2
<1>3. CASE a <= -1
  BY <1>1, <1>3
<1> QED
  BY <1>1, <1>2, <1>3
-----------------------------------------------------------------------------
(* gcd *)
IsGcd(g) == g = [x \in Nat \X Nat |-> IF x[1] = 0 THEN x[2] ELSE g[<<x[2] % x[1], x[1]>>]]

\* What gcd returns divides its arguments and is a combination of them.
IsDivisor(c, a, b) ==
  /\ c \in Nat /\ (a > 0 \/ b > 0 => c > 0)
  /\ Divides(c, a) /\ Divides(c, b)
  /\ \E y, z \in Int : c = y * a + z * b

LEMMA DivisorStep ==
  ASSUME NEW a \in Nat, a > 0, NEW b \in Nat, NEW c, IsDivisor(c, b % a, a)
  PROVE  IsDivisor(c, a, b)
<1> DEFINE quo == b \div a
           r == b % a
<1>1. quo \in Int /\ r \in Nat /\ b = a * quo + r
  BY Division
<1> HIDE DEF quo, r
<1>2. c \in Nat /\ c > 0 /\ Divides(c, r) /\ Divides(c, a)
  BY DEF IsDivisor, r
<1>3. PICK y \in Int, z \in Int : c = y * r + z * a
  BY DEF IsDivisor, r
<1>4. Divides(c, a * quo + r)
  <2>1. c \in Int /\ a \in Int /\ a * quo \in Int
    BY <1>1, <1>2
  <2>2. \A x, l \in Int : Divides(c, x) => Divides(c, x * l)
    BY <2>1, MultipleProduct
  <2>3. Divides(c, a * quo)
    BY <1>1, <1>2, <2>1, <2>2, Zenon
  <2> QED
    BY <1>1, <1>2, <2>1, <2>3, MultipleSum
<1>5. c = (z - y * quo) * a + y * b /\ z - y * quo \in Int
  <2>1. y * b = y * (a * quo) + y * r
    BY <1>1
  <2>2. (z - y * quo) * a = z * a - (y * quo) * a
    BY <1>1
  <2>3. (y * quo) * a = y * (a * quo)
    BY <1>1
  <2>4. z - y * quo \in Int /\ y * b \in Int /\ (z - y * quo) * a \in Int /\ z * a \in Int
        /\ y * r \in Int /\ y * (a * quo) \in Int
    BY <1>1
  <2> QED
    BY <1>3, <2>1, <2>2, <2>3, <2>4
<1> QED
  BY <1>1, <1>2, <1>4, <1>5 DEF IsDivisor

LEMMA GcdDivides ==
  ASSUME NEW g, IsGcd(g), NEW a \in Nat, NEW b \in Nat
  PROVE  IsDivisor(g[<<a, b>>], a, b)
<1> DEFINE T == {m \in Nat : \E n \in Nat : ~IsDivisor(g[<<m, n>>], m, n)}
<1>0. \A m, n \in Nat : g[<<m, n>>] = IF m = 0 THEN n ELSE g[<<n % m, m>>]
  BY DEF IsGcd
<1>1. SUFFICES T = {}
  OBVIOUS
<1>2. SUFFICES ASSUME T # {} PROVE FALSE
  OBVIOUS
<1>3. PICK m \in T : \A l \in T : m <= l
  BY <1>2, LeastNat
<1>4. PICK n \in Nat : ~IsDivisor(g[<<m, n>>], m, n)
  BY <1>3
<1>5. CASE m = 0
  <2>1. g[<<m, n>>] = n
    BY <1>0, <1>5
  <2>2. n = 0 * m + 1 * n /\ n = n * 1 /\ m = n * 0
    BY <1>5
  <2>3. IsDivisor(n, m, n)
    BY <1>5, <2>2 DEF IsDivisor, Divides
  <2> QED
    BY <1>4, <2>1, <2>3
<1>6. CASE m # 0
  <2>1. m \in Nat /\ m > 0 /\ n % m \in 0 .. m - 1
    BY <1>3, <1>6, Division
  <2>2. n % m \notin T /\ n % m \in Nat
    BY <1>3, <2>1
  <2>3. IsDivisor(g[<<n % m, m>>], n % m, m)
    BY <2>1, <2>2
  <2>4. g[<<m, n>>] = g[<<n % m, m>>]
    BY <1>0, <1>6, <2>1
  <2> QED
    BY <1>4, <2>1, <2>3, <2>4, DivisorStep
<1> QED
  BY <1>5, <1>6

\* There is one: the least positive combination.
Combinations(a, b) == {c \in Nat : c > 0 /\ \E y, z \in Int : c = y * a + z * b}
LeastOf(T) == CHOOSE m \in T : \A l \in T : m <= l
Gcd_(a, b) == IF a = 0 /\ b = 0 THEN 0 ELSE LeastOf(Combinations(a, b))

LEMMA GcdExists == \E g : IsGcd(g)
<1>1. ASSUME NEW b \in Nat, b > 0 PROVE LeastOf(Combinations(0, b)) = b
  <2>1. b \in Combinations(0, b)
    <3>1. b = 0 * 0 + 1 * b
      OBVIOUS
    <3> QED
      BY <1>1, <3>1 DEF Combinations
  <2>2. \A c \in Combinations(0, b) : b <= c
    <3> SUFFICES ASSUME NEW c \in Nat, c > 0, NEW y \in Int, NEW z \in Int, c = y * 0 + z * b
                 PROVE  b <= c
      BY DEF Combinations
    <3>1. c = z * b
      OBVIOUS
    <3>2. z >= 1
      BY <3>1, <1>1
    <3> QED
      BY <3>1, <3>2, <1>1
  <2>3. \A c \in Combinations(0, b) : c \in Nat
    BY DEF Combinations
  <2> QED
    BY <2>1, <2>2, <2>3, <1>1 DEF LeastOf
<1>2. ASSUME NEW a \in Nat, a > 0, NEW b \in Nat
      PROVE  Combinations(a, b) = Combinations(b % a, a)
  <2> DEFINE quo == b \div a
             r == b % a
  <2>1. quo \in Int /\ r \in Nat /\ b = a * quo + r
    BY <1>2, Division
  <2> HIDE DEF quo, r
  <2>2. ASSUME NEW y \in Int, NEW z \in Int
        PROVE  y * a + z * b = z * r + (y + z * quo) * a
    <3>1. z * b = z * (a * quo) + z * r
      BY <2>1
    <3>2. (y + z * quo) * a = y * a + (z * quo) * a
      BY <2>1
    <3>3. (z * quo) * a = z * (a * quo)
      BY <2>1
    <3>4. z * b \in Int /\ z * (a * quo) \in Int /\ z * r \in Int /\ y * a \in Int
      BY <2>1
    <3> QED
      BY <3>1, <3>2, <3>3, <3>4
  <2>3. ASSUME NEW y \in Int, NEW z \in Int
        PROVE  y * r + z * a = (z - y * quo) * a + y * b
    <3>0. z - y * quo \in Int /\ (z - y * quo) + y * quo = z
      BY <2>1
    <3> QED
      BY <3>0, <2>2
  <2>4. \A y, z \in Int : y + z * quo \in Int /\ z - y * quo \in Int
    BY <2>1
  <2>5. \A c : c \in Combinations(a, b) => c \in Combinations(r, a)
    <3> SUFFICES ASSUME NEW c \in Nat, c > 0, NEW y \in Int, NEW z \in Int, c = y * a + z * b
                 PROVE  \E u, v \in Int : c = u * r + v * a
      BY DEF Combinations
    <3>1. c = z * r + (y + z * quo) * a /\ y + z * quo \in Int
      BY <2>2, <2>4
    <3> QED
      BY <3>1
  <2>6. \A c : c \in Combinations(r, a) => c \in Combinations(a, b)
    <3> SUFFICES ASSUME NEW c \in Nat, c > 0, NEW y \in Int, NEW z \in Int, c = y * r + z * a
                 PROVE  \E u, v \in Int : c = u * a + v * b
      BY DEF Combinations
    <3>1. c = (z - y * quo) * a + y * b /\ z - y * quo \in Int
      BY <2>3, <2>4
    <3> QED
      BY <3>1
  <2> QED
    BY <2>5, <2>6 DEF r
<1> DEFINE g == [x \in Nat \X Nat |-> Gcd_(x[1], x[2])]
<1>3. \A m, n \in Nat : g[<<m, n>>] = Gcd_(m, n)
  OBVIOUS
<1>4. ASSUME NEW x \in Nat \X Nat
      PROVE  g[x] = IF x[1] = 0 THEN x[2] ELSE g[<<x[2] % x[1], x[1]>>]
  <2>1. x[1] \in Nat /\ x[2] \in Nat /\ g[x] = Gcd_(x[1], x[2])
    OBVIOUS
  <2>2. CASE x[1] = 0
    BY <1>1, <2>1, <2>2 DEF Gcd_
  <2>3. CASE x[1] # 0
    <3>1. x[2] % x[1] \in Nat
      BY <2>1, <2>3, Division
    <3>2. g[<<x[2] % x[1], x[1]>>] = Gcd_(x[2] % x[1], x[1])
      BY <1>3, <2>1, <3>1
    <3>3. Gcd_(x[2] % x[1], x[1]) = Gcd_(x[1], x[2])
      BY <1>2, <2>1, <2>3 DEF Gcd_
    <3> QED
      BY <2>1, <2>3, <3>2, <3>3
  <2> QED
    BY <2>2, <2>3
<1>5. IsGcd(g)
  BY <1>4 DEF IsGcd
<1> QED
  BY <1>5

LEMMA GcdIsDivisor ==
  ASSUME NEW a \in Nat, NEW b \in Nat
  PROVE  IsDivisor(gcd[<<a, b>>], a, b)
<1>1. IsGcd(gcd)
  <2>1. gcd = CHOOSE g : IsGcd(g)
    BY DEF gcd, IsGcd
  <2> QED
    BY <2>1, GcdExists
<1> QED
  BY <1>1, GcdDivides
-----------------------------------------------------------------------------
(* The walk over the processors by steps of d, among m.                      *)
\* l steps come back to the start, and no less.
IsOrder(l, d, m) ==
  /\ l \in Nat /\ l > 0 /\ Divides(m, l * d)
  /\ \A i \in 1 .. l - 1 : ~Divides(m, i * d)

LEMMA OrderExists ==
  ASSUME NEW m \in Nat, m > 0, NEW d \in Nat
  PROVE  \E l : IsOrder(l, d, m)
<1> DEFINE T == {i \in Nat : i > 0 /\ Divides(m, i * d)}
<1>1. m \in T
  BY DEF Divides
<1>2. PICK l \in T : \A i \in T : l <= i
  BY <1>1, LeastNat
<1>3. \A i \in 1 .. l - 1 : i \in Nat /\ i > 0 /\ ~(l <= i)
  BY <1>2
<1> QED
  BY <1>2, <1>3 DEF IsOrder

\* The place reached by the i-th step of the walk that starts at a.
Visited(i, a, d, m) == (a + i * d) % m

LEMMA PlacesApart ==
  ASSUME NEW m \in Nat, m > 0, NEW d \in Nat, NEW g, IsDivisor(g, d, m), NEW l, IsOrder(l, d, m),
         NEW a \in 0 .. g - 1, NEW b \in 0 .. g - 1, NEW i \in 0 .. l - 1, NEW j \in 0 .. l - 1,
         Visited(i, a, d, m) = Visited(j, b, d, m)
  PROVE  a = b /\ i = j
<1>1. g \in Nat /\ g > 0 /\ l \in Nat /\ l > 0 /\ a \in Int /\ b \in Int /\ i \in Int /\ j \in Int
      /\ d \in Int /\ m \in Int
  BY DEF IsDivisor, IsOrder
<1>2. i * d \in Int /\ j * d \in Int /\ (i - j) * d = i * d - j * d /\ (j - i) * d = j * d - i * d
      /\ i - j \in Int /\ j - i \in Int
  BY <1>1
<1>3. Divides(m, (a + i * d) - (b + j * d))
  <2> DEFINE u == a + i * d
             v == b + j * d
  <2>1. u \in Int /\ v \in Int /\ u % m = v % m
    BY <1>1, <1>2 DEF Visited
  <2> HIDE DEF u, v
  <2>2. Divides(m, u - v)
    BY <2>1, SameRemainder
  <2> QED
    BY <2>2 DEF u, v
<1>4. Divides(g, a - b)
  <2>1. Divides(g, d) /\ Divides(g, m)
    BY DEF IsDivisor
  <2>2. PICK x \in Int : (a + i * d) - (b + j * d) = m * x
    BY <1>3 DEF Divides
  <2>3. m * x \in Int /\ (j - i) * d \in Int
    BY <1>1, <1>2, <2>2
  <2>4. \A v, z \in Int : Divides(g, v) => Divides(g, v * z) /\ Divides(g, z * v)
    <3>1. g \in Int
      BY <1>1
    <3> QED
      BY <3>1, MultipleProduct, Zenon
  <2>5. Divides(g, m * x) /\ Divides(g, (j - i) * d)
    BY <1>1, <1>2, <2>1, <2>2, <2>4, Zenon
  <2>6. a - b = m * x + (j - i) * d
    BY <1>1, <1>2, <2>2, <2>3
  <2>7. Divides(g, m * x + (j - i) * d)
    BY <1>1, <2>3, <2>5, MultipleSum
  <2> QED
    BY <2>6, <2>7
<1>5. a = b
  <2>1. -g < a - b /\ a - b < g /\ a - b \in Int
    BY <1>1
  <2>2. a - b = 0
    BY <1>1, <1>4, <2>1, Small
  <2> QED
    BY <1>1, <2>2
<1>6. Divides(m, (i - j) * d) /\ Divides(m, (j - i) * d)
  <2>1. (a + i * d) - (b + j * d) = (i - j) * d
    BY <1>1, <1>2, <1>5
  <2>2. Divides(m, (i - j) * d)
    BY <1>3, <2>1
  <2>3. PICK x \in Int : (i - j) * d = m * x
    BY <2>2 DEF Divides
  <2>4. (j - i) * d = m * (-x) /\ -x \in Int
    BY <1>1, <1>2, <2>3
  <2> QED
    BY <2>2, <2>4 DEF Divides
<1>7. i = j
  <2>1. CASE i > j
    <3>1. i - j \in 1 .. l - 1
      BY <1>1, <2>1
    <3> QED
      BY <1>6, <3>1 DEF IsOrder
  <2>2. CASE i < j
    <3>1. j - i \in 1 .. l - 1
      BY <1>1, <2>2
    <3> QED
      BY <1>6, <3>1 DEF IsOrder
  <2> QED
    BY <1>1, <2>1, <2>2
<1> QED
  BY <1>5, <1>7

\* The walks from the first g places reach all the places.
LEMMA PlacesReached ==
  ASSUME NEW m \in Nat, m > 0, NEW d \in Nat, NEW g, IsDivisor(g, d, m), NEW l, IsOrder(l, d, m),
         NEW r \in 0 .. m - 1
  PROVE  \E a \in 0 .. g - 1, i \in 0 .. l - 1 : Visited(i, a, d, m) = r
<1>1. g \in Nat /\ g > 0 /\ l \in Nat /\ l > 0 /\ r \in Int /\ d \in Int /\ m \in Int
  BY DEF IsDivisor, IsOrder
<1> DEFINE h == r \div g
           a == r % g
<1>2. h \in Int /\ a \in 0 .. g - 1 /\ r = g * h + a
  BY <1>1, Division
<1>3. PICK y \in Int, z \in Int : g = y * d + z * m
  BY DEF IsDivisor
<1> HIDE DEF h, a
<1> DEFINE e == (y * h) \div l
           i == (y * h) % l
<1>4. y * h \in Int /\ e \in Int /\ i \in 0 .. l - 1 /\ y * h = l * e + i
  <2>1. y * h \in Int
    BY <1>2
  <2> QED
    BY <1>1, <2>1, Division
<1> HIDE DEF e, i
<1>5. PICK x \in Int : l * d = m * x
  BY DEF IsOrder, Divides
<1>6. (a + i * d) - r = m * (-(x * e) - z * h) /\ -(x * e) - z * h \in Int
  <2>1. g * h = (y * d) * h + (z * m) * h
    BY <1>2, <1>3
  <2>2. (y * d) * h = (y * h) * d
    BY <1>1, <1>2
  <2>3. (y * h) * d = (l * e) * d + i * d
    BY <1>1, <1>4
  <2>4. (l * e) * d = (l * d) * e
    BY <1>1, <1>4
  <2>5. (l * d) * e = m * (x * e)
    BY <1>1, <1>4, <1>5
  <2>6. (z * m) * h = m * (z * h)
    BY <1>1, <1>2
  <2>7. m * (-(x * e) - z * h) = -(m * (x * e)) - m * (z * h)
    BY <1>1, <1>2, <1>4
  <2>8. /\ i * d \in Int /\ m * (x * e) \in Int /\ m * (z * h) \in Int /\ g * h \in Int /\ a \in Int
        /\ -(x * e) - z * h \in Int
    BY <1>1, <1>2, <1>4
  <2>9. g * h = m * (x * e) + i * d + m * (z * h)
    BY <2>1, <2>2, <2>3, <2>4, <2>5, <2>6, <2>8
  <2> QED
    BY <1>1, <1>2, <2>7, <2>8, <2>9
<1>7. (a + i * d) % m = r % m
  <2>1. a + i * d \in Int
    BY <1>1, <1>2, <1>4
  <2>2. Divides(m, (a + i * d) - r)
    BY <1>6 DEF Divides
  <2> QED
    BY <1>1, <2>1, <2>2, SameRemainder
<1>8. r % m = r
  <2>1. r = m * 0 + r
    BY <1>1
  <2> QED
    BY <1>1, <2>1, Division
<1> QED
  BY <1>2, <1>4, <1>7, <1>8 DEF Visited

-----------------------------------------------------------------------------
\* Where the s-th thread is placed: walks of l steps from the places 0 to g - 1
\* in turn.
StartOf(s, g, l) == (s \div l) % g
PlaceOf(s, g, l, d, m) == Visited(s % l, StartOf(s, g, l), d, m)

\* The s-th thread is placed by step i of a walk that starts at a.
At(s, a, i, g, l) == \E x \in Int : s = l * (g * x + a) + i

LEMMA Coordinates ==
  ASSUME NEW g \in Nat, g > 0, NEW l \in Nat, l > 0, NEW s \in Int
  PROVE  /\ StartOf(s, g, l) \in 0 .. g - 1 /\ s % l \in 0 .. l - 1
         /\ At(s, StartOf(s, g, l), s % l, g, l)
         /\ \A a \in 0 .. g - 1, i \in 0 .. l - 1 :
              At(s, a, i, g, l) => a = StartOf(s, g, l) /\ i = s % l
<1> DEFINE quo == s \div l
<1>1. quo \in Int /\ s % l \in 0 .. l - 1 /\ s = l * quo + (s % l)
  BY Division
<1>2. StartOf(s, g, l) = quo % g
  BY DEF StartOf
<1> HIDE DEF quo
<1>3. quo % g \in 0 .. g - 1 /\ quo \div g \in Int /\ quo = g * (quo \div g) + (quo % g)
  BY <1>1, Division
<1>4. At(s, quo % g, s % l, g, l)
  <2>1. s = l * (g * (quo \div g) + (quo % g)) + (s % l)
    BY <1>1, <1>3
  <2> QED
    BY <1>3, <2>1 DEF At
<1>5. ASSUME NEW a \in 0 .. g - 1, NEW i \in 0 .. l - 1, At(s, a, i, g, l)
      PROVE  a = quo % g /\ i = s % l
  <2>1. PICK x \in Int : s = l * (g * x + a) + i
    BY <1>5 DEF At
  <2>2. g * x + a \in Int
    OBVIOUS
  <2>3. g * x + a = quo /\ i = s % l
    BY <2>1, <2>2, Division DEF quo
  <2>4. a = quo % g
    BY <1>1, <2>3, Division
  <2> QED
    BY <2>3, <2>4
<1> QED
  BY <1>1, <1>2, <1>3, <1>4, <1>5

LEMMA CoordinatesUnique ==
  ASSUME NEW g \in Nat, g > 0, NEW l \in Nat, l > 0, NEW s \in Int,
         NEW a \in 0 .. g - 1, NEW i \in 0 .. l - 1, At(s, a, i, g, l)
  PROVE  a = StartOf(s, g, l) /\ i = s % l
  BY Coordinates

LEMMA WalkApart ==
  ASSUME NEW m \in Nat, m > 0, NEW d \in Nat, NEW g, IsDivisor(g, d, m), NEW l, IsOrder(l, d, m),
         NEW s \in Nat, NEW t \in Nat, s < t, PlaceOf(s, g, l, d, m) = PlaceOf(t, g, l, d, m)
  PROVE  t - s >= g * l
<1>1. g \in Nat /\ g > 0 /\ l \in Nat /\ l > 0 /\ s \in Int /\ t \in Int
  BY DEF IsDivisor, IsOrder
<1>2. /\ StartOf(s, g, l) \in 0 .. g - 1 /\ s % l \in 0 .. l - 1
      /\ StartOf(t, g, l) \in 0 .. g - 1 /\ t % l \in 0 .. l - 1
  BY <1>1, Coordinates
<1>3. StartOf(s, g, l) = StartOf(t, g, l) /\ s % l = t % l
  BY <1>1, <1>2, PlacesApart DEF PlaceOf
<1>4. PICK x \in Int : s = l * (g * x + StartOf(s, g, l)) + (s % l)
  BY <1>1, Coordinates DEF At
<1>5. PICK y \in Int : t = l * (g * y + StartOf(t, g, l)) + (t % l)
  BY <1>1, Coordinates DEF At
<1> DEFINE a == StartOf(s, g, l)
           i == s % l
<1>6. s = l * (g * x + a) + i /\ t = l * (g * y + a) + i /\ a \in Int /\ i \in Int
  BY <1>2, <1>3, <1>4, <1>5
<1> HIDE DEF a, i
<1>7. t - s = (g * l) * (y - x)
  <2>1. l * (g * x + a) = (g * l) * x + l * a /\ l * (g * y + a) = (g * l) * y + l * a
    BY <1>1, <1>6
  <2>2. (g * l) * (y - x) = (g * l) * y - (g * l) * x
    BY <1>1
  <2>3. (g * l) * x \in Int /\ (g * l) * y \in Int /\ l * a \in Int
    BY <1>1, <1>6
  <2> QED
    BY <1>6, <2>1, <2>2, <2>3
<1>8. g * l \in Nat /\ y - x \in Int
  BY <1>1
<1> QED
  <2> DEFINE p == g * l
             z == y - x
  <2>1. p \in Nat /\ z \in Int /\ p * z > 0 /\ t - s = p * z
    BY <1>7, <1>8
  <2> HIDE DEF p, z
  <2>2. z >= 1
    BY <2>1
  <2>3. p * z >= p
    BY <2>1, <2>2
  <2> QED
    BY <2>1, <2>3 DEF p

LEMMA WalkReaches ==
  ASSUME NEW m \in Nat, m > 0, NEW d \in Nat, NEW g, IsDivisor(g, d, m), NEW l, IsOrder(l, d, m),
         NEW w \in Nat, NEW r \in 0 .. m - 1
  PROVE  \E s \in w .. w + g * l - 1 : PlaceOf(s, g, l, d, m) = r
<1>1. g \in Nat /\ g > 0 /\ l \in Nat /\ l > 0
  BY DEF IsDivisor, IsOrder
<1>2. PICK a \in 0 .. g - 1, i \in 0 .. l - 1 : Visited(i, a, d, m) = r
  BY PlacesReached
<1> DEFINE p == g * l
           u == l * a + i
           s == w + ((u - w) % p)
<1>3. p \in Nat /\ p > 0 /\ u \in Int
  BY <1>1
<1>4. PICK x \in Int : s - u = p * x
  <2> HIDE DEF p, u
  <2>1. u - w \in Int /\ (u - w) \div p \in Int
        /\ u - w = p * ((u - w) \div p) + ((u - w) % p) /\ (u - w) % p \in 0 .. p - 1
    BY <1>3, Division
  <2>2. s - u = p * (-((u - w) \div p))
    BY <1>3, <2>1
  <2> QED
    BY <2>1, <2>2
<1>5. (u - w) % p \in 0 .. p - 1
  <2> HIDE DEF p, u
  <2> QED
    BY <1>3, Division
<1>6. s \in w .. w + p - 1 /\ s \in Int
  <2> HIDE DEF p, u
  <2> QED
    BY <1>3, <1>5
<1>7. s = l * (g * x + a) + i
  <2>1. s = p * x + (l * a + i) /\ p * x = (g * l) * x
    <3> HIDE DEF s, p
    <3> QED
      BY <1>3, <1>4, <1>6 DEF p
  <2>2. (g * l) * x = l * (g * x)
    BY <1>1
  <2>3. l * (g * x + a) = l * (g * x) + l * a
    BY <1>1
  <2>4. l * (g * x) \in Int /\ l * a \in Int
    BY <1>1
  <2> HIDE DEF s, p
  <2> QED
    BY <2>1, <2>2, <2>3, <2>4
<1> HIDE DEF s
<1>8. a = StartOf(s, g, l) /\ i = s % l
  <2>1. At(s, a, i, g, l)
    BY <1>7 DEF At
  <2> HIDE DEF p, u
  <2> QED
    BY <1>1, <1>6, <2>1, CoordinatesUnique
<1> QED
  BY <1>2, <1>6, <1>8 DEF PlaceOf

LEMMA WalkNext ==
  ASSUME NEW m \in Nat, m > 0, NEW d \in Nat, NEW g, IsDivisor(g, d, m), NEW l, IsOrder(l, d, m),
         NEW s \in Nat,
         NEW n, n = (PlaceOf(s, g, l, d, m) + d) % m,
         NEW a, a = StartOf(s, g, l)
  PROVE  /\ PlaceOf(s + 1, g, l, d, m) = IF n = a THEN (a + 1) % g ELSE n
         /\ StartOf(s + 1, g, l) = IF n = a THEN (a + 1) % g ELSE a
<1>1. /\ g \in Nat /\ g > 0 /\ l \in Nat /\ l > 0 /\ s \in Int /\ s + 1 \in Int
      /\ a \in 0 .. g - 1 /\ s % l \in 0 .. l - 1 /\ d \in Int
  BY Coordinates DEF IsDivisor, IsOrder
<1>2. g <= m
  <2>1. PICK y \in Int : m = g * y
    BY DEF IsDivisor, Divides
  <2>2. y >= 1
    BY <1>1, <2>1
  <2> QED
    BY <1>1, <2>1, <2>2
<1>3. PICK x \in Int : s = l * (g * x + a) + (s % l)
  <2>1. At(s, a, s % l, g, l)
    BY <1>1, Coordinates
  <2> QED
    BY <2>1 DEF At
<1> DEFINE i == s % l
<1>4. i \in 0 .. l - 1 /\ i * d \in Int /\ (i + 1) * d = i * d + d /\ s = l * (g * x + a) + i
  BY <1>1, <1>3
<1>5. n = (a + (i + 1) * d) % m
  <2> DEFINE u == a + i * d
  <2>1. u \in Int /\ n = ((u % m) + d) % m
    BY <1>1, <1>4 DEF PlaceOf, Visited
  <2> HIDE DEF u, i
  <2>2. u = m * (u \div m) + (u % m) /\ u \div m \in Int /\ u % m \in Int
    BY <2>1, Division
  <2>3. (u + d) - ((u % m) + d) = m * (u \div m)
    BY <2>1, <2>2
  <2>4. (u + d) % m = ((u % m) + d) % m
    <3>1. Divides(m, (u + d) - ((u % m) + d))
      BY <2>2, <2>3 DEF Divides
    <3>2. u + d \in Int /\ (u % m) + d \in Int
      BY <2>1, <2>2
    <3> QED
      BY <3>1, <3>2, SameRemainder
  <2>5. u + d = a + (i + 1) * d
    BY <1>1, <1>4 DEF u
  <2> QED
    BY <2>1, <2>4, <2>5
<1>6. a % m = a
  <2>1. a = m * 0 + a /\ a \in 0 .. m - 1
    BY <1>1, <1>2
  <2> QED
    BY <1>1, <2>1, Division
<1> HIDE DEF i
<1>7. n = a <=> Divides(m, (i + 1) * d)
  <2>1. (a + (i + 1) * d) - a = (i + 1) * d /\ a + (i + 1) * d \in Int
    BY <1>1, <1>4
  <2>2. (a + (i + 1) * d) % m = a % m <=> Divides(m, (a + (i + 1) * d) - a)
    BY <1>1, <2>1, SameRemainder
  <2> QED
    BY <1>5, <1>6, <2>1, <2>2
<1>8. CASE i + 1 = l
  <2>1. n = a
    BY <1>7, <1>8 DEF IsOrder
  <2> DEFINE b == (a + 1) % g
  <2>2. \E y \in Int : a + 1 = g * y + b /\ b \in 0 .. g - 1
    <3> DEFINE c == a + 1
    <3>1. c \in Int /\ b = c % g
      BY <1>1
    <3> HIDE DEF c, b
    <3>2. c = g * (c \div g) + (c % g) /\ c \div g \in Int /\ c % g \in 0 .. g - 1
      BY <1>1, <3>1, Division
    <3> QED
      BY <3>1, <3>2 DEF c
  <2> HIDE DEF b
  <2>2a. PICK y \in Int : a + 1 = g * y + b /\ b \in 0 .. g - 1
    BY <2>2
  <2>3. s + 1 = l * (g * (x + y) + b) + 0 /\ x + y \in Int /\ 0 \in 0 .. l - 1
    <3> DEFINE z == g * x + a
    <3>1. z \in Int /\ s = l * z + i
      BY <1>1, <1>4
    <3>2. z + 1 = g * (x + y) + b
      <4>1. g * (x + y) = g * x + g * y /\ g * x \in Int /\ g * y \in Int
        BY <1>1
      <4>2. a \in Int /\ b \in Int /\ a + 1 = g * y + b
        BY <1>1, <2>2a
      <4> QED
        BY <4>1, <4>2
    <3> HIDE DEF z
    <3>3. s + 1 = l * (z + 1)
      <4>1. l * (z + 1) = l * z + l /\ l * z \in Int
        BY <1>1, <3>1
      <4>2. i \in Int /\ l = i + 1
        BY <1>1, <1>4, <1>8
      <4> QED
        BY <3>1, <4>1, <4>2
    <3> QED
      BY <1>1, <3>2, <3>3
  <2>4. b = StartOf(s + 1, g, l) /\ 0 = (s + 1) % l
    <3>1. At(s + 1, b, 0, g, l)
      BY <2>3 DEF At
    <3> DEFINE t == s + 1
    <3>2. t \in Int /\ At(t, b, 0, g, l)
      BY <1>1, <3>1
    <3> HIDE DEF t
    <3>3. b = StartOf(t, g, l) /\ 0 = t % l
      BY <1>1, <2>2a, <2>3, <3>2, CoordinatesUnique, Zenon
    <3> QED
      BY <3>3 DEF t
  <2>5. PlaceOf(s + 1, g, l, d, m) = b
    <3>1. b + 0 * d = b /\ b = m * 0 + b /\ b \in 0 .. m - 1 /\ b \in Int
      BY <1>1, <1>2, <2>2a
    <3>2. b % m = b
      BY <3>1, Division
    <3> QED
      BY <2>4, <3>1, <3>2 DEF PlaceOf, Visited
  <2> QED
    BY <2>1, <2>4, <2>5 DEF b
<1>9. CASE i + 1 # l
  <2>1. i + 1 \in 1 .. l - 1 /\ i + 1 \in 0 .. l - 1
    BY <1>1, <1>4, <1>9
  <2>2. n # a
    BY <1>7, <2>1 DEF IsOrder
  <2>3. s + 1 = l * (g * x + a) + (i + 1)
    <3>1. l * (g * x + a) \in Int
      BY <1>1
    <3> QED
      BY <1>4, <3>1
  <2>4. a = StartOf(s + 1, g, l) /\ i + 1 = (s + 1) % l
    <3>1. At(s + 1, a, i + 1, g, l)
      BY <2>3 DEF At
    <3> DEFINE t == s + 1
               j == i + 1
    <3>2. t \in Int /\ At(t, a, j, g, l) /\ j \in 0 .. l - 1
      BY <1>1, <2>1, <3>1
    <3> HIDE DEF t, j
    <3>3. a = StartOf(t, g, l) /\ j = t % l
      BY <1>1, <3>2, CoordinatesUnique, Zenon
    <3> QED
      BY <3>3 DEF t, j
  <2> QED
    BY <1>5, <2>2, <2>4 DEF PlaceOf, Visited
<1> QED
  BY <1>8, <1>9

-----------------------------------------------------------------------------
(* The load of the processors, in modes incr and random.                     *)
\* A comes back after n steps at least, and B is in each window of n steps.
LEMMA EvenLoad ==
  ASSUME NEW K \in Int, NEW A \in SUBSET (0 .. K - 1), NEW B \in SUBSET (0 .. K - 1),
         NEW n \in Nat, n > 0,
         \A s, t \in A : s < t => t - s >= n,
         \A w \in Nat : w + n <= K => \E s \in w .. w + n - 1 : s \in B
  PROVE  Cardinality(A) <= Cardinality(B) + 1
<1>1. IsFiniteSet(0 .. K - 1)
  BY FS_Interval
<1>2. IsFiniteSet(A) /\ IsFiniteSet(B)
  BY <1>1, FS_Subset
<1>3. Cardinality(A) \in Nat /\ Cardinality(B) \in Nat
  BY <1>2, FS_CardinalityType
<1>4. CASE A = {}
  <2>1. Cardinality(A) = 0
    BY <1>4, FS_EmptySet
  <2> QED
    BY <1>3, <2>1
<1>5. CASE A # {}
  <2>1. A \in SUBSET Nat
    OBVIOUS
  <2>2. PICK m \in A : \A s \in A : m <= s
    BY <1>5, <2>1, LeastNat
  <2> DEFINE In_(s, u) == u \in (s - n + 1) .. s /\ u \in B
             h == [s \in A \ {m} |-> CHOOSE u : In_(s, u)]
  <2>3. ASSUME NEW s \in A \ {m} PROVE In_(s, h[s])
    <3>1. s - n + 1 \in Nat /\ (s - n + 1) + n <= K
      <4>1. s \in 0 .. K - 1 /\ m \in 0 .. K - 1 /\ m < s
        BY <2>2
      <4>2. s - m >= n
        BY <2>2, <4>1
      <4> QED
        BY <4>1, <4>2
    <3>2. \E u \in (s - n + 1) .. (s - n + 1) + n - 1 : u \in B
      BY <3>1
    <3>3. \E u : In_(s, u)
      BY <3>1, <3>2
    <3> HIDE DEF In_
    <3>4. In_(s, CHOOSE u : In_(s, u))
      BY <3>3
    <3> QED
      BY <3>4
  <2> HIDE DEF h
  <2>4. h \in [A \ {m} -> B]
    <3>1. \A s \in A \ {m} : h[s] \in B
      BY <2>3
    <3>2. h = [s \in A \ {m} |-> h[s]]
      BY DEF h
    <3> QED
      BY <3>1, <3>2
  <2>5. ASSUME NEW s \in A \ {m}, NEW t \in A \ {m}, s < t PROVE h[s] # h[t]
    <3>1. h[s] \in (s - n + 1) .. s /\ h[t] \in (t - n + 1) .. t /\ t - s >= n
      BY <2>3, <2>5
    <3> QED
      BY <3>1
  <2>6. \A s, t \in A \ {m} : h[s] = h[t] => s = t
    <3>1. \A s, t \in A : s \in Int /\ t \in Int /\ (s < t \/ t < s \/ s = t)
      OBVIOUS
    <3> QED
      BY <2>5, <3>1
  <2>7. Cardinality(A \ {m}) <= Cardinality(B)
    <3>1. h \in Injection(A \ {m}, B)
      BY <2>4, <2>6 DEF Injection, IsInjective
    <3> QED
      BY <1>2, <3>1, FS_Injection
  <2>8. Cardinality(A \ {m}) = Cardinality(A) - 1
    BY <1>2, <2>2, FS_RemoveElement
  <2> QED
    BY <1>3, <2>7, <2>8
<1> QED
  BY <1>4, <1>5

\* The threads of one processor, when each has a number, which is not repeated.
LEMMA LoadsOf ==
  ASSUME NEW m \in Nat, NEW xs \in [0 .. m - 1 -> Int], \A i, j \in 0 .. m - 1 : xs[i] = xs[j] => i = j,
         NEW i \in 0 .. m - 1, NEW D, NEW f \in [D -> 0 .. m - 1]
  PROVE  {s \in D : xs[f[s]] = xs[i]} = {s \in D : f[s] = i}
  OBVIOUS

-----------------------------------------------------------------------------
\* The steps after which the walk of mode incr comes back.
Turn == CHOOSE l : IsOrder(l, delta, all_cpus_sz)

\* The position of the processor of the s-th thread.
Nth(s) == PlaceOf(s, max_start, Turn, delta, all_cpus_sz)

\* The array is a permutation of the processors, repeated as often as needed.
Shuffled(f) ==
  /\ f \in Injection(0 .. aff_cpus_sz - 1, 0 .. aff_cpus_sz - 1)
  /\ aff_cpus = [s \in 0 .. aff_cpus_sz - 1 |-> all_cpus[f[s] % all_cpus_sz]]

RunTypeOK ==
  cmd.cpus \in Seq(Nat) /\ cmd.n_exe \in Int /\ cmd.aff_incr \in Int /\ k \in Nat /\ ComsOK

IncrInv ==
  cmd.mode = "incr" =>
    /\ DOMAIN aff_cpus = Slots /\ \A s \in 0 .. k - 1 : s \in Slots
    /\ cmd.aff_incr <= 0 => \A s \in Slots : aff_cpus[s] = -1
    /\ cmd.aff_incr > 0 /\ all_cpus_sz > 0 =>
         /\ next_cpu = Nth(k) /\ start_scan = StartOf(k, max_start, Turn)
         /\ \A s \in Slots : aff_cpus[s] = IF s < k THEN all_cpus[Nth(s)] ELSE -1

ShuffleInv ==
  cmd.mode = "random" /\ aff_cpus_sz < Size /\ all_cpus_sz > 0 => \E f : Shuffled(f)

LoadInv ==
  /\ outcome # "running" => next_cpu = 0 /\ start_scan = 0
  /\ cmd.mode \in {"incr", "random"} => RunTypeOK
  /\ IncrInv /\ ShuffleInv

LEMMA Processors ==
  ASSUME RunTypeOK
  PROVE  /\ all_cpus_sz \in Nat /\ N \in Nat /\ N > 0 /\ N * cmd.n_exe \in Int
         /\ all_cpus \in [0 .. all_cpus_sz - 1 -> Nat]
         /\ \A p \in Procs : \E i \in 0 .. all_cpus_sz - 1 : p = all_cpus[i]
         /\ \A p \in Procs : p \in Nat
         /\ IsInjective(cmd.cpus) =>
              \A i, j \in 0 .. all_cpus_sz - 1 : all_cpus[i] = all_cpus[j] => i = j
<1> DEFINE xs == cmd.cpus
<1>1. xs \in Seq(Nat) /\ all_cpus_sz = Len(xs) /\ Len(xs) \in Nat /\ DOMAIN xs = 1 .. Len(xs)
      /\ \A i \in 1 .. Len(xs) : xs[i] \in Nat
  BY DEF RunTypeOK, all_cpus_sz
<1>2. all_cpus = [i \in 0 .. all_cpus_sz - 1 |-> xs[i + 1]]
  BY DEF all_cpus
<1>3. Procs = {xs[i] : i \in DOMAIN xs}
  BY DEF Procs, Range
<1>4. N \in Nat /\ N > 0
  BY DEF RunTypeOK, ComsOK, N
<1>5. N * cmd.n_exe \in Int
  BY <1>4 DEF RunTypeOK
<1> HIDE DEF xs
<1>6. \A i \in 1 .. Len(xs) : i - 1 \in 0 .. Len(xs) - 1 /\ (i - 1) + 1 = i
  BY <1>1
<1>7. \A i \in 0 .. Len(xs) - 1 : i + 1 \in 1 .. Len(xs)
  BY <1>1
<1>8. all_cpus \in [0 .. all_cpus_sz - 1 -> Nat]
  BY <1>1, <1>2, <1>7
<1>9. \A i \in 1 .. Len(xs) : xs[i] = all_cpus[i - 1]
  BY <1>1, <1>2, <1>6
<1>10. \A p \in Procs : p \in Nat /\ \E i \in 0 .. all_cpus_sz - 1 : p = all_cpus[i]
  BY <1>1, <1>3, <1>6, <1>9
<1>11. IsInjective(xs) => \A i, j \in 0 .. all_cpus_sz - 1 : all_cpus[i] = all_cpus[j] => i = j
  <2> SUFFICES ASSUME IsInjective(xs), NEW i \in 0 .. all_cpus_sz - 1, NEW j \in 0 .. all_cpus_sz - 1,
                      all_cpus[i] = all_cpus[j]
               PROVE  i = j
    OBVIOUS
  <2>1. xs[i + 1] = xs[j + 1] /\ i + 1 \in DOMAIN xs /\ j + 1 \in DOMAIN xs
    BY <1>1, <1>2, <1>7
  <2>2. i + 1 = j + 1
    BY <2>1 DEF IsInjective
  <2> QED
    BY <1>1, <2>2
<1> QED
  BY <1>1, <1>4, <1>5, <1>8, <1>10, <1>11 DEF xs

\* The step and the start of the walks.
LEMMA WalkData ==
  ASSUME RunTypeOK, cmd.aff_incr > 0, all_cpus_sz > 0
  PROVE  /\ delta \in 0 .. all_cpus_sz - 1
         /\ IsDivisor(max_start, delta, all_cpus_sz)
         /\ IsOrder(Turn, delta, all_cpus_sz)
<1>1. all_cpus_sz \in Nat /\ cmd.aff_incr \in Int
  BY Processors DEF RunTypeOK
<1>2. delta = cmd.aff_incr % all_cpus_sz
  BY <1>1 DEF delta
<1>3. delta \in 0 .. all_cpus_sz - 1
  BY <1>1, <1>2
<1>4. delta \in Nat
  BY <1>3
<1>5. IsDivisor(max_start, delta, all_cpus_sz)
  BY <1>1, <1>4, GcdIsDivisor DEF max_start
<1>6. \E l : IsOrder(l, delta, all_cpus_sz)
  BY <1>1, <1>4, OrderExists
<1> QED
  BY <1>3, <1>5, <1>6 DEF Turn

-----------------------------------------------------------------------------
\* The state run starts the placement from.
LoadStart ==
  /\ RunTypeOK /\ aff_cpus = FirstCpus
  /\ k = 0 /\ next_cpu = 0 /\ start_scan = 0

LEMMA FirstWalk == LoadStart => IncrInv
<1> SUFFICES ASSUME LoadStart, cmd.mode = "incr" PROVE IncrInv
  BY DEF IncrInv
<1>1. RunTypeOK /\ k = 0 /\ next_cpu = 0 /\ start_scan = 0 /\ aff_cpus = FirstCpus
  BY DEF LoadStart
<1>2. aff_cpus = [s \in Slots |-> -1]
  <2>1. aff_cpus_sz = N * cmd.n_exe
    BY DEF aff_cpus_sz
  <2> QED
    BY <1>1, <2>1 DEF FirstCpus, Slots
<1>3. DOMAIN aff_cpus = Slots /\ \A s \in Slots : aff_cpus[s] = -1
  BY <1>2
<1>4. \A s \in 0 .. k - 1 : FALSE
  BY <1>1
<1>5. \A s \in Slots : ~(s < k)
  BY <1>1 DEF Slots
<1>6. ASSUME cmd.aff_incr > 0, all_cpus_sz > 0
      PROVE  0 = Nth(0) /\ 0 = StartOf(0, max_start, Turn)
  <2> DEFINE g == max_start
             l == Turn
             d == delta
             m == all_cpus_sz
  <2>1. /\ g \in Nat /\ g > 0 /\ l \in Nat /\ l > 0 /\ d \in Int /\ m \in Nat /\ m > 0
    BY <1>1, <1>6, WalkData, Processors DEF IsDivisor, IsOrder
  <2> HIDE DEF g, l, d, m
  <2>2. At(0, 0, 0, g, l)
    <3>1. 0 = l * (g * 0 + 0) + 0
      BY <2>1
    <3> QED
      BY <3>1 DEF At
  <2>3. 0 \in 0 .. g - 1 /\ 0 \in 0 .. l - 1 /\ 0 \in Int
    BY <2>1
  <2>4. 0 = StartOf(0, g, l) /\ 0 = 0 % l
    BY <2>1, <2>2, <2>3, CoordinatesUnique, Zenon
  <2>5. Visited(0, 0, d, m) = 0
    <3>1. 0 + 0 * d = 0 /\ 0 = m * 0 + 0 /\ 0 \in 0 .. m - 1
      BY <2>1
    <3>2. 0 % m = 0
      BY <2>1, <3>1, Division
    <3> QED
      BY <3>1, <3>2 DEF Visited
  <2> QED
    BY <2>4, <2>5 DEF Nth, PlaceOf, g, l, d, m
<1> QED
  BY <1>1, <1>3, <1>4, <1>5, <1>6 DEF IncrInv

LEMMA FirstShuffle == LoadStart => ShuffleInv
<1> SUFFICES ASSUME LoadStart, cmd.mode = "random" PROVE \E f : Shuffled(f)
  BY DEF ShuffleInv
<1> DEFINE D == 0 .. aff_cpus_sz - 1
           f == [s \in D |-> s]
<1>1. f \in Injection(D, D)
  BY DEF Injection, IsInjective
<1>2. aff_cpus = [s \in D |-> all_cpus[s % all_cpus_sz]]
  BY DEF LoadStart, FirstCpus
<1>3. aff_cpus = [s \in D |-> all_cpus[f[s] % all_cpus_sz]]
  BY <1>2
<1> HIDE DEF f
<1> QED
  BY <1>1, <1>3 DEF Shuffled

-----------------------------------------------------------------------------
LEMMA AllocateStep ==
  ASSUME RunTypeOK, IncrInv, Allocate
  PROVE  RunTypeOK' /\ IncrInv'
<1>1. /\ cmd.mode = "incr" /\ k \in Slots /\ cmd' = cmd /\ coms' = coms /\ k' = k + 1
      /\ aff_cpus' = [aff_cpus EXCEPT ![k] = Cpu_(next_cpu)]
  BY DEF Allocate
<1> DEFINE n == (next_cpu + delta) % all_cpus_sz
<1>2. next_cpu' = After(n) /\ start_scan' = IF n = start_scan THEN After(n) ELSE start_scan
  BY DEF Allocate
<1>3. /\ Slots' = Slots /\ all_cpus_sz' = all_cpus_sz /\ all_cpus' = all_cpus /\ delta' = delta
      /\ max_start' = max_start
  <2>1. N' = N
    BY <1>1 DEF N
  <2>2. delta' = delta /\ all_cpus_sz' = all_cpus_sz
    BY <1>1 DEF delta, all_cpus_sz
  <2> QED
    BY <1>1, <2>1, <2>2 DEF Slots, all_cpus, max_start
<1>4. Turn' = Turn /\ \A s : PlaceOf(s, max_start, Turn, delta, all_cpus_sz)' = Nth(s)
  <2>1. Turn' = Turn
    BY <1>3 DEF Turn
  <2> QED
    BY <1>3, <2>1 DEF Nth, PlaceOf, StartOf, Visited
<1>5. RunTypeOK'
  BY <1>1 DEF RunTypeOK, ComsOK, N
<1>6. k \in Nat /\ N * cmd.n_exe \in Int
  BY Processors DEF RunTypeOK
<1>7. DOMAIN aff_cpus' = Slots' /\ \A s \in 0 .. k' - 1 : s \in Slots'
  <2>1. \A s \in 0 .. k : s \in Slots
    BY <1>1, <1>6 DEF Slots
  <2>2. k' - 1 = k
    BY <1>1, <1>6
  <2> QED
    BY <1>1, <1>3, <2>1, <2>2 DEF IncrInv
<1>8. DOMAIN aff_cpus = Slots
  BY <1>1 DEF IncrInv
<1>9. ASSUME cmd'.aff_incr <= 0 PROVE \A s \in Slots' : aff_cpus'[s] = -1
  <2>1. cmd.aff_incr <= 0 /\ \A s \in Slots : aff_cpus[s] = -1
    BY <1>1, <1>9 DEF IncrInv
  <2>2. Cpu_(next_cpu) = -1
    BY <2>1 DEF Cpu_
  <2> QED
    BY <1>1, <1>3, <1>8, <2>1, <2>2
<1>10. ASSUME cmd'.aff_incr > 0, all_cpus_sz' > 0
       PROVE  /\ next_cpu' = Nth(k')
              /\ start_scan' = StartOf(k', max_start, Turn)
              /\ \A s \in Slots' : aff_cpus'[s] = IF s < k' THEN all_cpus[Nth(s)] ELSE -1
  <2>1. cmd.aff_incr > 0 /\ all_cpus_sz > 0
    BY <1>1, <1>3, <1>10
  <2>2. /\ next_cpu = Nth(k) /\ start_scan = StartOf(k, max_start, Turn)
        /\ \A s \in Slots : aff_cpus[s] = IF s < k THEN all_cpus[Nth(s)] ELSE -1
    BY <1>1, <2>1 DEF IncrInv
  <2>3. /\ delta \in Nat /\ all_cpus_sz \in Nat
        /\ IsDivisor(max_start, delta, all_cpus_sz) /\ IsOrder(Turn, delta, all_cpus_sz)
    BY <2>1, WalkData, Processors
  <2>4. n = (PlaceOf(k, max_start, Turn, delta, all_cpus_sz) + delta) % all_cpus_sz
    BY <2>2 DEF Nth
  <2> HIDE DEF n
  <2>5. /\ PlaceOf(k + 1, max_start, Turn, delta, all_cpus_sz)
             = IF n = start_scan THEN (start_scan + 1) % max_start ELSE n
        /\ StartOf(k + 1, max_start, Turn)
             = IF n = start_scan THEN (start_scan + 1) % max_start ELSE start_scan
    BY <1>6, <2>1, <2>2, <2>3, <2>4, WalkNext
  <2>6. next_cpu' = Nth(k') /\ start_scan' = StartOf(k', max_start, Turn)
    BY <1>1, <1>2, <2>5 DEF After, Nth
  <2>7. Cpu_(next_cpu) = all_cpus[Nth(k)]
    BY <2>1, <2>2, <1>5 DEF Cpu_, RunTypeOK
  <2>8. ASSUME NEW s \in Slots PROVE aff_cpus'[s] = IF s < k' THEN all_cpus[Nth(s)] ELSE -1
    <3>1. s \in Int /\ k \in Int
      BY <1>6 DEF Slots
    <3>2. CASE s = k
      BY <1>1, <1>8, <2>7, <3>1, <3>2
    <3>3. CASE s # k
      <4>1. aff_cpus'[s] = aff_cpus[s]
        BY <1>1, <1>8, <3>3
      <4>2. s < k' <=> s < k
        BY <1>1, <3>1, <3>3
      <4> QED
        BY <2>2, <4>1, <4>2
    <3> QED
      BY <3>2, <3>3
  <2> QED
    BY <1>3, <2>6, <2>8
<1>11. \A s : Nth(s)' = Nth(s) /\ StartOf(s, max_start, Turn)' = StartOf(s, max_start, Turn)
  BY <1>3, <1>4 DEF Nth, StartOf
<1>12. Nth(k)' = Nth(k') /\ StartOf(k, max_start, Turn)' = StartOf(k', max_start, Turn)
  BY <1>3, <1>4 DEF Nth, StartOf, PlaceOf, Visited
<1> QED
  BY <1>3, <1>5, <1>7, <1>9, <1>10, <1>11, <1>12 DEF IncrInv

-----------------------------------------------------------------------------
\* What rand_k(st,n) returns is below n.
LEMMA DrawnBelow ==
  ASSUME NEW n \in Nat, n > 0, n < Size
  PROVE  rand_k[n] \in SUBSET (0 .. n - 1)
<1>1. Size \in Int /\ Size > 0 /\ Half \in Int /\ Half > 0
  <2>1. W \in Int /\ W \div 2 \in Int
    BY WAssumption
  <2>2. 2 ^ W \in Int /\ 2 ^ (W \div 2) \in Int
    BY <2>1
  <2>3. Size \in Int /\ Half \in Int /\ Half > 0
    BY <2>2, WAssumption DEF Size, Half
  <2> QED
    BY <2>3
<1>2. \A s \in Seeds : unlocked_rand(s) \in Int
  <2> SUFFICES ASSUME NEW s \in Seeds PROVE unlocked_rand(s) \in Int
    OBVIOUS
  <2>1. NextSeed(s) \in Int
    <3>1. 69069 * s + 25173 \in Int
      BY <1>1 DEF Seeds
    <3> QED
      BY <1>1, <3>1 DEF NextSeed
  <2>2. NextSeed(s) \div Half \in Int /\ NextSeed(s) % Half \in Int
    BY <1>1, <2>1
  <2> QED
    BY <1>1, <2>2 DEF unlocked_rand
<1>3. \A r \in Drawn : r % n \in 0 .. n - 1
  BY <1>2 DEF Drawn
<1>4. \A r \in Drawn : Accepts(r, n) = -1 \/ Accepts(r, n) \in 0 .. n - 1
  BY <1>3 DEF Accepts
<1>5. rand_k[n] = {Accepts(r, n) : r \in Drawn} \ {-1}
  <2>1. n \in 1 .. Size - 1
    BY <1>1
  <2> QED
    BY <2>1 DEF rand_k
<1> QED
  BY <1>4, <1>5

LEMMA ShuffleStep ==
  ASSUME RunTypeOK, ShuffleInv, perm_prefix_ints
  PROVE  RunTypeOK' /\ ShuffleInv'
<1>1. cmd.mode = "random" /\ k \in Slots /\ cmd' = cmd /\ coms' = coms /\ k' = k + 1
  BY DEF perm_prefix_ints
<1>2. PICK j \in Draws(k) : aff_cpus' = Swap(aff_cpus, k, j)
  BY DEF perm_prefix_ints
<1>3. RunTypeOK'
  BY <1>1 DEF RunTypeOK, ComsOK, N
<1>4. all_cpus_sz' = all_cpus_sz /\ all_cpus' = all_cpus /\ aff_cpus_sz' = aff_cpus_sz
  <2>1. N' = N /\ all_cpus_sz' = all_cpus_sz
    BY <1>1 DEF N, all_cpus_sz
  <2> QED
    BY <1>1, <2>1 DEF all_cpus, aff_cpus_sz
<1>5. ASSUME aff_cpus_sz < Size, all_cpus_sz > 0 PROVE \E f : Shuffled(f)'
  <2> DEFINE D == 0 .. aff_cpus_sz - 1
             m == all_cpus_sz
  <2>1. PICK f : Shuffled(f)
    BY <1>1, <1>5 DEF ShuffleInv
  <2>2. k \in D /\ j \in D /\ aff_cpus_sz \in Nat
    <3>1. /\ N * cmd.n_exe \in Int /\ all_cpus_sz \in Nat /\ k \in Nat
          /\ k < N * cmd.n_exe
      BY <1>1, Processors DEF Slots, RunTypeOK
    <3>2. aff_cpus_sz \in Nat /\ k < aff_cpus_sz
      BY <3>1 DEF aff_cpus_sz
    <3>3. aff_cpus_sz - k \in Nat /\ aff_cpus_sz - k > 0 /\ aff_cpus_sz - k < Size
      <4>1. Size \in Int
        BY WAssumption DEF Size
      <4> QED
        BY <1>5, <3>1, <3>2, <4>1
    <3>4. rand_k[aff_cpus_sz - k] \in SUBSET (0 .. (aff_cpus_sz - k) - 1)
      BY <3>3, DrawnBelow
    <3>5. PICK v \in rand_k[aff_cpus_sz - k] : j = k + v
      BY <1>2 DEF Draws
    <3>6. v \in 0 .. (aff_cpus_sz - k) - 1
      BY <3>4, <3>5
    <3> QED
      BY <3>1, <3>2, <3>5, <3>6
  <2>3. f \in [D -> D] /\ \A s, t \in D : f[s] = f[t] => s = t
    BY <2>1 DEF Shuffled, Injection, IsInjective
  <2>4. aff_cpus = [s \in D |-> all_cpus[f[s] % m]]
    BY <2>1 DEF Shuffled
  <2> DEFINE h == [f EXCEPT ![k] = f[j], ![j] = f[k]]
  <2> HIDE DEF D, m
  <2>5. h \in [D -> D] /\ \A s, t \in D : h[s] = h[t] => s = t
    BY <2>2, <2>3
  <2>6. \A s \in D : h[s] = IF s = j THEN f[k] ELSE IF s = k THEN f[j] ELSE f[s]
    BY <2>2, <2>3
  <2>7. aff_cpus' = [s \in D |-> all_cpus[h[s] % m]]
    <3>1. aff_cpus = [s \in D |-> aff_cpus[s]]
      BY <2>4
    <3>2. Swap(aff_cpus, k, j)
          = [s \in D |-> IF s = j THEN aff_cpus[k] ELSE IF s = k THEN aff_cpus[j] ELSE aff_cpus[s]]
      BY <2>2, <3>1 DEF Swap
    <3>3. ASSUME NEW s \in D
          PROVE  (IF s = j THEN aff_cpus[k] ELSE IF s = k THEN aff_cpus[j] ELSE aff_cpus[s])
                 = all_cpus[h[s] % m]
      BY <2>2, <2>4, <2>6
    <3> QED
      BY <1>2, <3>2, <3>3
  <2>8. h \in Injection(D, D)
    BY <2>5 DEF Injection, IsInjective
  <2> HIDE DEF h
  <2>9. PICK e : e = h
    OBVIOUS
  <2>10. Shuffled(e)' <=> /\ e \in Injection(D, D)
                          /\ aff_cpus' = [s \in D |-> all_cpus[e[s] % m]]
    BY <1>4 DEF Shuffled, D, m
  <2> QED
    BY <2>7, <2>8, <2>9, <2>10
<1>6. ShuffleInv' <=> (cmd'.mode = "random" /\ aff_cpus_sz' < Size /\ all_cpus_sz' > 0 => \E f : Shuffled(f)')
  BY DEF ShuffleInv
<1> QED
  BY <1>3, <1>4, <1>5, <1>6

-----------------------------------------------------------------------------
LEMMA IncrBalanced ==
  ASSUME RunTypeOK, IncrInv, cmd.mode = "incr", cmd.aff_incr > 0, IsInjective(cmd.cpus),
         NEW p \in Procs, NEW r \in Procs
  PROVE  Load(p) <= Load(r) + 1
<1> DEFINE M == all_cpus_sz
           Of_(x) == {s \in Slots : aff_cpus[s] = x}
<1>1. PICK i \in 0 .. M - 1, j \in 0 .. M - 1 : p = all_cpus[i] /\ r = all_cpus[j]
  BY Processors
<1>2. /\ M \in Nat /\ M > 0 /\ k \in Nat /\ N * cmd.n_exe \in Int
      /\ all_cpus \in [0 .. M - 1 -> Nat]
      /\ \A a, b \in 0 .. M - 1 : all_cpus[a] = all_cpus[b] => a = b
  BY <1>1, Processors DEF RunTypeOK
<1>3. /\ delta \in 0 .. M - 1 /\ IsDivisor(max_start, delta, M) /\ IsOrder(Turn, delta, M)
  BY <1>2, WalkData
<1>4. max_start \in Nat /\ max_start > 0 /\ Turn \in Nat /\ Turn > 0 /\ delta \in Nat
  BY <1>2, <1>3 DEF IsDivisor, IsOrder
<1>5. /\ \A s \in 0 .. k - 1 : s \in Slots
      /\ \A s \in Slots : aff_cpus[s] = IF s < k THEN all_cpus[Nth(s)] ELSE -1
  BY <1>2 DEF IncrInv
<1>6. \A s \in Nat : Nth(s) \in 0 .. M - 1
  <2> SUFFICES ASSUME NEW s \in Nat PROVE Nth(s) \in 0 .. M - 1
    OBVIOUS
  <2>1. StartOf(s, max_start, Turn) \in Int /\ s % Turn \in Int
    BY <1>4, Coordinates
  <2>2. StartOf(s, max_start, Turn) + (s % Turn) * delta \in Int
    BY <1>4, <2>1
  <2> QED
    BY <1>2, <2>2, Division DEF Nth, PlaceOf, Visited
<1>7. ASSUME NEW x \in 0 .. M - 1
      PROVE  Of_(all_cpus[x]) = {s \in 0 .. k - 1 : Nth(s) = x}
  <2>1. \A s \in Slots : s \in Nat
    BY <1>2 DEF Slots
  <2>2. ASSUME NEW s \in Slots, aff_cpus[s] = all_cpus[x] PROVE s \in 0 .. k - 1 /\ Nth(s) = x
    <3>1. all_cpus[x] \in Nat /\ s \in Nat
      BY <1>2, <2>1
    <3>2. s < k
      BY <1>5, <2>2, <3>1
    <3>3. Nth(s) \in 0 .. M - 1 /\ all_cpus[Nth(s)] = all_cpus[x]
      BY <1>5, <1>6, <2>2, <3>1, <3>2
    <3>4. Nth(s) = x
      BY <1>2, <3>3, Zenon
    <3> QED
      BY <1>2, <3>1, <3>2, <3>4
  <2>3. ASSUME NEW s \in 0 .. k - 1, Nth(s) = x PROVE s \in Slots /\ aff_cpus[s] = all_cpus[x]
    BY <1>2, <1>5, <2>3
  <2> QED
    BY <2>2, <2>3
<1> DEFINE A == {s \in 0 .. k - 1 : Nth(s) = i}
           B == {s \in 0 .. k - 1 : Nth(s) = j}
           n == max_start * Turn
<1>8. n \in Nat /\ n > 0
  BY <1>4
<1>9. \A s, t \in A : s < t => t - s >= n
  <2> SUFFICES ASSUME NEW s \in A, NEW t \in A, s < t PROVE t - s >= n
    OBVIOUS
  <2>1. s \in Nat /\ t \in Nat /\ Nth(s) = Nth(t)
    BY <1>2
  <2> QED
    BY <1>2, <1>3, <1>4, <2>1, WalkApart DEF Nth
<1>10. \A w \in Nat : w + n <= k => \E s \in w .. w + n - 1 : s \in B
  <2> SUFFICES ASSUME NEW w \in Nat, w + n <= k PROVE \E s \in w .. w + n - 1 : s \in B
    OBVIOUS
  <2>1. PICK s \in w .. w + n - 1 : Nth(s) = j
    <3>1. \E s \in w .. w + n - 1 : PlaceOf(s, max_start, Turn, delta, M) = j
      <4> DEFINE m == M
                 g == max_start
                 l == Turn
                 d == delta
      <4>1. m \in Nat /\ m > 0 /\ d \in Nat /\ IsDivisor(g, d, m) /\ IsOrder(l, d, m) /\ j \in 0 .. m - 1
        BY <1>1, <1>2, <1>3, <1>4
      <4> HIDE DEF m, g, l, d
      <4>2. \E s \in w .. w + g * l - 1 : PlaceOf(s, g, l, d, m) = j
        BY <4>1, WalkReaches
      <4> QED
        BY <4>2 DEF m, g, l, d
    <3> QED
      BY <3>1 DEF Nth
  <2>2. s \in 0 .. k - 1
    BY <1>2, <1>8
  <2> QED
    BY <2>1, <2>2
<1>11. Cardinality(A) <= Cardinality(B) + 1
  <2>1. A \in SUBSET (0 .. k - 1) /\ B \in SUBSET (0 .. k - 1) /\ k \in Int
    BY <1>2
  <2> HIDE DEF A, B, n
  <2> QED
    BY <1>8, <1>9, <1>10, <2>1, EvenLoad
<1>12. Load(p) = Cardinality(A) /\ Load(r) = Cardinality(B)
  BY <1>1, <1>7 DEF Load
<1> QED
  BY <1>11, <1>12

LEMMA ShuffleBalanced ==
  ASSUME RunTypeOK, cmd.mode = "random", IsInjective(cmd.cpus), NEW f, Shuffled(f),
         NEW p \in Procs, NEW r \in Procs
  PROVE  Load(p) <= Load(r) + 1
<1> DEFINE M == all_cpus_sz
           D == 0 .. aff_cpus_sz - 1
<1>1. PICK i \in 0 .. M - 1, j \in 0 .. M - 1 : p = all_cpus[i] /\ r = all_cpus[j]
  BY Processors
<1>2. /\ M \in Nat /\ M > 0 /\ N * cmd.n_exe \in Int
      /\ \A a, b \in 0 .. M - 1 : all_cpus[a] = all_cpus[b] => a = b
  BY <1>1, Processors
<1>3. /\ f \in [D -> D] /\ \A s, t \in D : f[s] = f[t] => s = t
      /\ aff_cpus = [s \in D |-> all_cpus[f[s] % M]]
  BY DEF Shuffled, Injection, IsInjective
<1>4. aff_cpus_sz = IF M > N * cmd.n_exe THEN M ELSE N * cmd.n_exe
  BY DEF aff_cpus_sz
<1>5. aff_cpus_sz \in Nat /\ \A s \in Slots : s \in D
  BY <1>2, <1>4 DEF Slots
<1>6. \A u \in D : u \in Nat /\ u % M \in 0 .. M - 1
  BY <1>2, Division
<1>7. ASSUME NEW x \in 0 .. M - 1
      PROVE  {s \in Slots : aff_cpus[s] = all_cpus[x]} = {s \in Slots : f[s] % M = x}
  <2>1. ASSUME NEW s \in Slots PROVE aff_cpus[s] = all_cpus[x] <=> f[s] % M = x
    <3>1. s \in D /\ f[s] \in D
      BY <1>3, <1>5
    <3>2. aff_cpus[s] = all_cpus[f[s] % M] /\ f[s] % M \in 0 .. M - 1
      BY <1>3, <1>6, <3>1
    <3> QED
      BY <1>2, <3>2
  <2> QED
    BY <2>1
<1> DEFINE L(x) == {s \in Slots : f[s] % M = x}
<1>8. Load(p) = Cardinality(L(i)) /\ Load(r) = Cardinality(L(j))
  BY <1>1, <1>7 DEF Load
<1>9. IsFiniteSet(D)
  BY <1>5, FS_Interval
<1>10. \A x : IsFiniteSet(L(x)) /\ Cardinality(L(x)) \in Nat
  <2> SUFFICES ASSUME NEW x PROVE IsFiniteSet(L(x)) /\ Cardinality(L(x)) \in Nat
    OBVIOUS
  <2>1. L(x) \subseteq D
    BY <1>5
  <2> QED
    BY <1>9, <2>1, FS_Subset, FS_CardinalityType
<1>11. CASE M > N * cmd.n_exe
  <2>1. \A u \in D : u % M = u
    BY <1>2, <1>4, <1>11, Wraps
  <2>2. \A s, t \in L(i) : s = t
    BY <1>3, <1>5, <2>1
  <2>3. L(i) = {} \/ \E s : L(i) = {s}
    BY <2>2
  <2>4. Cardinality(L(i)) = 0 \/ Cardinality(L(i)) = 1
    <3> HIDE DEF L
    <3> QED
      BY <2>3, FS_EmptySet, FS_Singleton
  <2> HIDE DEF L
  <2> QED
    BY <1>8, <1>10, <2>4
<1>12. CASE ~(M > N * cmd.n_exe)
  <2> DEFINE U(x) == {u \in D : u % M = x}
  <2>1. Slots = D
    BY <1>4, <1>12 DEF Slots
  <2>2. \A x : IsFiniteSet(U(x)) /\ Cardinality(U(x)) \in Nat
    BY <1>9, FS_Subset, FS_CardinalityType
  <2>3. f \in Surjection(D, D)
    <3>1. f \in Injection(D, D)
      BY DEF Shuffled
    <3> QED
      BY <1>9, <3>1, FS_Injection
  <2>4. Cardinality(L(i)) <= Cardinality(U(i))
    <3> DEFINE h == [s \in L(i) |-> f[s]]
    <3>1. h \in [L(i) -> U(i)] /\ \A s, t \in L(i) : h[s] = h[t] => s = t
      BY <1>3, <2>1
    <3>2. h \in Injection(L(i), U(i))
      BY <3>1 DEF Injection, IsInjective
    <3> HIDE DEF h, L, U
    <3> QED
      BY <2>2, <3>2, FS_Injection
  <2>5. Cardinality(U(j)) <= Cardinality(L(j))
    <3> DEFINE h == [u \in U(j) |-> CHOOSE s \in D : f[s] = u]
    <3>1. \A u \in D : \E s \in D : f[s] = u
      BY <2>3 DEF Surjection
    <3>2. \A u \in U(j) : h[u] \in D /\ f[h[u]] = u
      BY <3>1
    <3> HIDE DEF h
    <3>3. \A u \in U(j) : h[u] \in L(j)
      BY <2>1, <3>2
    <3>4. h \in [U(j) -> L(j)]
      BY <3>3 DEF h
    <3>5. h \in Injection(U(j), L(j))
      BY <3>2, <3>4 DEF Injection, IsInjective
    <3> HIDE DEF L, U
    <3> QED
      BY <1>10, <3>5, FS_Injection
  <2>6. Cardinality(U(i)) <= Cardinality(U(j)) + 1
    <3>1. \A s, t \in U(i) : s < t => t - s >= M
      <4> SUFFICES ASSUME NEW s \in U(i), NEW t \in U(i), s < t, ~(t - s >= M) PROVE FALSE
        OBVIOUS
      <4>1. s \in Int /\ t \in Int /\ t % M = s % M
        OBVIOUS
      <4>2. Divides(M, t - s)
        BY <1>2, <4>1, SameRemainder
      <4>3. t - s \in Int /\ -M < t - s /\ t - s < M
        BY <1>2, <4>1
      <4>4. t - s = 0
        BY <1>2, <4>2, <4>3, Small
      <4> QED
        BY <4>1, <4>4
    <3>2. \A w \in Nat : w + M <= aff_cpus_sz => \E s \in w .. w + M - 1 : s \in U(j)
      <4> SUFFICES ASSUME NEW w \in Nat, w + M <= aff_cpus_sz
                   PROVE  \E s \in w .. w + M - 1 : s \in U(j)
        OBVIOUS
      <4> DEFINE s == w + ((j - w) % M)
      <4>1. j - w \in Int /\ (j - w) % M \in 0 .. M - 1 /\ (j - w) \div M \in Int
            /\ j - w = M * ((j - w) \div M) + ((j - w) % M)
        BY <1>2, Division
      <4>2. s - j = M * (-((j - w) \div M)) /\ -((j - w) \div M) \in Int
        BY <1>2, <4>1
      <4>3. s \in Int /\ Divides(M, s - j)
        BY <4>1, <4>2 DEF Divides
      <4>4. s \in w .. w + M - 1 /\ s \in D
        BY <1>2, <1>5, <4>1
      <4> HIDE DEF s
      <4>5. s % M = j % M
        <5>1. j \in Int
          OBVIOUS
        <5> HIDE DEF M
        <5> QED
          BY <1>2, <4>3, <5>1, SameRemainder
      <4>6. j % M = j
        BY <1>2, Wraps
      <4> QED
        BY <4>4, <4>5, <4>6
    <3>3. U(i) \in SUBSET D /\ U(j) \in SUBSET D /\ aff_cpus_sz \in Int
      BY <1>5
    <3> HIDE DEF U
    <3> QED
      BY <1>2, <3>1, <3>2, <3>3, EvenLoad
  <2> HIDE DEF L, U
  <2> QED
    BY <1>8, <1>10, <2>2, <2>4, <2>5, <2>6
<1> QED
  BY <1>11, <1>12

-----------------------------------------------------------------------------
\* What changes neither the parameters of run nor the places.
LEMMA SameLoads ==
  ASSUME LoadInv, UNCHANGED <<coms, cmd, aff_cpus, k, next_cpu, start_scan>>,
         outcome' = "running" \/ outcome # "running"
  PROVE  LoadInv'
<1>1. /\ N' = N /\ Slots' = Slots /\ all_cpus_sz' = all_cpus_sz /\ all_cpus' = all_cpus
      /\ delta' = delta /\ aff_cpus_sz' = aff_cpus_sz
  BY DEF N, Slots, all_cpus_sz, all_cpus, delta, aff_cpus_sz
<1>2. max_start' = max_start /\ Turn' = Turn
  BY <1>1 DEF max_start, Turn
<1>3. \A s : Nth(s)' = Nth(s) /\ StartOf(s, max_start, Turn)' = StartOf(s, max_start, Turn)
  BY <1>1, <1>2 DEF Nth, PlaceOf, StartOf, Visited
<1>4. Nth(k)' = Nth(k) /\ StartOf(k, max_start, Turn)' = StartOf(k, max_start, Turn)
  BY <1>1, <1>2 DEF Nth, PlaceOf, StartOf, Visited
<1>5. IncrInv'
  BY <1>1, <1>3, <1>4 DEF LoadInv, IncrInv
<1>6. \A f : Shuffled(f)' <=> Shuffled(f)
  BY <1>1 DEF Shuffled
<1>7. ShuffleInv'
  BY <1>1, <1>6 DEF LoadInv, ShuffleInv
<1>8. (cmd.mode \in {"incr", "random"} => RunTypeOK)'
  BY DEF LoadInv, RunTypeOK, ComsOK, N
<1> QED
  BY <1>5, <1>7, <1>8 DEF LoadInv

\* What leaves the modes of which the loads are even.
LEMMA OtherMode ==
  ASSUME cmd'.mode \notin {"incr", "random"},
         outcome' # "running" => next_cpu' = 0 /\ start_scan' = 0
  PROVE  LoadInv'
  BY DEF LoadInv, IncrInv, ShuffleInv

LEMMA LoadRunStep ==
  ASSUME PlacementInv, LoadInv, run
  PROVE  LoadInv'
<1>1. /\ outcome # "running" /\ outcome' = "running"
      /\ UNCHANGED <<coms, def, opts, k, next_cpu, start_scan>>
      /\ cmd' = Params(aff_mode, opts.aff_cpus, n_exe, opts.aff_incr)
      /\ aff_cpus' = FirstCpus'
  BY DEF run, StartPlacement, incr
<1>2. k = 0 /\ next_cpu = 0 /\ start_scan = 0 /\ ComsOK /\ OptsInv
  BY <1>1, JobCom DEF PlacementInv, BeforeInv, LoadInv
<1>3. cmd' = [mode |-> aff_mode, cpus |-> opts.aff_cpus, n_exe |-> n_exe, aff_incr |-> opts.aff_incr,
              smt |-> def.smt, smtmode |-> def.smtmode, def_sz |-> def.def_sz, nsockets |-> def.nsockets]
  BY <1>1 DEF Params
<1>4. cmd'.cpus = opts.aff_cpus /\ cmd'.n_exe = n_exe /\ cmd'.aff_incr = opts.aff_incr
  BY <1>3
<1>5. n_exe \in Int
  <2>1. N \in Nat /\ N > 0
    BY <1>2 DEF ComsOK, N
  <2>2. Len(opts.aff_cpus) \in Int
    BY <1>2 DEF OptsInv
  <2>3. n_avail \in Int
    BY <1>2, <2>2 DEF n_avail, OptsInv
  <2> QED
    BY <1>2, <2>1, <2>3 DEF n_exe, OptsInv
<1>6. ComsOK'
  BY <1>1, <1>2 DEF ComsOK, N
<1>7. LoadStart'
  BY <1>1, <1>2, <1>4, <1>5, <1>6 DEF LoadStart, RunTypeOK, OptsInv
<1>8. LoadStart' => IncrInv' /\ ShuffleInv'
  BY FirstWalk, FirstShuffle, PTL
<1> QED
  BY <1>1, <1>7, <1>8 DEF LoadInv, LoadStart

LEMMA LoadStep ==
  ASSUME PlacementInv, LoadInv, [Next]_vars
  PROVE  LoadInv'
<1>1. CASE Parse
  <2>1. /\ UNCHANGED <<coms, cmd, aff_cpus, k, next_cpu, start_scan>>
        /\ outcome # "running"
    BY <1>1, ParsingOutcome DEF Parse, placement, incr
  <2> QED
    BY <2>1, SameLoads
<1>2. CASE run
  BY <1>2, LoadRunStep
<1>3. CASE RUN
  <2>1. outcome' = "running" /\ cmd'.mode = "presi"
    BY <1>3 DEF RUN, Params
  <2> QED
    BY <2>1, OtherMode
<1>4. CASE Run
  <2>1. outcome = "running" /\ outcome' = "running"
    BY <1>4 DEF Run, cmdline
  <2>2. CASE Allocate
    <3>1. cmd.mode = "incr" /\ cmd' = cmd
      BY <2>2 DEF Allocate
    <3>2. RunTypeOK' /\ IncrInv'
      BY <2>2, <3>1, AllocateStep DEF LoadInv
    <3> QED
      BY <2>1, <3>1, <3>2 DEF LoadInv, ShuffleInv
  <2>3. CASE perm_prefix_ints
    <3>1. cmd.mode = "random" /\ cmd' = cmd
      BY <2>3 DEF perm_prefix_ints
    <3>2. RunTypeOK' /\ ShuffleInv'
      BY <2>3, <3>1, ShuffleStep DEF LoadInv
    <3> QED
      BY <2>1, <3>1, <3>2 DEF LoadInv, IncrInv
  <2>4. CASE custom_affinity
    <3>1. cmd.mode = "custom" /\ cmd' = cmd
      BY <2>4 DEF custom_affinity, Together, Separate, OneByOne, CannotAllocate, Placing
    <3> QED
      BY <2>1, <3>1, OtherMode
  <2>5. CASE alloc_instances
    <3>1. cmd.mode \notin {"incr", "random"} /\ cmd' = cmd
      BY <2>5 DEF alloc_instances, find_all, Exit_, alloc_instance, Allocating, Scanning
    <3> QED
      BY <2>1, <3>1, OtherMode
  <2> QED
    BY <1>4, <2>2, <2>3, <2>4, <2>5 DEF Run, Place
<1>5. CASE Finished \/ UNCHANGED vars
  <2>1. UNCHANGED <<coms, cmd, aff_cpus, k, next_cpu, start_scan, outcome>>
    BY <1>5 DEF Finished, vars, cmdline, placement, incr
  <2> QED
    BY <2>1, SameLoads
<1> QED
  BY <1>1, <1>2, <1>3, <1>4, <1>5 DEF Next

LEMMA LoadInvariance == Spec => []LoadInv
<1>1. Init => LoadInv
  <2> SUFFICES ASSUME Init PROVE LoadInv
    OBVIOUS
  <2>1. cmd.mode = "none" /\ next_cpu = 0 /\ start_scan = 0
    BY DEF Init, Params, PlacementInit
  <2> QED
    BY <2>1 DEF LoadInv, IncrInv, ShuffleInv
<1>2. PlacementInv /\ LoadInv /\ [Next]_vars => LoadInv'
  BY LoadStep
<1> QED
  BY <1>1, <1>2, PlacementInvariance, PTL DEF Spec

\* The threads are spread evenly over the processors, whatever the increment of
\* "-i" or the draws of "+ra", the processors of "-p" when none is repeated, and
\* the number of instances, when rand_k is asked for numbers that it can return.
THEOREM LoadsBalanced ==
  Spec => [](IsInjective(cmd.cpus) /\ (cmd.mode = "random" => aff_cpus_sz < Size) => Balanced)
<1>1. ASSUME LoadInv, IsInjective(cmd.cpus), cmd.mode = "random" => aff_cpus_sz < Size
      PROVE  Balanced
  <2>1. ASSUME cmd.mode = "incr", cmd.aff_incr > 0, NEW p \in Procs, NEW r \in Procs
        PROVE  Load(p) <= Load(r) + 1
    BY <1>1, <2>1, IncrBalanced DEF LoadInv
  <2>2. ASSUME cmd.mode = "random", NEW p \in Procs, NEW r \in Procs
        PROVE  Load(p) <= Load(r) + 1
    <3>1. RunTypeOK
      BY <1>1, <2>2 DEF LoadInv
    <3>2. all_cpus_sz > 0
      BY <3>1, Processors
    <3>3. PICK f : Shuffled(f)
      BY <1>1, <2>2, <3>2 DEF LoadInv, ShuffleInv
    <3> QED
      BY <1>1, <2>2, <3>1, <3>3, ShuffleBalanced
  <2>3. ASSUME cmd.mode = "incr", cmd.aff_incr <= 0 PROVE Range(aff_cpus) \subseteq {-1}
    BY <1>1, <2>3 DEF LoadInv, IncrInv, Range
  <2> QED
    BY <2>1, <2>2, <2>3 DEF Balanced
<1> QED
  BY <1>1, LoadInvariance, PTL
=============================================================================
