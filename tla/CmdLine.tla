------------------------------ MODULE CmdLine ------------------------------
(***************************************************************************)
(* The command line of a generated program: parse_cmd and the conversions  *)
(* of numbers and lists it uses (litmus/_utils.c), and, where def.presi    *)
(* holds, parse_opt and parse_param of the presi harness                   *)
(* (litmus/_presi.c), a smaller set of options followed by parameters.     *)
(*                                                                         *)
(* A word is read once, from left to right, and an option overrides those  *)
(* before it.  An argument is what strtol, strtod and the loops over lists *)
(* make of it: a number [v, suf, junk] (suf a multiplier, junk characters  *)
(* that nothing reads), a list of such numbers, a fraction num/den.        *)
(*                                                                         *)
(* Widths are scaled down: int and long are IntMax and LongMax, the        *)
(* multipliers are powers of ten that keep their place between them.       *)
(***************************************************************************)
EXTENDS SequencesExt, Integers

CONSTANTS IntMax, LongMax, None

\* INT_MAX is odd: it is not a number with a multiplier.
ASSUME WidthAssumption ==
  IntMax \in Nat /\ LongMax \in Nat /\ IntMax < LongMax /\ IntMax % 2 = 1

VARIABLES
  def,      \* def: the defaults, and what the test was compiled with
  opts,     \* p: the options
  argv,     \* the words not yet read: [o |-> option, a |-> its argument]
  errno,    \* is it ERANGE? Nothing clears it
  outcome,  \* of the parsing
  done      \* history: the options accepted

cmdline == <<def, opts, argv, errno, outcome, done>>

IntMin == -IntMax - 1
Ints   == {IntMin, 0, IntMax}     \* conversions of a double too large, or a NaN

\* "k" and "m" are 10^3 and 10^6 in the source.
Power == [suf \in {"", "k", "m"} |-> CASE suf = "" -> 0 [] suf = "k" -> 1 [] suf = "m" -> 2]

\* (int)r
ToInt(r) == ((r - IntMin) % (2 * (IntMax + 1))) + IntMin

strtol(v) == IF v > LongMax THEN LongMax ELSE IF v < -LongMax - 1 THEN -LongMax - 1 ELSE v
OutOfRange(v) == strtol(v) # v

\* max_run *= f: the integer part of x*n/d.
Sign(x) == IF x < 0 THEN -1 ELSE 1
Abs(x)  == Sign(x) * x
Times(x, n, d) ==
  IF d = 0 THEN Ints
  ELSE LET r == Sign(x) * Sign(n) * Sign(d) * ((Abs(x) * Abs(n)) \div Abs(d)) IN
       IF IntMin <= r /\ r <= IntMax THEN {r} ELSE Ints
-----------------------------------------------------------------------------
(* The options.                                                             *)
\* Options that set a number, and the least value kept.
Number ==
  [o \in {"-r", "-s", "-st", "-n", "-a", "-k", "-i", "-l", "-prs"} |->
     [f     |-> CASE o = "-r" -> "max_run" [] o = "-s" -> "size_of_test" [] o = "-st" -> "stride"
                  [] o = "-n" -> "n_exe"   [] o = "-a" -> "avail"        [] o = "-k" -> "sync_n"
                  [] o = "-i" -> "aff_incr" [] o = "-l" -> "max_loop"    [] o = "-prs" -> "static_prefetch",
      least |-> CASE o \in {"-st", "-n", "-l"} -> 1 [] o \in {"-k", "-i", "-prs"} -> 0
                  [] OTHER -> IntMin]]

\* Options that set a field to a value.
Flag ==
  [o \in {"-q", "+rm", "-rm", "+sc", "-sc", "+fix", "-vb", "-vp"} |->
     <<CASE o = "-q" -> "verbose"            [] o \in {"+rm", "-rm"} -> "shuffle"
         [] o \in {"+sc", "-sc"} -> "speedcheck" [] o = "+fix" -> "fix"
         [] o = "-vb" -> "verbose_barrier"   [] o = "-vp" -> "prelude",
       IF o \in {"+rm", "+sc", "+fix"} THEN 1 ELSE 0>>]

Count == [o \in {"-v", "+vb"} |-> IF o = "-v" THEN "verbose" ELSE "verbose_barrier"]

Floats == {"-fr", "-fs", "-f"}

\* The affinity modes; a mode that the test does not have is random.
Mode ==
  "+ra" :> "random" @@ "+ca" :> (IF def.custom_enabled THEN "custom" ELSE "random") @@
  "+sa" :> (IF def.scan_enabled THEN "scan" ELSE "random")

If(b, S) == IF b THEN S ELSE {}

\* The options of this test.
Enabled ==
  {"-q", "-v", "-r", "-s", "-n", "-a"} \cup
  If(~def.presi,
     Floats \cup If(def.stride > 0, {"-st"}) \cup If(def.sync_n > 0, {"-k"})
     \cup If(def.aff_mode # "none", {"-i", "-p"} \cup DOMAIN Mode)
     \cup If(def.scan_enabled, {"+sa", "+ta"}) \cup If(def.custom_enabled, {"+ca"})
     \cup If(def.shuffle >= 0, {"+rm", "-rm"}) \cup If(def.speedcheck >= 0, {"+sc", "-sc"})
     \cup If(def.fix = 0, {"+fix"}) \cup If(def.verbose_barrier >= 0, {"+vb", "-vb"})
     \cup If(def.prelude > 0, {"-vp"}) \cup If(def.delta_tb # <<>>, {"-tb", "-ta"})
     \cup If(def.prefetch # <<>>, {"-prf", "-pra"}) \cup If(def.static_prefetch >= 0, {"-prs"})
     \cup If(def.max_loop > 0, {"-l"}))

WithArgument == DOMAIN Number \cup Floats \cup {"-p", "+ta", "-tb", "-ta", "-prf", "-pra"}
\* What an argument may be.
Numeral == [v : Int, suf : DOMAIN Power, junk : BOOLEAN]
Argument(o) ==
  CASE o \in DOMAIN Number \cup {"-ta"} -> Numeral
    [] o \in Floats -> [num : Int, den : Int, erange : BOOLEAN, junk : BOOLEAN]
    [] o = "-p"     -> [ns : Seq(Int), junk : BOOLEAN]
    [] o = "-tb"    -> Seq([idx : Int, w : Numeral])
    [] o = "-prf"   -> [l : Seq([proc : Int, var : STRING, c : STRING]), junk : BOOLEAN]

IsWord(w) == w.o \in WithArgument \ {"+ta", "-pra"} => w.a \in Argument(w.o) \cup {None}
-----------------------------------------------------------------------------
(* Plausible errors.                                                        *)
\* Null and negative numbers are refused whether they have a suffix or not.
TooLargeNoSuffix(w) == w.v <= 0 \/ w.v * 10 ^ Power[w.suf] > LongMax

\* The list of "-tb" is stored from its end.
StoreReversed(d, l) ==
  FoldRight(LAMBDA e, t : [t EXCEPT ![ToInt(strtol(e.idx)) + 1] = ToInt(e.w.v)], l, d)
-----------------------------------------------------------------------------
(* Numbers.                                                                 *)
\* my_add and my_pow10 refuse a result that is not a positive int, or with
\* parse_opt one that is not a positive or null long.
TooLarge(w) ==
  w.suf # "" /\ (\/ w.v < 0 \/ w.v * 10 ^ Power[w.suf] > LongMax
                 \/ ~def.presi /\ (w.v = 0 \/ w.v * 10 ^ Power[w.suf] >= IntMax))

\* do_argint: fatal("overflow"), or the number.
Overflow(w)  == errno \/ OutOfRange(w.v) \/ TooLarge(w)
do_argint(w) == ToInt(strtol(w.v) * 10 ^ Power[w.suf])

AtLeast(v, least) == IF v < least THEN least ELSE v
-----------------------------------------------------------------------------
Parsing == outcome = "parsing" /\ argv # <<>>
Word    == Head(argv)
Opt     == Word.o
Arg     == Word.a

\* parse_opt (presi) stops at the first word that is not an option.
InParams == def.presi /\ \E w \in Range(Append(done, Word)) : w.o = "word"

\* The word is an option of the test, with the argument it needs, if any.
Known == Parsing /\ ~InParams /\ Opt \in Enabled /\ (Opt \in WithArgument => Arg # None)

Accept ==
  /\ argv' = Tail(argv)
  /\ done' = Append(done, Word)
  /\ UNCHANGED <<def, outcome>>

Set(f, v) == opts' = [opts EXCEPT ![f] = v]

SetNumber ==
  /\ Known /\ Opt \in DOMAIN Number /\ ~Overflow(Arg) /\ ~Arg.junk
  /\ LET n == Number[Opt]
         v == AtLeast(do_argint(Arg), n.least)
     IN  CASE Opt = "-i" -> opts' = [opts EXCEPT !.aff_incr = v, !.aff_mode = "incr"]
           [] def.presi /\ Opt = "-a" ->
                opts' = [opts EXCEPT !.avail = v, !.n_exe = IF v < 1 THEN 1 ELSE @]
           [] OTHER -> Set(n.f, v)
  /\ Accept /\ UNCHANGED errno

SetFlag ==
  /\ Known /\ Opt \in DOMAIN Flag
  /\ Set(Flag[Opt][1], Flag[Opt][2])
  /\ Accept /\ UNCHANGED errno

Increment ==
  /\ Known /\ Opt \in DOMAIN Count
  /\ Set(Count[Opt], opts[Count[Opt]] + 1)
  /\ Accept /\ UNCHANGED errno

\* "-f" multiplies the size first, then divides the number of runs.
Scale ==
  /\ Known /\ Opt \in Floats /\ ~Arg.junk
  /\ \E s \in IF Opt = "-fr" THEN {opts.size_of_test} ELSE Times(opts.size_of_test, Arg.num, Arg.den),
        r \in IF Opt = "-fs" THEN {opts.max_run}
              ELSE IF Opt = "-fr" THEN Times(opts.max_run, Arg.num, Arg.den)
              ELSE Times(opts.max_run, Arg.den, Arg.num) :
       opts' = [opts EXCEPT !.size_of_test = s, !.max_run = r]
  /\ errno' = (errno \/ Arg.erange)
  /\ Accept

SetMode ==
  /\ Known /\ Opt \in DOMAIN Mode
  /\ Set("aff_mode", Mode[Opt])
  /\ Accept /\ UNCHANGED errno

SetTopo ==
  /\ Known /\ Opt = "+ta"
  /\ opts' = [opts EXCEPT !.aff_mode = "topo", !.aff_topo = Arg]
  /\ Accept /\ UNCHANGED errno

\* argcpus: numbers are converted without a look at errno.
Cpu(v) == ToInt(strtol(v))

argcpus ==
  /\ Known /\ Opt = "-p"
  /\ ~Arg.junk /\ \A i \in DOMAIN Arg.ns : Cpu(Arg.ns[i]) >= 0
  /\ Set("aff_cpus", [i \in DOMAIN Arg.ns |-> Cpu(Arg.ns[i])])
  /\ errno' = (errno \/ \E i \in DOMAIN Arg.ns : OutOfRange(Arg.ns[i]))
  /\ Accept

\* argints: an element of "-tb" is usage or fatal if it is badly written...
BadIdx(e) == ToInt(strtol(e.idx)) \notin 0 .. Len(opts.delta_tb) - 1
BadInt(e) == OutOfRange(e.idx) \/ Overflow(e.w)
Good(e)   == ~BadIdx(e) /\ ~BadInt(e) /\ ~e.w.junk
FirstBad  == CHOOSE i \in DOMAIN Arg : ~Good(Arg[i]) /\ \A j \in 1 .. i - 1 : Good(Arg[j])

\* ... and is stored otherwise.
Store(d, l) ==
  FoldLeft(LAMBDA t, e : [t EXCEPT ![ToInt(strtol(e.idx)) + 1] = do_argint(e.w)], d, l)

argints ==
  /\ Known /\ Opt = "-tb" /\ \A i \in DOMAIN Arg : Good(Arg[i])
  /\ Set("delta_tb", Store(opts.delta_tb, Arg))
  /\ Accept /\ UNCHANGED errno

SetAllDelays ==
  /\ Known /\ Opt = "-ta" /\ ~Overflow(Arg) /\ ~Arg.junk
  /\ Set("delta_tb", [i \in DOMAIN opts.delta_tb |-> do_argint(Arg)])
  /\ Accept /\ UNCHANGED errno

\* argprefetch: elements proc:var=letter.  A missing letter is none, and the
\* search for a comma then starts after the end of the string: the word ends
\* there or is an error.
Dir(c) == CASE c = "F" -> "flush" [] c = "T" -> "touch" [] c = "W" -> "touch_store" [] OTHER -> "none"
Slot_(e) == ToInt(strtol(e.proc)) + 1
HasSlot(e) == Slot_(e) \in DOMAIN opts.prefetch /\ e.var \in DOMAIN opts.prefetch[Slot_(e)]

parse_prefetch ==
  /\ Known /\ Opt = "-prf" /\ ~Arg.junk
  /\ \A i \in DOMAIN Arg.l : HasSlot(Arg.l[i]) /\ (Arg.l[i].c = "" => i = Len(Arg.l))
  /\ Set("prefetch", FoldLeft(LAMBDA t, e : [t EXCEPT ![Slot_(e)][e.var] = Dir(e.c)],
                              opts.prefetch, Arg.l))
  /\ errno' = (errno \/ \E i \in DOMAIN Arg.l : OutOfRange(Arg.l[i].proc))
  /\ Accept

set_prefetch ==
  /\ Known /\ Opt = "-pra"
  /\ Set("prefetch", [p \in DOMAIN opts.prefetch |->
                        [v \in DOMAIN opts.prefetch[p] |-> Dir(Arg)]])
  /\ Accept /\ UNCHANGED errno
-----------------------------------------------------------------------------
Exit(o) == outcome' = o /\ UNCHANGED <<def, opts, argv, errno, done>>

\* fatal("overflow")
fatal_overflow ==
  /\ Known
  /\ \/ Opt \in DOMAIN Number \cup {"-ta"} /\ Overflow(Arg)
     \/ Opt = "-tb" /\ (\E i \in DOMAIN Arg : ~Good(Arg[i]))
          /\ ~BadIdx(Arg[FirstBad]) /\ BadInt(Arg[FirstBad])
  /\ Exit("fatal")

usage ==
  /\ Parsing
  /\ \/ ~Known /\ (~def.presi \/ Opt # "word")
     \/ Known /\ Opt \in DOMAIN Number \cup {"-ta"} /\ ~Overflow(Arg) /\ Arg.junk
     \/ Known /\ Opt \in Floats /\ Arg.junk
     \/ Known /\ Opt = "-p" /\ (Arg.junk \/ \E i \in DOMAIN Arg.ns : Cpu(Arg.ns[i]) < 0)
     \/ /\ Known /\ Opt = "-tb" /\ \E i \in DOMAIN Arg : ~Good(Arg[i])
        /\ LET e == Arg[FirstBad] IN BadIdx(e) \/ ~BadInt(e)
     \/ /\ Known /\ Opt = "-prf"
        /\ \/ Arg.junk
           \/ \E i \in DOMAIN Arg.l : ~HasSlot(Arg.l[i]) \/ Arg.l[i].c = ""
  /\ Exit("usage")

\* id, or addnsteps for a delay, which is given from -NSTEPS2 to NSTEPS2.
param_f(tag, i) == i + def.shift[tag]

\* parse_param (presi): the words that remain are parameters, tag=number.  The
\* bound is on the number, before its conversion, and after it is stored; a
\* word that names no parameter is ignored.
do_parse ==
  /\ Parsing /\ InParams
  /\ IF Opt # "word" THEN argv' = Tail(argv) /\ UNCHANGED <<def, opts, errno, outcome, done>>
     ELSE IF Arg.tag \notin DOMAIN def.max THEN Accept /\ UNCHANGED <<opts, errno>>
     ELSE IF strtol(Arg.v) >= def.max[Arg.tag] THEN Exit("usage")
     ELSE /\ opts' = [opts EXCEPT !.param[Arg.tag] = param_f(Arg.tag, ToInt(strtol(Arg.v)))]
          /\ errno' = (errno \/ OutOfRange(Arg.v))
          /\ Accept

\* No more words: parse_cmd returns.
Parsed ==
  /\ outcome = "parsing" /\ argv = <<>>
  /\ outcome' = "parsed"
  /\ UNCHANGED <<def, opts, argv, errno, done>>

parse_cmd ==
  \/ SetNumber \/ SetFlag \/ Increment \/ Scale \/ SetMode \/ SetTopo \/ argcpus
  \/ argints \/ SetAllDelays \/ parse_prefetch \/ set_prefetch
  \/ fatal_overflow \/ usage \/ do_parse \/ Parsed
-----------------------------------------------------------------------------
\* The last option accepted among the names os, or about slot p of a list.
Final(os) == LET l == SelectSeq(done, LAMBDA w : w.o \in os) IN
             IF l = <<>> THEN [o |-> "none", a |-> None] ELSE l[Len(l)]

Exact(w) == w.v * 10 ^ Power[w.suf]
IsInt(v) == IntMin <= v /\ v <= IntMax

\* The options that change field f.
Names(f) == {o \in DOMAIN Number : Number[o].f = f} \cup {o \in DOMAIN Flag : Flag[o][1] = f}
            \cup {o \in DOMAIN Count : Count[o] = f}
            \cup If(f = "max_run", {"-fr", "-f"}) \cup If(f = "size_of_test", {"-fs", "-f"})
            \cup If(def.presi /\ f = "n_exe", {"-a"})

\* What the options said of the delay of thread p, and of its variable v, from
\* the first to the last.
Delays(p) ==
  FlattenSeq([i \in DOMAIN done |->
    CASE done[i].o = "-ta" -> <<done[i].a>>
      [] done[i].o = "-tb" ->
           LET l == SelectSeq(done[i].a, LAMBDA e : e.idx = p)
           IN  [j \in DOMAIN l |-> l[j].w]
      [] OTHER -> <<>>])

Directives(p, v) ==
  FlattenSeq([i \in DOMAIN done |->
    CASE done[i].o = "-pra" -> <<done[i].a>>
      [] done[i].o = "-prf" ->
           LET l == SelectSeq(done[i].a.l, LAMBDA e : e.proc = p /\ e.var = v)
           IN  [j \in DOMAIN l |-> l[j].c]
      [] OTHER -> <<>>])

\* A number without a multiplier is converted to an int with no test, as is any
\* number of the presi harness: what it becomes when no int holds it is not said.
Untested(n) == ~IsInt(Exact(n)) /\ (n.suf = "" \/ def.presi)

\* The last option about a field decides, and it means what it says: numbers,
\* multiplied, are exact and are raised to the least value of their field.
NumbersMeant ==
  \A o \in DOMAIN Number :
    LET f == Number[o].f
        w == Final(Names(f))
    IN  w.o = o /\ ~Untested(w.a) => opts[f] = Max({Exact(w.a), Number[o].least})

ModeMeant ==
  LET w == Final({"-i", "+ta"} \cup DOMAIN Mode) IN
  opts.aff_mode = CASE w.o = "none" -> def.aff_mode
                    [] w.o = "-i"   -> "incr"
                    [] w.o = "+ta"  -> "topo"
                    [] OTHER        -> Mode[w.o]

\* An entry of a list is that of the last option that named it, alone or with
\* all the others, whatever the order of the elements of an option; the entries
\* that no option named keep their default.  (The index of a processor is read
\* modulo the width of an int.)  The list of "-p" replaces the processors.
ListsMeant ==
  /\ \A p \in DOMAIN def.delta_tb :
       LET ds == Delays(p - 1)
       IN  IF ds = <<>> THEN opts.delta_tb[p] = def.delta_tb[p]
           ELSE ~Untested(ds[Len(ds)]) => opts.delta_tb[p] = Exact(ds[Len(ds)])
  /\ \A p \in DOMAIN def.prefetch : \A v \in DOMAIN def.prefetch[p] :
       (\A i \in DOMAIN done : done[i].o = "-prf" => \A e \in Range(done[i].a.l) : IsInt(e.proc)) =>
       LET cs == Directives(p - 1, v)
       IN  opts.prefetch[p][v] = IF cs = <<>> THEN def.prefetch[p][v] ELSE Dir(cs[Len(cs)])
  /\ LET w == Final({"-p"}) IN
     IF w.o = "none" THEN opts.aff_cpus = def.aff_cpus
     ELSE /\ DOMAIN opts.aff_cpus = DOMAIN w.a.ns
          /\ \A i \in DOMAIN w.a.ns : IsInt(w.a.ns[i]) => opts.aff_cpus[i] = w.a.ns[i]

\* What no option names is unchanged.
OthersKept ==
  \A f \in DOMAIN opts \ {"aff_mode", "delta_tb", "prefetch", "param", "aff_topo", "aff_cpus"} :
    Final(Names(f)).o = "none" => opts[f] = def[f]

\* The parameters of the presi harness are those of the last words that set them.
ParamsMeant ==
  \A t \in DOMAIN def.max :
    LET l == SelectSeq(done, LAMBDA w : w.o = "word" /\ w.a.tag = t) IN
    IF l = <<>> THEN opts.param[t] = def.param[t]
    ELSE IsInt(l[Len(l)].a.v) => opts.param[t] = param_f(t, l[Len(l)].a.v)

\* A command line that is accepted is obeyed, but for the numbers that are not
\* tested and that no int holds.
Meant ==
  outcome \in {"parsed", "running"} => NumbersMeant /\ ModeMeant /\ ListsMeant /\ OthersKept /\ ParamsMeant

\* The numbers of an option.
NumbersOf(w) ==
  CASE w.o \in DOMAIN Number \cup {"-ta"} -> {w.a}
    [] w.o = "-tb" -> UNION {{e.w, [v |-> e.idx, suf |-> "", junk |-> FALSE]} : e \in Range(w.a)}
    [] w.o = "-p"  -> {[v |-> n, suf |-> "", junk |-> FALSE] : n \in Range(w.a.ns)}
    [] w.o = "-prf" -> {[v |-> e.proc, suf |-> "", junk |-> FALSE] : e \in Range(w.a.l)}
    [] OTHER -> {}

\* An option has a number that no int holds, no long if it has no multiplier.
Blamed(w) ==
  \/ w.o \in Floats /\ w.a.erange
  \/ \E n \in NumbersOf(w) : IF n.suf = "" THEN OutOfRange(n.v) ELSE ~IsInt(Exact(n))

\* "Failure: overflow" is about a number of the command line that is really out
\* of range, in the option being read or, by errno, in one before it.  This is
\* not claimed of an option that multiplies a null or negative number: my_add
\* and my_pow10 take "0k" and "-1k", which fit, for overflows.
FatalJustified ==
  outcome = "fatal" /\ (\A n \in NumbersOf(Word) : n.suf # "" => n.v > 0) =>
    \E w \in Range(Append(done, Word)) : Blamed(w)
=============================================================================
