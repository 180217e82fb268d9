----------------------------- MODULE MCStartup -----------------------------
(* Placement: the classes of every cycle of two to six communications,      *)
(* placed on two processors, which are often too few; custom affinity of    *)
(* tests of three and four threads on up to four cores, with and without    *)
(* enough processors for two instances; every increment on up to eight      *)
(* processors, two rounds; shuffles with more processors than threads, as   *)
(* many, and fewer.                                                         *)
(* Command lines: any two words of the tokens of all the options, and three *)
(* among those that interact.  An int is -128 .. 127, a long -2048 .. 2047. *)
EXTENDS Startup

Features == [
  presi |-> FALSE, verbose |-> 0, max_run |-> 10, size_of_test |-> 100, stride |-> 1,
  avail |-> 0, n_exe |-> 0, sync_n |-> 1, aff_mode |-> "incr", custom_enabled |-> TRUE,
  scan_enabled |-> TRUE, aff_incr |-> 1, aff_cpus |-> <<0, 1, 2, 3>>, aff_topo |-> None,
  shuffle |-> 1, max_loop |-> 1, delta_tb |-> <<5, 5>>,
  prefetch |-> <<("x" :> "none" @@ "y" :> "none"), ("x" :> "touch")>>,
  static_prefetch |-> 1, verbose_barrier |-> 1, speedcheck |-> 1, fix |-> 0, prelude |-> 1,
  def_sz |-> 4, smt |-> 2, nsockets |-> 1, smtmode |-> "seq", max |-> <<>>, shift |-> <<>>, param |-> <<>>]

\* A test without any feature, and the presi harness: four threads, a row of
\* the topology among three, and the delay of a thread, among five.
Bare == [Features EXCEPT
  !.stride = 0, !.sync_n = 0, !.aff_mode = "none", !.custom_enabled = FALSE, !.scan_enabled = FALSE,
  !.shuffle = -1, !.max_loop = 0, !.delta_tb = <<>>, !.prefetch = <<>>, !.static_prefetch = -1,
  !.verbose_barrier = -1, !.speedcheck = -1, !.fix = 1, !.prelude = 0]
Presi == [Bare EXCEPT
  !.presi = TRUE, !.avail = 4, !.n_exe = 2, !.max = "part" :> 3 @@ "d1" :> 5,
  !.shift = "part" :> 0 @@ "d1" :> 2, !.param = "part" :> -1 @@ "d1" :> -1]
NoMode == [Features EXCEPT !.custom_enabled = FALSE, !.scan_enabled = FALSE, !.aff_mode = "random"]

MP   == <<"Rf", "Fr">>
IRIW == <<"Rf", "Fr", "Rf", "Fr">>
Job(cs, d, ws) == [coms |-> cs, def |-> d, argv |-> ws]

Num(v, s) == [v |-> v, suf |-> s, junk |-> FALSE]
Bad(v)    == [v |-> v, suf |-> "", junk |-> TRUE]
Opt1(o, a) == [o |-> o, a |-> a]
Float(n, d, e, j) == [num |-> n, den |-> d, erange |-> e, junk |-> j]
E(i, w)    == [idx |-> i, w |-> w]
P(p, v, c) == [proc |-> p, var |-> v, c |-> c]

\* Numbers at the limits of an int and a long, with and without multiplier.
Numbers == {Num(-1, ""), Num(0, ""), Num(2, ""), Num(128, ""), Num(3000, ""), Num(-3000, ""),
            Num(12, "k"), Num(13, "k"), Num(0, "k"), Num(1, "m"), Num(30, "m"), Bad(3)}

SetTokens == {Opt1("-r", w) : w \in Numbers}
             \cup {Opt1("-a", Num(v, "")) : v \in {-1, 3, 60}}
             \cup {Opt1(o, w) : o \in {"-n", "-i"}, w \in {Num(-1, ""), Num(3, ""), Num(1, "k"), Num(2, "m")}}
             \cup {Opt1(o, Num(v, "")) : o \in {"-s", "-st", "-k", "-l", "-prs"}, v \in {-1, 3}}
             \cup {Opt1("-r", None)}
FlagTokens == {Opt1(o, None) : o \in DOMAIN Flag \cup DOMAIN Count
                                     \cup {"+ra", "+ca", "+sa", "-zz", "word"}}
              \cup {Opt1("+ta", g) : g \in {"group", "other"}}
FloatTokens == {Opt1(o, f_) : o \in Floats,
                  f_ \in {Float(1, 2, FALSE, FALSE), Float(-3, 2, FALSE, FALSE), Float(0, 1, FALSE, FALSE),
                          Float(0, 1, TRUE, FALSE), Float(1, 0, TRUE, FALSE), Float(1, 1, FALSE, TRUE)}}
CpuTokens == {Opt1("-p", [ns |-> ns, junk |-> FALSE]) :
                ns \in {<<2, 0, 3>>, <<3>>, <<0, -1>>, <<3000, 1>>, <<1, 256>>, <<-3000, 2>>}}
             \cup {Opt1("-p", [ns |-> <<1>>, junk |-> TRUE])}
DelayTokens == {Opt1("-tb", l) : l \in {<<>>, <<E(0, Num(1, ""))>>, <<E(1, Num(12, "k")), E(0, Num(3, ""))>>,
                  <<E(0, Num(1, "")), E(0, Num(2, ""))>>, <<E(0, Num(1, "")), E(2, Num(99, "m"))>>,
                  <<E(1, Num(99, "m")), E(2, Bad(1))>>, <<E(1, Bad(1))>>, <<E(-3000, Num(1, ""))>>}}
               \cup {Opt1("-ta", w) : w \in {Num(4, ""), Num(13, "k"), Bad(1)}}
PrefetchTokens == {Opt1("-prf", [l |-> l, junk |-> j]) : j \in BOOLEAN,
                     l \in {<<>>, <<P(0, "y", "F")>>, <<P(1, "y", "F")>>, <<P(0, "x", "W"), P(0, "x", "I")>>,
                            <<P(1, "x", "T"), P(0, "x", "")>>, <<P(2, "x", "F")>>, <<P(-3000, "x", "F")>>}}
                  \cup {Opt1("-pra", c) : c \in {"F", "I"}}
Tokens == SetTokens \cup FlagTokens \cup FloatTokens \cup CpuTokens \cup DelayTokens \cup PrefetchTokens

ModeTokens == {Opt1(o, None) : o \in {"+ra", "+ca", "+sa"}}
              \cup {Opt1("-i", Num(v, "")) : v \in {0, 3}}
              \cup {Opt1("-n", Num(2, "")), Opt1("-a", Num(2, "")), Opt1("-p", [ns |-> <<2, 0, 3>>, junk |-> FALSE])}

WordTokens == {Opt1("word", [tag |-> t, v |-> v]) : t \in {"part", "d1", "other"}, v \in {-1, 2, 3000}}
              \cup {Opt1(o, w) : o \in {"-n", "-a"}, w \in {Num(0, ""), Num(6, ""), Num(0, "k")}}
              \cup {Opt1("-a", Num(4, "")), Opt1("-v", None), Opt1("-fr", Float(1, 2, FALSE, FALSE))}

Words(S, n) == UNION {[1 .. i -> S] : i \in 0 .. n}

CommandLines ==
  {Job(MP, Features, ws) : ws \in Words(Tokens, 2)
                                   \cup Words(ModeTokens, 3)}
  \cup {Job(MP, Bare, ws) : ws \in Words(Tokens, 1)}
  \cup {Job(MP, NoMode, ws) : ws \in Words(ModeTokens, 2)}
  \cup {Job(MP, Presi, ws) : ws \in Words(WordTokens, 3)}

\* Placements, from the defaults of a test and two options.
Cycles == {IRIW, <<"Rf", "Rf", "Fr">>, <<"Rf", "Ws", "Fr">>, <<"Fr", "Rf", "Hat", "Ws">>, <<"Fr", "Fr">>}
Test(cs, m, s, w, sm, n, i) ==
  Job(cs, [Features EXCEPT !.aff_mode = m, !.def_sz = s, !.aff_cpus = [c \in 1 .. s |-> c - 1],
                           !.smt = w, !.smtmode = sm],
      <<Opt1("-n", Num(n, ""))>> \o IF m = "incr" THEN <<Opt1("-i", Num(i, ""))>> ELSE <<>>)

\* On machines with two sockets, instances up to their number, or fewer.
Scan(cs, s, w, sm, socks, n) ==
  Job(cs, [Features EXCEPT !.aff_mode = "scan", !.def_sz = s, !.aff_cpus = [c \in 1 .. s |-> c - 1],
                           !.smt = w, !.smtmode = sm, !.nsockets = socks],
      <<Opt1("-n", Num(n, ""))>>)

Placements ==
  {Test(cs, "custom", 2, 2, "seq", 1, 1) : cs \in UNION {[1 .. n -> com] : n \in 2 .. 6}}
  \cup {Test(cs, "custom", s, 2, sm, 2, 1) : cs \in Cycles, s \in {4, 6, 8}, sm \in {"seq", "end"}}
  \cup {Test(MP, "incr", s, 1, "seq", s, i) : s \in 1 .. 8, i \in 0 .. 9}
  \cup {Test(MP, "random", s, 1, "seq", n, 1) : s \in {3, 4}, n \in {1, 2}}
  \cup {Scan(cs, 8, w, "seq", 2, 2) : cs \in {<<"Rf", "Rf", "Fr">>, IRIW}, w \in {2, 4}}
  \cup {Scan(MP, 8, 2, sm, 2, 3) : sm \in {"seq", "end"}}

MCJobs == CommandLines \cup Placements

\* IRIW on two cores of four logical processors each.
TwoCores == {Test(IRIW, "custom", 8, 4, "seq", 1, 1)}

\* A delay on the command line of a presi test.
OneDelay == {Job(MP, Presi, <<Opt1("word", [tag |-> "d1", v |-> v])>>) : v \in -2 .. 4}
=============================================================================
