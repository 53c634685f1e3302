---------------------------- MODULE MCTestsuite ----------------------------
(* Instances of Testsuite for TLC. *)
EXTENDS Testsuite

CONSTANTS t1, t2

Op(op, name)        == [op |-> op, name |-> name]
Prints              == Op("print", None)
Source              == [kind |-> "file", by |-> 0, found |-> {}, crs |-> 0,
                        short |-> FALSE, text |-> "source"]
Test(top, tests)    == [driver |-> "gnatcheck", perf |-> FALSE, top |-> top,
                        tests |-> tests, files |-> (<<"a.adb">> :> Source)]
Plain               == [label |-> "plain"]

OptionsBase == [workers |-> 1, perf |-> FALSE, coverage |-> FALSE,
  commonSources |-> TRUE, onlyAutoFix |-> FALSE, codepeer |-> FALSE,
  flags |-> TRUE]

\* Two subtests, of any two formats, that share a report or not.
FormatPairs ==
  {Test([quiet |-> q], <<[format |-> f], [format |-> g] @@ more>>) :
     q \in BOOLEAN, f \in Formats, g \in Formats,
     more \in {<<>>, [extra_args |-> <<<<"-s">>>>], [output_file |-> "no"]}}
\* Files given the same name in two formats, and a wrong format.
NamePairs ==
  {Test([output_file |-> "out"], <<[format |-> f], [format |-> g]>>) :
     f \in {"full", "xml", "sarif"}, g \in {"xml", "sarif", "html"}}
Targets ==
  {Test([mode |-> m, jobs |-> TRUE, rules |-> TRUE] @@ a @@ c @@ d @@ e, <<>>) :
     m \in {"gnatcheck", "gnatkp"}, a \in {<<>>, [target |-> TRUE]},
     c \in {<<>>, [gnatkp_autoconfig |-> FALSE]},
     d \in {<<>>, [auto_codepeer_target |-> FALSE]},
     e \in {<<>>, [extra_args |-> <<<<"--target", "given">>>>]}}

\* Snippets of one test: what goes wrong in them, and what they do to files.
Report1 == <<"gnatcheck", "out">>
Snippets == {
  <<Prints>>,
  <<Prints, Op("raise", None)>>,
  <<Op("rm", Report1), Prints>>,
  <<Op("rm", Report1), [op |-> "ln", name |-> Report1, source |-> <<"a.adb">>]>>,
  <<Op("cat", Report1), Op("ls", None), Op("tree", None)>>,
  <<Op("mkdir", <<"d">>), Op("cat", <<"d">>)>>,
  <<Op("mkdir", Report1)>>,
  <<Op("mkdir", <<"d">>), [op |-> "ln", name |-> <<"l">>, source |-> <<"d">>],
    Op("mkdir", <<"l">>), Op("rm", <<"l">>)>>,
  <<[op |-> "ln", name |-> Report1, source |-> <<"b">>], Op("rm", Report1),
    Op("mkdir", Report1)>>,
  <<[op |-> "ln", name |-> <<"l">>, source |-> <<"a.adb">>],
    [op |-> "ln", name |-> <<"l">>, source |-> <<"b">>],
    [op |-> "set_line_endings", name |-> <<"l">>, sequence |-> "crlf"],
    Op("cat", <<"l">>), Op("rm", <<"a.adb">>)>>,
  <<Op("mkdir", <<"e">>),
    [op |-> "set_line_endings", name |-> <<"c">>, sequence |-> "crlf"],
    [op |-> "set_line_endings", name |-> <<"e">>, sequence |-> "lf"]>>}
Scripted ==
  {Test([pre_python |-> s], <<[label |-> "1"], [label |-> "2"]>>) : s \in Snippets}
\* A test that comes with a file of the name of its report.
Brought == [Test(<<>>, <<<<>>, <<>>>>) EXCEPT !.files = @ @@ (Report1 :> Source)]
Once(s) == Test([pre_python |-> s, post_python |-> <<Prints>>], <<>>)
Both == Test([pre_python |-> <<Prints>>, post_python |-> <<Prints>>,
              global_python |-> <<Prints>>], <<>>)
Brief == Test([format |-> "brief", post_python |-> <<Prints>>], <<>>)
Checker(top, perf) == [driver |-> "checker", perf |-> perf, top |-> top,
                       tests |-> <<>>, files |-> <<>>]
Checkers == {Checker([project |-> TRUE, rule_name |-> TRUE, auto_fix |-> TRUE], FALSE),
             Checker([rule_name |-> TRUE], FALSE)}
PerfTest == [Both EXCEPT !.perf = TRUE]

SomeFindings == {{}, Kinds}

Suite(first, second) == (t1 :> first) @@ (t2 :> second)
Call(s, o) == [suite |-> s, options |-> o]
Serial   == OptionsBase
Parallel == [OptionsBase EXCEPT !.workers = MaxWorkers]

Measured == {[s EXCEPT !.perf = TRUE] : s \in Scripted}

MCCalls ==
  \* One thread: a test with reports to tell apart, or tests with snippets.
  {Call(Suite(a, PerfTest), Serial) : a \in FormatPairs \cup NamePairs \cup {Brought}}
  \cup {Call(Suite(a, PerfTest), [Serial EXCEPT !.codepeer = c]) :
          a \in Targets, c \in BOOLEAN}
  \cup {Call(Suite(a, Both), Serial) : a \in Scripted}
  \cup {Call(Suite(a, PerfTest), [Serial EXCEPT !.perf = TRUE]) : a \in Measured}
  \* Two threads.
  \cup {Call(Suite(a, PerfTest), [Parallel EXCEPT !.perf = TRUE]) :
          a \in {[Once(s) EXCEPT !.perf = TRUE] :
                   s \in {<<Prints>>, <<Prints, Op("raise", None)>>}}}
  \cup {Call(Suite(Brief, Brief), Parallel)}
  \* The other driver, and the options of the testsuite.
  \cup {Call(Suite(a, PerfTest),
             [Serial EXCEPT !.perf = p, !.coverage = c, !.commonSources = s,
                            !.onlyAutoFix = x, !.flags = ~c]) :
         a \in Checkers, p \in BOOLEAN, c \in BOOLEAN, s \in BOOLEAN, x \in BOOLEAN}

\* The suites in which no file of the name of a report comes with a test.
NothingBrought ==
  Init /\ \A t \in Tests : suite[t] # Brought
StaleSpec == NothingBrought /\ [][Next]_svars
=============================================================================
