----------------------------- MODULE TestDriver -----------------------------
(***************************************************************************)
(* The test drivers of the repository: GnatcheckDriver.run of              *)
(* testsuite/drivers/gnatcheck_driver.py and CheckerDriver.run of          *)
(* checker_driver.py, as the worker threads of the testsuite run them.     *)
(*                                                                         *)
(* A test is a sequence of subtests.  Each may run a Python snippet, runs  *)
(* gnatcheck, reads the report it wrote, counts the flagged lines, and may *)
(* run another snippet.  The tests have a working directory each; what the *)
(* threads share is the current directory and the standard output of the   *)
(* process, which capture_exec_python changes and puts back.               *)
(*                                                                         *)
(* A diagnostic is its kind: a run of gnatcheck finds at most one of each. *)
(* BaseDriver and the testsuite library are not in the repository.         *)
(***************************************************************************)
EXTENDS Naturals, Sequences, FiniteSets, FiniteSetsExt, SequencesExt, TLC

CONSTANTS
  Tests,        \* the tests
  Findings,     \* the sets of diagnostics that a run of gnatcheck may find
  MaxWorkers,   \* bound on the threads that run tests
  Home,         \* the directory of the process
  Console,      \* the standard output of the process
  None          \* no file

Kinds == {"violation", "exempted", "warning", "compiler"}

\* A file that the run of one of these subtests has written, 0 for none.
FilesOf(subtests) ==
  [kind : {"file"}, by : subtests, found : SUBSET Kinds, crs : Nat,
   short : BOOLEAN, text : {"text", "xml", "sarif", "source"}]

ASSUME TestDriverAssumption ==
  /\ IsFiniteSet(Tests)
  /\ Findings \subseteq SUBSET Kinds
  /\ MaxWorkers \in Nat \ {0}
  /\ Home \notin Tests
  /\ Console \notin Tests \X Nat
  /\ None \notin FilesOf(Nat)

VARIABLES
  suite,      \* test.yaml of every test: the keys, and its list of subtests
  options,    \* what the testsuite is run with
  selected,   \* the tests that the testsuite runs
  test,       \* the driver object of every test
  cwd,        \* os.getcwd(): Home or the working directory of a test
  stdout      \* sys.stdout: Console, or the buffer of a test

dvars == <<suite, options, selected, test, cwd, stdout>>

-----------------------------------------------------------------------------
(* The keys of a subtest. *)

Get(env, key, default) == IF key \in DOMAIN env THEN env[key] ELSE default
Formats == {"brief", "full", "short", "xml", "sarif"}

\* What a test.yaml has in its keys and in the directory of the test: snippets
\* and arguments are lists, the mode is one that the driver knows, and no file
\* was written by a subtest.
Lists == {"global_python", "pre_python", "post_python", "extra_args"}
WellWritten(env) ==
  /\ \A key \in Lists \cap DOMAIN env : env[key] \in Seq(ToSet(env[key]))
  /\ "mode" \in DOMAIN env => env["mode"] \in {"gnatcheck", "gnatkp"}
WellMade(entry) ==
  /\ WellWritten(entry.top)
  /\ entry.tests \in Seq(ToSet(entry.tests))
  /\ \A env \in ToSet(entry.tests) : WellWritten(env)
  /\ \A name \in DOMAIN entry.files :
       entry.files[name].kind = "file" => entry.files[name] \in FilesOf({0})

\* self.test_env | test: a subtest overrides the keys of the test.
Merge(env, other) == [key \in DOMAIN env \cup DOMAIN other |->
                        IF key \in DOMAIN env THEN env[key] ELSE other[key]]
Subtests(t) == IF suite[t].tests = <<>> THEN <<suite[t].top>>
               ELSE [i \in DOMAIN suite[t].tests |->
                       Merge(suite[t].tests[i], suite[t].top)]
Keys(t)      == Subtests(t)[test[t].sub]

Format(env) == Get(env, "format", "full")
Exe(env)    == Get(env, "mode", "gnatcheck")
Quiet(env)  == Get(env, "quiet", TRUE)
OutputFile(env) ==
  LET asked == Get(env, "output_file", "default")
  IN  IF asked = "no" THEN None
      ELSE IF asked = "default"
      THEN <<Exe(env), IF Format(env) \in {"xml", "sarif"} THEN Format(env) ELSE "out">>
      ELSE <<asked>>

-----------------------------------------------------------------------------
(* The command line. *)

\* Keys whose value is forwarded, and the switches that forward them.
Forwarded == [show_rule |-> "--show-rule", jobs |-> "-j", project |-> "-P",
  show_instantiation_chain |-> "--show-instantiation-chain",
  gpr_config_file |-> "--config", subdirs |-> "--subdirs",
  include_file |-> "-files", ignore_file |-> "--ignore",
  process_closure |-> "-U", scenario_variables |-> "-X",
  check_semantic |-> "--check-semantic", rules_dirs |-> "--rules-dir",
  check_redefinition |-> "--check-redefinition",
  lkql_rule_file |-> "--rule-file", emit_fixes |-> "--emit-fixes",
  disable_formatting |-> "--disable-formatting"]
RuleForwarded == [rule_file |-> "-from", rules |-> "+R",
                  extra_rule_options |-> "+R"]

Given(env, table) ==
  SetToSeq({<<table[key]>> : key \in DOMAIN env \cap DOMAIN table})
If(condition, switch) == IF condition THEN <<switch>> ELSE <<>>

\* Mutant: the host target is named for CodePeer too.
TargetSwitchesTwice(env) ==
  LET target == "target" \in DOMAIN env IN
  If(target, <<"--target", "given">>)
  \o (IF Exe(env) = "gnatkp" /\ Get(env, "gnatkp_autoconfig", TRUE)
      THEN If(~target, <<"--target", "host">>) \o <<<<"--RTS">>>> ELSE <<>>)
  \o If(options.codepeer /\ Get(env, "auto_codepeer_target", TRUE) /\ ~target,
        <<"--target", "codepeer">>)

TargetSwitches(env) ==
  LET target == "target" \in DOMAIN env IN
  If(target, <<"--target", "given">>)
  \o (IF Exe(env) = "gnatkp" /\ Get(env, "gnatkp_autoconfig", TRUE)
      THEN If(~options.codepeer /\ ~target, <<"--target", "host">>)
           \o <<<<"--RTS">>>>
      ELSE <<>>)
  \o If(options.codepeer /\ Get(env, "auto_codepeer_target", TRUE) /\ ~target,
        <<"--target", "codepeer">>)

\* The report that gnatcheck is asked for and the driver reads.
ReportsTo(env) == IF Format(env) = "brief" THEN None ELSE OutputFile(env)

ReportSwitches(env) ==
  LET file == OutputFile(env)
  IN  If(file # None /\ Format(env) \in {"short", "full"}, <<"-o", file>>)
      \o If(file # None /\ Format(env) = "xml", <<"-ox", file>>)
      \o If(file # None /\ Format(env) = "sarif", <<"--sarif", file>>)
      \o If(Format(env) = "brief" /\ Quiet(env), <<"--brief">>)
      \o If(Format(env) = "xml", <<"-xml">>)
      \o If(Format(env) = "short", <<"-s">>)

Command(env) ==
  <<<<Exe(env)>>>> \o If(Quiet(env), <<"-q">>) \o TargetSwitches(env)
  \o ReportSwitches(env) \o Given(env, Forwarded) \o Get(env, "extra_args", <<>>)
  \o <<<<"-rules">>>> \o Given(env, RuleForwarded)

Has(command, switch) == \E i \in DOMAIN command : command[i][1] = switch

-----------------------------------------------------------------------------
(* Gnatcheck, seen from the driver: a run that is refused, or killed when  *)
(* default_process_timeout is over, writes no report.                      *)

Refused == [ran |-> FALSE, found |-> {}, status |-> 2]
Result(command, found) ==
  [ran |-> TRUE, found |-> found,
   status |-> IF found \cap {"violation", "compiler"} # {}
                 /\ ~Has(command, "--brief") THEN 1 ELSE 0]

Printed(command, result) ==
  IF Has(command, "--brief") \/ ~Has(command, "-q")
  THEN result.found \ {"exempted"} ELSE {}

Report(t, command, result) ==
  [kind |-> "file", by |-> test[t].sub, found |-> result.found, crs |-> 0,
   short |-> Has(command, "-s"),
   text |-> IF Has(command, "-ox") THEN "xml"
            ELSE IF Has(command, "--sarif") THEN "sarif" ELSE "text"]

\* Mutant: the full format counts what was printed before the report too.
TaggedPrinted(format, printed, report) ==
  SetToBag(printed) (+)
  SetToBag(IF report = None THEN {} ELSE report.found \cap {"violation"})

\* The diagnostics that each parser tags in what was printed and reported.
Tagged(format, printed, report) ==
  CASE format = "brief" -> SetToBag(printed)
    [] format = "short" -> SetToBag(printed) (+)
         SetToBag(IF report.text = "text" THEN report.found \ {"exempted"} ELSE {})
    [] format = "full"  -> SetToBag(IF report.text = "text" /\ ~report.short
         THEN report.found \cap {"violation", "warning"} ELSE {})
    [] format = "xml"   -> SetToBag(IF report.short
         THEN report.found \ {"compiler"} ELSE report.found \cap {"violation"})
    [] format = "sarif" -> SetToBag(report.found \cap {"violation", "exempted"})

-----------------------------------------------------------------------------
(* The state of a test.  Its output is a sequence of items; an item says   *)
(* what it is and, beside it, which test or subtest it comes from.         *)

NewTest(files) ==
  [pc |-> "queued", phase |-> "pre", sub |-> 1, todo |-> <<>>,
   savedDir |-> Home, savedOut |-> Console, captures |-> 0, captured |-> <<>>,
   files |-> files, runs |-> <<>>, report |-> None, printed |-> {},
   output |-> <<>>, flagged |-> SetToBag({})]

\* The test goes to another place with more output.
Go(t, pc, items) ==
  test' = [test EXCEPT ![t].pc = pc, ![t].output = @ \o items]
At(t, pc) == t \in selected /\ test[t].pc = pc
Over(t)   == test[t].pc \in {"done", "error"}
\* Mutant: a thread whose test has raised takes no other.
ActiveForever == {t \in selected : test[t].pc \notin {"queued", "done"}}

Active    == {t \in selected : test[t].pc # "queued" /\ ~Over(t)}
Shared    == <<cwd, stdout>>
Fixed    == <<suite, options, selected>>

\* A thread takes a test; global_python runs outside of any capture.
Start(t) ==
  /\ At(t, "queued")
  /\ Cardinality(Active) < options.workers
  /\ test' = [test EXCEPT ![t].pc = IF suite[t].driver = "checker"
                                    THEN "checker" ELSE "body",
                          ![t].phase = "global",
                          ![t].todo = Get(suite[t].top, "global_python", <<>>)]
  /\ UNCHANGED <<Fixed, Shared>>

\* Mutant: the test that raised is not ended.
FailOpen(t) == Go(t, "failed", <<>>)

\* An exception ends the driver; the testsuite goes on with the other tests.
Fail(t) == Go(t, "error", <<>>)

\* run_one_test, up to the first snippet.
Subtest(t) ==
  /\ At(t, "subtest")
  /\ IF Format(Keys(t)) \notin Formats THEN Fail(t)
     ELSE test' = [test EXCEPT
            ![t].pc = IF "pre_python" \in DOMAIN Keys(t) THEN "capture" ELSE "run",
            ![t].phase = "pre",
            ![t].todo = Get(Keys(t), "pre_python", <<>>)]
  /\ UNCHANGED <<Fixed, Shared>>

-----------------------------------------------------------------------------
(* capture_exec_python. *)

Buffer(t) == <<t, test[t].captures>>

\* Mutant: the snippet runs where the process is.
EnterNowhere(t) ==
  /\ At(t, "capture")
  /\ test' = [test EXCEPT ![t].pc = "redirect", ![t].savedDir = cwd]
  /\ UNCHANGED <<Fixed, Shared>>

EnterDirectory(t) ==
  /\ At(t, "capture")
  /\ test' = [test EXCEPT ![t].pc = "redirect", ![t].savedDir = cwd]
  /\ cwd' = t
  /\ UNCHANGED <<Fixed, stdout>>

Redirect(t) ==
  /\ At(t, "redirect")
  /\ stdout' = <<t, test[t].captures + 1>>
  /\ test' = [test EXCEPT ![t].pc = "body", ![t].savedOut = stdout,
                          ![t].captures = @ + 1, ![t].captured = <<>>]
  /\ UNCHANGED <<Fixed, cwd>>

\* redirect_stdout puts sys.stdout back on an exception too; os.chdir(cwd) and
\* the captured output are only reached without one.
Restore(t) ==
  /\ At(t, "body") /\ test[t].phase # "global" /\ test[t].todo = <<>>
  /\ stdout' = test[t].savedOut
  /\ Go(t, "leave", test[t].captured)
  /\ UNCHANGED <<Fixed, cwd>>

\* Mutant: the directory is not put back.
LeaveNothing(t) ==
  /\ At(t, "leave")
  /\ Go(t, IF test[t].phase = "pre" THEN "run" ELSE "next", <<>>)
  /\ UNCHANGED <<Fixed, Shared>>

LeaveDirectory(t) ==
  /\ At(t, "leave")
  /\ cwd' = test[t].savedDir
  /\ Go(t, IF test[t].phase = "pre" THEN "run" ELSE "next", <<>>)
  /\ UNCHANGED <<Fixed, stdout>>

GlobalEnds(t) ==
  /\ At(t, "body") /\ test[t].phase = "global" /\ test[t].todo = <<>>
  /\ Go(t, "subtest", <<>>)
  /\ UNCHANGED <<Fixed, Shared>>

Raises(t) ==
  /\ Fail(t)
  /\ stdout' = IF test[t].phase = "global" THEN stdout ELSE test[t].savedOut
  /\ UNCHANGED <<Fixed, cwd>>

-----------------------------------------------------------------------------
(* What a snippet does: it prints, or calls a helper, which announces      *)
(* itself and works in the directory of its own test.                      *)

Files(t) == test[t].files
\* The kind of a path, through one link, as isfile and isdir see it.
KindOf(t, name) ==
  LET real == IF name \in DOMAIN Files(t) /\ Files(t)[name].kind = "link"
              THEN Files(t)[name].target ELSE name
  IN  IF real \in DOMAIN Files(t) THEN Files(t)[real].kind ELSE "missing"
Real(t, name) ==
  IF Files(t)[name].kind = "link" THEN Files(t)[name].target ELSE name
IsLink(t, name) == name \in DOMAIN Files(t) /\ Files(t)[name].kind = "link"

\* Mutant: a file that exists is kept.
KeptFile(files, name, content) == Merge(files, [n \in {name} |-> content])

Written(files, name, content) == Merge([n \in {name} |-> content], files)
Without(files, name) == [n \in DOMAIN files \ {name} |-> files[n]]

Says(what, name) == [what |-> what, by |-> name]

\* The next operation ends, and leaves these files and this output.
Helper(t, files, items) ==
  /\ test' = [test EXCEPT
       ![t].todo = Tail(@), ![t].files = files,
       ![t].output = @ \o <<Says("running", Head(test[t].todo).op)>> \o items]
  /\ UNCHANGED <<Fixed, Shared>>

Doing(t, op) == At(t, "body") /\ test[t].todo # <<>> /\ Head(test[t].todo).op = op
Name(t) == Head(test[t].todo).name

PrintOut(t) ==
  LET text == [what |-> "print", by |-> t, in |-> cwd]
      to(u) == stdout = Buffer(u)
  IN
  /\ Doing(t, "print")
  /\ test' = [u \in Tests |->
       [test[u] EXCEPT !.todo = IF u = t THEN Tail(@) ELSE @,
                       !.captured = IF to(u) THEN Append(@, text) ELSE @]]
  /\ UNCHANGED <<Fixed, Shared>>

RaiseError(t) == Doing(t, "raise") /\ Raises(t)

\* ls and tree.
ListDirectory(t) ==
  \/ /\ Doing(t, "ls")
     /\ Helper(t, Files(t), <<Says("list", DOMAIN Files(t))>>)
  \/ /\ Doing(t, "tree")
     /\ Helper(t, Files(t), <<Says("list",
          {n \in DOMAIN Files(t) : KindOf(t, n) # "dir"})>>)

Cat(t) ==
  /\ Doing(t, "cat")
  /\ \/ /\ KindOf(t, Name(t)) = "missing"
        /\ Helper(t, Files(t), <<Says("not found", Name(t))>>)
     \/ /\ KindOf(t, Name(t)) = "file"
        /\ Helper(t, Files(t), <<Says("cat", Files(t)[Real(t, Name(t))].by)>>)
     \/ KindOf(t, Name(t)) = "dir" /\ Raises(t)

Mkdir(t) ==
  /\ Doing(t, "mkdir")
  /\ \/ /\ KindOf(t, Name(t)) # "missing"
        /\ Helper(t, Files(t), <<Says("already exists", Name(t))>>)
     \/ KindOf(t, Name(t)) = "missing" /\ IsLink(t, Name(t)) /\ Raises(t)
     \/ /\ KindOf(t, Name(t)) = "missing" /\ ~IsLink(t, Name(t))
        /\ Helper(t, Written(Files(t), Name(t), [kind |-> "dir"]), <<>>)

Ln(t) ==
  /\ Doing(t, "ln")
  /\ IF Name(t) \in DOMAIN Files(t)
     THEN Helper(t, Files(t), <<Says("already exists", Name(t))>>)
     ELSE Helper(t, Written(Files(t), Name(t),
                    [kind |-> "link", target |-> Head(test[t].todo).source]), <<>>)

\* A link that leads nowhere stays, and rmtree refuses a link to a directory.
Rm(t) ==
  /\ Doing(t, "rm")
  /\ \/ KindOf(t, Name(t)) = "missing" /\ Helper(t, Files(t), <<>>)
     \/ KindOf(t, Name(t)) = "dir" /\ IsLink(t, Name(t)) /\ Raises(t)
     \/ /\ KindOf(t, Name(t)) = "dir" => ~IsLink(t, Name(t))
        /\ KindOf(t, Name(t)) # "missing"
        /\ Helper(t, Without(Files(t), Name(t)), <<>>)

\* Every "\n" of a file, the one of a "\r\n" too, is replaced by the sequence:
\* crs counts the "\r" before each "\n", on a system whose os.linesep is "\n".
SetLineEndings(t) ==
  LET added == IF Head(test[t].todo).sequence = "crlf" THEN 1 ELSE 0 IN
  /\ Doing(t, "set_line_endings")
  /\ \/ /\ KindOf(t, Name(t)) = "missing"
        /\ Helper(t, Files(t), <<Says("not found", Name(t))>>)
     \/ /\ KindOf(t, Name(t)) = "file"
        /\ Helper(t, [Files(t) EXCEPT ![Real(t, Name(t))].crs = @ + added], <<>>)
     \/ KindOf(t, Name(t)) = "dir" /\ Raises(t)

Snippet(t) ==
  \/ PrintOut(t)      \/ RaiseError(t) \/ ListDirectory(t) \/ Cat(t)
  \/ Mkdir(t)         \/ Ln(t)         \/ Rm(t)            \/ SetLineEndings(t)

-----------------------------------------------------------------------------
(* A run of gnatcheck, and the reading of its report. *)

After(t) == IF "post_python" \in DOMAIN Keys(t) THEN "capture" ELSE "next"

\* In perf mode the run is only measured.
PerfRun(t) ==
  /\ At(t, "run") /\ options.perf
  /\ test' = [test EXCEPT ![t].pc = After(t), ![t].phase = "post",
                          ![t].todo = Get(Keys(t), "post_python", <<>>)]
  /\ UNCHANGED <<Fixed, Shared>>

\* A directory is in the place of the report: gnatcheck cannot create the file, and
\* open raises what the driver does not expect.
Obstructed(t) ==
  LET file == ReportsTo(Keys(t)) IN file # None /\ KindOf(t, file) = "dir"

RunGnatcheck(t) ==
  LET env     == Keys(t)
      command == Command(env)
  IN
  /\ At(t, "run") /\ ~options.perf
  /\ \E result \in {Refused} \cup {Result(command, found) : found \in Findings} :
       LET writes == result.ran /\ ReportsTo(env) # None
       IN  /\ Obstructed(t) => result = Refused
           /\ test' = [test EXCEPT
                ![t].pc = "report",
                ![t].printed = Printed(command, result),
                ![t].runs = Append(@, Merge(result, [wrote |-> writes, command |-> command])),
                ![t].files = IF writes
                             THEN Written(@, ReportsTo(env), Report(t, command, result))
                             ELSE @,
                ![t].output = @ \o (IF "label" \in DOMAIN env
                                    THEN <<Says("label", test[t].sub)>> ELSE <<>>)]
  /\ UNCHANGED <<Fixed, Shared>>

\* What the driver reads from the report file; None without one.
Content(t) ==
  LET file == ReportsTo(Keys(t)) IN
  IF file = None \/ KindOf(t, file) # "file"
  THEN None ELSE Files(t)[Real(t, file)]

\* Is the content not of the format that json.load and ET.fromstring expect?
Unreadable(format, content) ==
  content # None /\ (format = "sarif" \/ (format = "xml" /\ options.flags))
                 /\ content.text # format

StatusItems(env, status) ==
  IF status \in (IF Format(env) = "brief" THEN {0} ELSE {0, 1})
  THEN <<>> ELSE <<Says("status", status)>>

ReadReport(t) ==
  LET env     == Keys(t)
      content == Content(t)
      counts  == options.flags /\ (content # None \/ Format(env) = "brief")
      lost    == content = None /\ ReportsTo(env) # None
  IN
  /\ At(t, "report")
  /\ IF Obstructed(t) \/ Unreadable(Format(env), content) THEN Fail(t)
     ELSE test' = [test EXCEPT
       ![t].pc = After(t), ![t].phase = "post",
       ![t].todo = Get(env, "post_python", <<>>),
       ![t].flagged = IF counts
         THEN @ (+) Tagged(Format(env), test[t].printed, content) ELSE @,
       ![t].output = @
         \o (IF lost THEN <<Says("no report", test[t].sub)>> ELSE <<>>)
         \o (IF content # None
             THEN <<[what |-> "report", by |-> content.by, sub |-> test[t].sub]>>
             ELSE <<>>)
         \o StatusItems(env, Last(test[t].runs).status)]
  /\ UNCHANGED <<Fixed, Shared>>

\* An environment variable outside of the whitelist aborts the test.
StrayVariable(t) ==
  /\ At(t, "report") /\ Format(Keys(t)) = "sarif" /\ Content(t) # None
  /\ Fail(t)
  /\ UNCHANGED <<Fixed, Shared>>

NextSubtest(t) ==
  /\ At(t, "next")
  /\ test' = IF test[t].sub < Len(Subtests(t))
             THEN [test EXCEPT ![t].pc = "subtest", ![t].sub = @ + 1]
             ELSE [test EXCEPT ![t].pc = "done"]
  /\ UNCHANGED <<Fixed, Shared>>

-----------------------------------------------------------------------------
(* CheckerDriver.run: one run of the LKQL checker, whose only counted      *)
(* lines are the rule violations.                                          *)

RunChecker(t) ==
  LET env == suite[t].top IN
  /\ At(t, "checker")
  /\ IF {"project", "input_sources"} \cap DOMAIN env = {} \/ "rule_name" \notin DOMAIN env
     THEN Fail(t)
     ELSE \E found \in Findings :
            test' = [test EXCEPT
              ![t].pc = "done",
              ![t].flagged = IF options.flags /\ ~options.perf
                             THEN SetToBag(found \cap {"violation"}) ELSE @]
  /\ UNCHANGED <<Fixed, Shared>>

Step(t) ==
  \/ Start(t)        \/ Subtest(t)    \/ EnterDirectory(t) \/ Redirect(t)
  \/ Restore(t)      \/ GlobalEnds(t) \/ LeaveDirectory(t) \/ Snippet(t)
  \/ PerfRun(t)      \/ RunGnatcheck(t) \/ ReadReport(t)   \/ NextSubtest(t)
  \/ RunChecker(t)     \/ StrayVariable(t)

-----------------------------------------------------------------------------
(* Properties. *)

Pcs == {"queued", "body", "checker", "subtest", "capture", "redirect", "leave",
        "run", "report", "next", "done", "error"}
Items(t, what) ==
  {test[t].output[i] : i \in {n \in DOMAIN test[t].output :
                                test[t].output[n].what = what}}

\* Every test of the driver is where run or run_one_test may be, in one of its
\* subtests, and the shared state is Home, the console, or of some test.
DriverTypeOK ==
  /\ \A t \in Tests :
       /\ test[t].pc \in Pcs
       /\ test[t].phase \in {"global", "pre", "post"}
       /\ test[t].sub \in DOMAIN Subtests(t)
       /\ test[t].savedDir \in Tests \cup {Home}
       /\ Len(test[t].runs) <= test[t].sub
       /\ DOMAIN test[t].flagged \subseteq Kinds
  /\ selected \subseteq Tests
  /\ cwd \in Tests \cup {Home}
  /\ stdout = Console \/ \E t \in Tests : stdout[1] = t

\* capture_exec_python, with one worker: what a snippet prints reaches the
\* output of its own test and nobody else's, printed in the directory of that
\* test, whatever the other tests have left behind.
SnippetsIsolated ==
  options.workers = 1 =>
    \A t \in selected : \A item \in Items(t, "print") : item.by = t /\ item.in = t

\* capture_exec_python, with one worker: between two tests the process has its
\* standard output back, and its directory unless a snippet has raised.
ProcessRestored ==
  options.workers = 1 /\ Active = {} =>
    /\ stdout = Console
    /\ cwd # Home => \E t \in selected : test[t].pc = "error" /\ cwd = t

\* run_one_test: a subtest whose report is asked for shows the report of the
\* latest run that wrote that file, or says that there is none; it says so only
\* when no run of the test has written it, or a snippet has removed it.  Without
\* such a run, what it shows came with the test; and with a link that a snippet
\* has made, it may be another file.
ReportAccounted ==
  \A t \in selected : \A i \in 1..Len(test[t].runs) :
    LET env     == Subtests(t)[i]
        shown   == {item \in Items(t, "report") : item.sub = i}
        writers == {j \in 1..i : /\ test[t].runs[j].wrote
                                 /\ ReportsTo(Subtests(t)[j]) = ReportsTo(env)}
        read    == i < test[t].sub \/ test[t].pc \in {"next", "done"}
        linked  == Says("running", "ln") \in Items(t, "running")
    IN  ReportsTo(env) # None /\ read =>
          \/ /\ shown # {}
             /\ linked \/ IF writers = {} THEN ReportsTo(env) \in DOMAIN suite[t].files
                          ELSE \A item \in shown : item.by = Max(writers)
          \/ /\ shown = {}
             /\ Says("no report", i) \in Items(t, "no report")
             /\ writers = {} \/ Says("running", "rm") \in Items(t, "running")

\* The flag checking counts a rule violation once for each subtest that found
\* it, in whatever format, as long as each subtest reads its own report and no
\* short report is also printed.
CountedOnce ==
  \A t \in selected :
    /\ test[t].pc = "done" /\ options.flags /\ ~options.perf
    /\ suite[t].driver = "gnatcheck"
    /\ \A item \in Items(t, "report") : item.by = item.sub
    /\ \A i \in DOMAIN Subtests(t) :
         LET env == Subtests(t)[i] IN
         /\ Format(env) = "brief" \/ OutputFile(env) # None
         /\ Format(env) # "short" \/ Quiet(env)
         /\ "extra_args" \notin DOMAIN env
    => Get(test[t].flagged, "violation", 0)
         = Cardinality({i \in DOMAIN test[t].runs :
                          "violation" \in test[t].runs[i].found})

\* The switches depend on each other: a command names the target at most once,
\* unless the extra arguments of the subtest name one, and that of a gnatkp run
\* left to its configuration names one and the runtime, except where the run is
\* for CodePeer and asks for no CodePeer target.
OneTarget ==
  \A t \in selected : \A i \in DOMAIN test[t].runs :
    LET command == test[t].runs[i].command
        targets == {n \in DOMAIN command : command[n][1] = "--target"}
        env     == Subtests(t)[i]
    IN  /\ Cardinality(targets) <= 1 \/ Has(Get(env, "extra_args", <<>>), "--target")
        /\ Exe(env) = "gnatkp" /\ Get(env, "gnatkp_autoconfig", TRUE)
             => /\ Has(command, "--RTS")
                /\ targets # {} \/ (options.codepeer
                                    /\ ~Get(env, "auto_codepeer_target", TRUE))

\* A report shown for a subtest was written by the run of that subtest: "each
\* entry of the list is a separate test".
OwnReport ==
  \A t \in selected : \A item \in Items(t, "report") : item.by = item.sub

=============================================================================
