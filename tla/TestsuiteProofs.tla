-------------------------- MODULE TestsuiteProofs --------------------------
(***************************************************************************)
(* What the test drivers and the testsuite keep, for any tests, options    *)
(* and findings: the proofs about TestDriver and Testsuite.                *)
(***************************************************************************)
EXTENDS Testsuite, SequenceTheorems, FiniteSetTheorems, TLAPS

-----------------------------------------------------------------------------
(* Lists, whatever they hold. *)

Listed(s) == s \in Seq(ToSet(s))

LEMMA ListedIs ==
  ASSUME NEW S, NEW s \in Seq(S)
  PROVE  Listed(s)
<1>1. s \in [1..Len(s) -> ToSet(s)]
  BY DEF ToSet
<1> QED  BY <1>1 DEF Listed

LEMMA CatListed ==
  ASSUME NEW a, NEW b, Listed(a), Listed(b)
  PROVE  /\ Listed(a \o b)
         /\ ToSet(a \o b) = ToSet(a) \cup ToSet(b)
         /\ Len(a \o b) = Len(a) + Len(b)
         /\ Len(a) \in Nat /\ Len(b) \in Nat
<1> DEFINE S == ToSet(a) \cup ToSet(b)
<1>1. a \in Seq(S) /\ b \in Seq(S)
  BY DEF Listed
<1>2. Listed(a \o b)
  <2>1. a \o b \in Seq(S)
    BY <1>1
  <2> HIDE DEF S
  <2> QED  BY <2>1, ListedIs
<1> HIDE DEF S
<1>3. /\ Len(a \o b) = Len(a) + Len(b) /\ Len(a) \in Nat /\ Len(b) \in Nat
      /\ DOMAIN (a \o b) = 1..(Len(a) + Len(b))
      /\ DOMAIN a = 1..Len(a) /\ DOMAIN b = 1..Len(b)
      /\ \A i \in 1..(Len(a) + Len(b)) :
           (a \o b)[i] = IF i <= Len(a) THEN a[i] ELSE b[i - Len(a)]
  BY <1>1
<1>4. ASSUME NEW i \in DOMAIN (a \o b) PROVE (a \o b)[i] \in ToSet(a) \cup ToSet(b)
  <2>1. CASE i <= Len(a)
    BY <1>3, <2>1 DEF ToSet
  <2>2. CASE ~(i <= Len(a))
    <3>1. i - Len(a) \in 1..Len(b)
      BY <1>3, <2>2
    <3> QED  BY <1>3, <2>2, <3>1 DEF ToSet
  <2> QED  BY <2>1, <2>2
<1>5. ASSUME NEW i \in DOMAIN a PROVE a[i] \in ToSet(a \o b)
  <2>1. i \in DOMAIN (a \o b) /\ (a \o b)[i] = a[i]
    BY <1>3
  <2> QED  BY <2>1 DEF ToSet
<1>6. ASSUME NEW i \in DOMAIN b PROVE b[i] \in ToSet(a \o b)
  <2>1. i + Len(a) \in DOMAIN (a \o b) /\ (a \o b)[i + Len(a)] = b[i]
    BY <1>3
  <2> QED  BY <2>1 DEF ToSet
<1>7. ToSet(a \o b) \subseteq ToSet(a) \cup ToSet(b)
  BY <1>4 DEF ToSet
<1>8. ToSet(a) \cup ToSet(b) \subseteq ToSet(a \o b)
  BY <1>5, <1>6 DEF ToSet
<1> QED  BY <1>2, <1>3, <1>7, <1>8

LEMMA OneListed ==
  ASSUME NEW x
  PROVE  Listed(<<x>>) /\ ToSet(<<x>>) = {x} /\ Len(<<x>>) = 1
BY DEF Listed, ToSet

LEMMA AppendListed ==
  ASSUME NEW s, Listed(s), NEW x
  PROVE  Append(s, x) = s \o <<x>>
<1> DEFINE S == ToSet(s) \cup {x}
<1>1. s \in Seq(S) /\ x \in S
  BY DEF Listed
<1> HIDE DEF S
<1> QED  BY <1>1

LEMMA NoneListed ==
  Listed(<<>>) /\ ToSet(<<>>) = {} /\ Len(<<>>) = 0
BY DEF Listed, ToSet

\* The items of a list in the sense of Items, through the set of its elements.
LEMMA ItemsAre ==
  ASSUME NEW t, NEW what
  PROVE  Items(t, what) = {item \in ToSet(test[t].output) : item.what = what}
BY DEF Items, ToSet

-----------------------------------------------------------------------------
(* What each step does to the record of its test. *)

Fields == DOMAIN NewTest(<<>>)
Shaped == DOMAIN test = Tests /\ \A t \in Tests : DOMAIN test[t] = Fields

LEMMA FieldsAre ==
  Fields = {"pc", "phase", "sub", "todo", "savedDir", "savedOut", "captures",
            "captured", "files", "runs", "report", "printed", "output", "flagged"}
BY DEF Fields, NewTest

\* A step of t changes these fields of its record, and no other record.
Keeps(t, changed) ==
  /\ DOMAIN test' = Tests
  /\ DOMAIN test'[t] = Fields
  /\ \A u \in Tests \ {t} : test'[u] = test[u]
  /\ \A f \in Fields \ changed : test'[t][f] = test[t][f]

LEMMA KeepsShaped ==
  ASSUME NEW t \in Tests, NEW changed, Shaped, Keeps(t, changed)
  PROVE  Shaped'
BY DEF Shaped, Keeps

LEMMA GoFacts ==
  ASSUME NEW t \in Tests, Shaped, NEW pc, NEW items, Go(t, pc, items)
  PROVE  /\ Keeps(t, {"pc", "output"})
         /\ test'[t].pc = pc
         /\ test'[t].output = test[t].output \o items
BY FieldsAre DEF Go, Keeps, Shaped

LEMMA StartFacts ==
  ASSUME NEW t \in Tests, Shaped, Start(t)
  PROVE  /\ Keeps(t, {"pc", "phase", "todo"})
         /\ test[t].pc = "queued"
         /\ test'[t].pc = IF suite[t].driver = "checker" THEN "checker" ELSE "body"
         /\ test'[t].phase = "global"
         /\ Cardinality(Active) < options.workers
         /\ UNCHANGED <<Fixed, Shared>>
BY FieldsAre DEF Start, Keeps, Shaped, At

LEMMA SubtestFacts ==
  ASSUME NEW t \in Tests, Shaped, Subtest(t)
  PROVE  /\ test[t].pc = "subtest"
         /\ UNCHANGED <<Fixed, Shared>>
         /\ \/ Fail(t)
            \/ /\ Keeps(t, {"pc", "phase", "todo"})
               /\ test'[t].pc \in {"capture", "run"}
               /\ test'[t].phase = "pre"
               /\ Format(Keys(t)) \in Formats
BY FieldsAre DEF Subtest, Keeps, Shaped, At

LEMMA EnterFacts ==
  ASSUME NEW t \in Tests, Shaped, EnterDirectory(t)
  PROVE  /\ Keeps(t, {"pc", "savedDir"})
         /\ test[t].pc = "capture" /\ test'[t].pc = "redirect"
         /\ test'[t].savedDir = cwd
         /\ cwd' = t
         /\ UNCHANGED <<Fixed, stdout>>
BY FieldsAre DEF EnterDirectory, Keeps, Shaped, At

LEMMA RedirectFacts ==
  ASSUME NEW t \in Tests, Shaped, Redirect(t)
  PROVE  /\ Keeps(t, {"pc", "savedOut", "captures", "captured"})
         /\ test[t].pc = "redirect" /\ test'[t].pc = "body"
         /\ test'[t].savedOut = stdout
         /\ test'[t].captures = test[t].captures + 1
         /\ test'[t].captured = <<>>
         /\ stdout' = <<t, test[t].captures + 1>>
         /\ UNCHANGED <<Fixed, cwd>>
BY FieldsAre DEF Redirect, Keeps, Shaped, At

LEMMA RestoreFacts ==
  ASSUME NEW t \in Tests, Shaped, Restore(t)
  PROVE  /\ Keeps(t, {"pc", "output"})
         /\ test[t].pc = "body" /\ test[t].phase # "global" /\ test'[t].pc = "leave"
         /\ test'[t].output = test[t].output \o test[t].captured
         /\ stdout' = test[t].savedOut
         /\ UNCHANGED <<Fixed, cwd>>
BY GoFacts DEF Restore, At

LEMMA GlobalEndsFacts ==
  ASSUME NEW t \in Tests, Shaped, GlobalEnds(t)
  PROVE  /\ Keeps(t, {"pc", "output"})
         /\ test[t].pc = "body" /\ test[t].phase = "global" /\ test'[t].pc = "subtest"
         /\ test'[t].output = test[t].output \o <<>>
         /\ UNCHANGED <<Fixed, Shared>>
BY GoFacts DEF GlobalEnds, At

LEMMA LeaveFacts ==
  ASSUME NEW t \in Tests, Shaped, LeaveDirectory(t)
  PROVE  /\ Keeps(t, {"pc", "output"})
         /\ test[t].pc = "leave"
         /\ test'[t].pc = IF test[t].phase = "pre" THEN "run" ELSE "next"
         /\ test'[t].output = test[t].output \o <<>>
         /\ cwd' = test[t].savedDir
         /\ UNCHANGED <<Fixed, stdout>>
BY GoFacts DEF LeaveDirectory, At

LEMMA FailFacts ==
  ASSUME NEW t \in Tests, Shaped, Fail(t)
  PROVE  /\ Keeps(t, {"pc", "output"})
         /\ test'[t].pc = "error"
         /\ test'[t].output = test[t].output \o <<>>
BY GoFacts DEF Fail

LEMMA PrintFacts ==
  ASSUME NEW t \in Tests, Shaped, PrintOut(t)
  PROVE  /\ Shaped'
         /\ test[t].pc = "body"
         /\ \A u \in Tests : \A f \in Fields \ {"todo", "captured"} :
              test'[u][f] = test[u][f]
         /\ \A u \in Tests \ {t} : test'[u].todo = test[u].todo
         /\ \A u \in Tests : test'[u].captured =
              IF stdout = Buffer(u)
              THEN Append(test[u].captured, [what |-> "print", by |-> t, in |-> cwd])
              ELSE test[u].captured
         /\ UNCHANGED <<Fixed, Shared>>
BY FieldsAre DEF PrintOut, Shaped, Doing, At

LEMMA PerfFacts ==
  ASSUME NEW t \in Tests, Shaped, PerfRun(t)
  PROVE  /\ Keeps(t, {"pc", "phase", "todo"})
         /\ test[t].pc = "run" /\ options.perf
         /\ test'[t].pc \in {"capture", "next"} /\ test'[t].phase = "post"
         /\ UNCHANGED <<Fixed, Shared>>
BY FieldsAre DEF PerfRun, Keeps, Shaped, At, After

LEMMA NextSubtestFacts ==
  ASSUME NEW t \in Tests, Shaped, NextSubtest(t)
  PROVE  /\ test[t].pc = "next"
         /\ \/ /\ Keeps(t, {"pc", "sub"})
               /\ test'[t].pc = "subtest"
               /\ test[t].sub < Len(Subtests(t)) /\ test'[t].sub = test[t].sub + 1
            \/ /\ Keeps(t, {"pc"}) /\ test'[t].pc = "done"
               /\ ~(test[t].sub < Len(Subtests(t)))
         /\ UNCHANGED <<Fixed, Shared>>
<1> USE FieldsAre DEF NextSubtest, Keeps, Shaped, At
<1>1. CASE test[t].sub < Len(Subtests(t))
  BY <1>1
<1>2. CASE ~(test[t].sub < Len(Subtests(t)))
  BY <1>2
<1> QED  BY <1>1, <1>2

LEMMA RunFacts ==
  ASSUME NEW t \in Tests, Shaped, RunGnatcheck(t)
  PROVE  /\ Keeps(t, {"pc", "printed", "runs", "files", "output"})
         /\ test[t].pc = "run" /\ ~options.perf /\ test'[t].pc = "report"
         /\ UNCHANGED <<Fixed, Shared>>
         /\ \E result \in {Refused} \cup {Result(Command(Keys(t)), found) : found \in Findings},
               label \in {<<>>, <<Says("label", test[t].sub)>>} :
              LET command == Command(Keys(t))
                  writes  == result.ran /\ ReportsTo(Keys(t)) # None
              IN  /\ test'[t].runs = Append(test[t].runs,
                       Merge(result, [wrote |-> writes, command |-> command]))
                  /\ test'[t].printed = Printed(command, result)
                  /\ test'[t].files = IF writes
                       THEN Written(Files(t), ReportsTo(Keys(t)), Report(t, command, result))
                       ELSE Files(t)
                  /\ test'[t].output = test[t].output \o label
<1> USE FieldsAre DEF Keeps, Shaped, At, Files
<1> DEFINE env == Keys(t)
           command == Command(env)
           label == IF "label" \in DOMAIN env THEN <<Says("label", test[t].sub)>> ELSE <<>>
           writes(result) == result.ran /\ ReportsTo(env) # None
           After1(result) ==
             test' = [test EXCEPT
             ![t].pc = "report",
             ![t].printed = Printed(command, result),
             ![t].runs = Append(@, Merge(result, [wrote |-> writes(result), command |-> command])),
             ![t].files = IF writes(result)
                          THEN Written(@, ReportsTo(env), Report(t, command, result))
                          ELSE @,
             ![t].output = @ \o label]
<1>1. PICK result \in {Refused} \cup {Result(command, found) : found \in Findings} :
        After1(result)
  BY DEF RunGnatcheck
<1>2. label \in {<<>>, <<Says("label", test[t].sub)>>}
  OBVIOUS
<1>3. test[t].pc = "run" /\ ~options.perf /\ UNCHANGED <<Fixed, Shared>>
  BY DEF RunGnatcheck
<1> HIDE DEF label, command, env, writes
<1>4. /\ Keeps(t, {"pc", "printed", "runs", "files", "output"})
      /\ test'[t].pc = "report"
      /\ test'[t].printed = Printed(command, result)
      /\ test'[t].runs = Append(test[t].runs, Merge(result, [wrote |-> writes(result), command |-> command]))
      /\ test'[t].files = IF writes(result)
           THEN Written(Files(t), ReportsTo(env), Report(t, command, result)) ELSE Files(t)
      /\ test'[t].output = test[t].output \o label
  BY <1>1
<1> USE DEF command, env, writes
<1> QED  BY <1>1, <1>2, <1>3, <1>4

\* What ReadReport makes of the output.
ReadOutput(t) ==
  LET env     == Keys(t)
      content == Content(t)
  IN  test[t].output
      \o (IF content = None /\ ReportsTo(env) # None
          THEN <<Says("no report", test[t].sub)>> ELSE <<>>)
      \o (IF content # None
          THEN <<[what |-> "report", by |-> content.by, sub |-> test[t].sub]>>
          ELSE <<>>)
      \o StatusItems(env, Last(test[t].runs).status)

LEMMA ReadFacts ==
  ASSUME NEW t \in Tests, Shaped, ReadReport(t)
  PROVE  /\ test[t].pc = "report"
         /\ UNCHANGED <<Fixed, Shared>>
         /\ \/ Fail(t)
            \/ /\ Keeps(t, {"pc", "phase", "todo", "flagged", "output"})
               /\ ~Unreadable(Format(Keys(t)), Content(t))
               /\ test'[t].pc \in {"capture", "next"} /\ test'[t].phase = "post"
               /\ test'[t].flagged =
                    IF options.flags /\ (Content(t) # None \/ Format(Keys(t)) = "brief")
                    THEN test[t].flagged (+)
                         Tagged(Format(Keys(t)), test[t].printed, Content(t))
                    ELSE test[t].flagged
               /\ test'[t].output = ReadOutput(t)
<1> USE FieldsAre DEF Keeps, Shaped, At
<1> DEFINE env == Keys(t)
           content == Content(t)
           after == After(t)
           snippet == Get(env, "post_python", <<>>)
           lost == IF content = None /\ ReportsTo(env) # None
                   THEN <<Says("no report", test[t].sub)>> ELSE <<>>
           shown == IF content # None
             THEN <<[what |-> "report", by |-> content.by, sub |-> test[t].sub]>>
             ELSE <<>>
           status == StatusItems(env, Last(test[t].runs).status)
           tagged == Tagged(Format(env), test[t].printed, content)
           counts == options.flags /\ (content # None \/ Format(env) = "brief")
<1>1. test[t].pc = "report" /\ UNCHANGED <<Fixed, Shared>>
  BY DEF ReadReport
<1>2. CASE Obstructed(t) \/ Unreadable(Format(env), content)
  <2>1. Fail(t)
    BY <1>2 DEF ReadReport
  <2> QED  BY <1>1, <1>2, <2>1
<1>3. CASE ~Obstructed(t) /\ ~Unreadable(Format(env), content)
  <2>1. test' = [test EXCEPT
       ![t].pc = after, ![t].phase = "post",
       ![t].todo = snippet,
       ![t].flagged = IF counts THEN @ (+) tagged ELSE @,
       ![t].output = @ \o lost \o shown \o status]
    BY <1>3 DEF ReadReport
  <2>2. after \in {"capture", "next"}
    BY DEF After
  <2>7. ReadOutput(t) = test[t].output \o lost \o shown \o status
    BY DEF ReadOutput
  <2> DEFINE more(x) == x \o lost \o shown \o status
             bag(b) == b (+) tagged
  <2>8. test' = [test EXCEPT
       ![t].pc = after, ![t].phase = "post",
       ![t].todo = snippet,
       ![t].flagged = IF counts THEN bag(@) ELSE @,
       ![t].output = more(@)]
    BY <2>1
  <2> HIDE DEF after, snippet, lost, shown, status, counts, tagged, env, content, more, bag
  <2>3. /\ Keeps(t, {"pc", "phase", "todo", "flagged", "output"})
        /\ test'[t].pc = after /\ test'[t].phase = "post"
    BY <2>8
  <2>4. test'[t].flagged = IF counts THEN bag(test[t].flagged) ELSE test[t].flagged
    BY <2>8
  <2>5. test'[t].output = more(test[t].output)
    BY <2>8
  <2> USE DEF counts, env, content, tagged
  <2> QED  BY <1>1, <1>3, <2>2, <2>3, <2>4, <2>5, <2>7 DEF more, bag
<1> QED  BY <1>2, <1>3

LEMMA StrayFacts ==
  ASSUME NEW t \in Tests, Shaped, StrayVariable(t)
  PROVE  test[t].pc = "report" /\ Fail(t) /\ UNCHANGED <<Fixed, Shared>>
BY DEF StrayVariable, At

LEMMA CheckerFacts ==
  ASSUME NEW t \in Tests, Shaped, RunChecker(t)
  PROVE  /\ test[t].pc = "checker"
         /\ UNCHANGED <<Fixed, Shared>>
         /\ \/ Fail(t)
            \/ /\ Keeps(t, {"pc", "flagged"})
               /\ test'[t].pc = "done"
               /\ \/ test'[t].flagged = test[t].flagged
                  \/ \E found \in Findings :
                       test'[t].flagged = SetToBag(found \cap {"violation"})
<1> USE FieldsAre DEF Keeps, Shaped, At
<1>1. test[t].pc = "checker" /\ UNCHANGED <<Fixed, Shared>>
  BY DEF RunChecker
<1>2. ASSUME ~Fail(t)
      PROVE  \E found \in Findings :
               test' = [test EXCEPT
                 ![t].pc = "done",
                 ![t].flagged = IF options.flags /\ ~options.perf
                   THEN SetToBag(found \cap {"violation"}) ELSE @]
  BY <1>2 DEF RunChecker
<1>3. ASSUME NEW found \in Findings,
             test' = [test EXCEPT
                 ![t].pc = "done",
                 ![t].flagged = IF options.flags /\ ~options.perf
                   THEN SetToBag(found \cap {"violation"}) ELSE @]
      PROVE  /\ Keeps(t, {"pc", "flagged"})
             /\ test'[t].pc = "done"
             /\ \/ test'[t].flagged = test[t].flagged
                \/ test'[t].flagged = SetToBag(found \cap {"violation"})
  BY <1>3
<1> QED  BY <1>1, <1>2, <1>3

LEMMA RaisesFacts ==
  ASSUME NEW t \in Tests, Shaped, Raises(t)
  PROVE  /\ Keeps(t, {"pc", "output"})
         /\ test'[t].pc = "error"
         /\ test'[t].output = test[t].output \o <<>>
         /\ stdout' = IF test[t].phase = "global" THEN stdout ELSE test[t].savedOut
         /\ UNCHANGED <<Fixed, cwd>>
BY FailFacts DEF Raises

LEMMA HelperFacts ==
  ASSUME NEW t \in Tests, Shaped, NEW files, NEW items, Helper(t, files, items)
  PROVE  /\ Keeps(t, {"todo", "files", "output"})
         /\ test'[t].files = files
         /\ test'[t].output = test[t].output \o <<Says("running", Head(test[t].todo).op)>> \o items
         /\ UNCHANGED <<Fixed, Shared>>
<1> DEFINE op == Head(test[t].todo).op
           more(x) == x \o <<Says("running", op)>> \o items
<1>1. /\ test' = [test EXCEPT ![t].todo = Tail(@), ![t].files = files,
                             ![t].output = more(@)]
      /\ UNCHANGED <<Fixed, Shared>>
  BY DEF Helper
<1> HIDE DEF more
<1>2. /\ Keeps(t, {"todo", "files", "output"})
      /\ test'[t].files = files
      /\ test'[t].output = more(test[t].output)
  BY <1>1, FieldsAre DEF Keeps, Shaped
<1> QED  BY <1>1, <1>2 DEF more

\* What a helper may say beside its name.
Remarks == {"list", "not found", "cat", "already exists"}
RemarksOnly(items) ==
  \/ items = <<>>
  \/ \E what \in Remarks : \E name : items = <<Says(what, name)>>

\* What the helper op makes of the files of its test.
HelperFiles(t, op, files) ==
  \/ files = Files(t)
  \/ op \in {"mkdir", "ln"} /\ \E name, content :
       /\ \/ KindOf(t, name) = "missing" /\ ~IsLink(t, name)
          \/ name \notin DOMAIN Files(t)
       /\ content.kind = IF op = "ln" THEN "link" ELSE "dir"
       /\ files = Written(Files(t), name, content)
  \/ op = "rm" /\ \E name : files = Without(Files(t), name)
  \/ \E name : \E added \in {0, 1} :
       KindOf(t, name) = "file"
         /\ files = [Files(t) EXCEPT ![Real(t, name)].crs = @ + added]

Helps(t, op) ==
  \E files, items : /\ Helper(t, files, items) /\ RemarksOnly(items)
                    /\ HelperFiles(t, op, files)

LEMMA SnippetFacts ==
  ASSUME NEW t \in Tests, Snippet(t), ~PrintOut(t)
  PROVE  /\ test[t].pc = "body"
         /\ Raises(t) \/ Helps(t, Head(test[t].todo).op)
<1> DEFINE op == Head(test[t].todo).op
<1> USE DEF Doing, At, RemarksOnly, Remarks, HelperFiles
<1>1. CASE RaiseError(t)
  BY <1>1 DEF RaiseError
<1>2. CASE ListDirectory(t)
  <2>1. \A name : RemarksOnly(<<Says("list", name)>>)
    OBVIOUS
  <2> QED  BY <1>2, <2>1 DEF ListDirectory, Helps
<1>3. CASE Cat(t)
  BY <1>3 DEF Cat, Helps
<1>4. CASE Mkdir(t)
  <2>1. CASE KindOf(t, Name(t)) # "missing" /\ Helper(t, Files(t), <<Says("already exists", Name(t))>>)
    BY <1>4, <2>1 DEF Mkdir, Helps
  <2>2. CASE Raises(t)
    BY <1>4, <2>2 DEF Mkdir
  <2>3. CASE /\ KindOf(t, Name(t)) = "missing" /\ ~IsLink(t, Name(t))
             /\ Helper(t, Written(Files(t), Name(t), [kind |-> "dir"]), <<>>)
    <3>1. op = "mkdir" /\ test[t].pc = "body"
      BY <1>4 DEF Mkdir
    <3>2. [kind |-> "dir"].kind = IF op = "ln" THEN "link" ELSE "dir"
      BY <3>1
    <3>3. HelperFiles(t, op, Written(Files(t), Name(t), [kind |-> "dir"]))
      BY <2>3, <3>1, <3>2
    <3> QED  BY <2>3, <3>1, <3>3 DEF Helps
  <2> QED  BY <1>4, <2>1, <2>2, <2>3 DEF Mkdir
<1>5. CASE Ln(t)
  <2> DEFINE link == [kind |-> "link", target |-> Head(test[t].todo).source]
  <2>1. CASE Name(t) \in DOMAIN Files(t)
    BY <1>5, <2>1 DEF Ln, Helps
  <2>2. CASE Name(t) \notin DOMAIN Files(t)
    <3>1. op = "ln" /\ test[t].pc = "body" /\ Helper(t, Written(Files(t), Name(t), link), <<>>)
      BY <1>5, <2>2 DEF Ln
    <3>2. link.kind = "link"
      OBVIOUS
    <3> HIDE DEF link
    <3>3. HelperFiles(t, op, Written(Files(t), Name(t), link))
      BY <2>2, <3>1, <3>2
    <3> QED  BY <3>1, <3>3 DEF Helps
  <2> QED  BY <2>1, <2>2
<1>6. CASE Rm(t)
  BY <1>6 DEF Rm, Helps
<1>7. CASE SetLineEndings(t)
  <2> DEFINE added == IF Head(test[t].todo).sequence = "crlf" THEN 1 ELSE 0
             files == [Files(t) EXCEPT ![Real(t, Name(t))].crs = @ + added]
  <2>1. CASE KindOf(t, Name(t)) = "file" /\ Helper(t, files, <<>>)
    <3>1. HelperFiles(t, op, files)
      BY <2>1
    <3>2. test[t].pc = "body"
      BY <1>7 DEF SetLineEndings
    <3> HIDE DEF files
    <3> QED  BY <2>1, <3>1, <3>2 DEF Helps
  <2>2. CASE KindOf(t, Name(t)) = "missing" /\ Helper(t, Files(t), <<Says("not found", Name(t))>>)
    BY <1>7, <2>2 DEF SetLineEndings, Helps
  <2>3. CASE Raises(t)
    BY <1>7, <2>3 DEF SetLineEndings
  <2> QED  BY <1>7, <2>1, <2>2, <2>3 DEF SetLineEndings
<1> QED  BY <1>1, <1>2, <1>3, <1>4, <1>5, <1>6, <1>7 DEF Snippet

\* What a helper leaves in the output: its name, and a remark at most.
LEMMA HelperOutput ==
  ASSUME NEW t \in Tests, Shaped, NEW op, op = Head(test[t].todo).op, Helps(t, op),
         Listed(test[t].output)
  PROVE  /\ Keeps(t, {"todo", "files", "output"})
         /\ UNCHANGED <<Fixed, Shared>>
         /\ HelperFiles(t, op, test'[t].files)
         /\ Listed(test'[t].output)
         /\ \/ ToSet(test'[t].output) = ToSet(test[t].output) \cup {Says("running", op)}
            \/ \E what \in Remarks : \E name :
                 ToSet(test'[t].output)
                   = ToSet(test[t].output) \cup {Says("running", op), Says(what, name)}
<1>1. PICK files, items : /\ Helper(t, files, items) /\ RemarksOnly(items)
                          /\ HelperFiles(t, op, files)
  BY DEF Helps
<1> DEFINE out == test[t].output \o <<Says("running", op)>>
<1>2. /\ Keeps(t, {"todo", "files", "output"}) /\ UNCHANGED <<Fixed, Shared>>
      /\ test'[t].files = files /\ test'[t].output = out \o items
  BY <1>1, HelperFacts
<1>3. Listed(out) /\ ToSet(out) = ToSet(test[t].output) \cup {Says("running", op)}
  BY CatListed, OneListed
<1> HIDE DEF out
<1>4. CASE items = <<>>
  BY <1>1, <1>2, <1>3, <1>4, CatListed, NoneListed
<1>5. ASSUME NEW what \in Remarks, NEW name, items = <<Says(what, name)>>
      PROVE  /\ Listed(test'[t].output)
             /\ ToSet(test'[t].output)
                  = ToSet(test[t].output) \cup {Says("running", op), Says(what, name)}
  <2>1. Listed(items) /\ ToSet(items) = {Says(what, name)}
    BY <1>5, OneListed
  <2> QED  BY <1>2, <1>3, <2>1, CatListed
<1> QED  BY <1>1, <1>2, <1>4, <1>5 DEF RemarksOnly

\* What ReadReport leaves in the output.
LEMMA StatusListed ==
  ASSUME NEW env, NEW status
  PROVE  Listed(StatusItems(env, status))
         /\ ToSet(StatusItems(env, status)) \subseteq {Says("status", status)}
BY OneListed, NoneListed DEF StatusItems

LEMMA ReadOutputIs ==
  ASSUME NEW t \in Tests, Listed(test[t].output)
  PROVE  /\ Listed(ReadOutput(t))
         /\ ToSet(ReadOutput(t)) \subseteq ToSet(test[t].output)
              \cup {Says("no report", test[t].sub)}
              \cup {[what |-> "report", by |-> Content(t).by, sub |-> test[t].sub]}
              \cup {Says("status", Last(test[t].runs).status)}
         /\ ToSet(test[t].output) \subseteq ToSet(ReadOutput(t))
         /\ Content(t) # None =>
              [what |-> "report", by |-> Content(t).by, sub |-> test[t].sub]
                \in ToSet(ReadOutput(t))
         /\ [what |-> "report", by |-> Content(t).by, sub |-> test[t].sub]
              \in ToSet(ReadOutput(t)) \ ToSet(test[t].output) => Content(t) # None
         /\ Says("no report", test[t].sub) \in ToSet(ReadOutput(t)) \ ToSet(test[t].output)
              => Content(t) = None /\ ReportsTo(Keys(t)) # None
         /\ Content(t) = None /\ ReportsTo(Keys(t)) # None
              => Says("no report", test[t].sub) \in ToSet(ReadOutput(t))
<1> DEFINE env == Keys(t)
           content == Content(t)
           one == Says("no report", test[t].sub)
           two == [what |-> "report", by |-> content.by, sub |-> test[t].sub]
           lost == IF content = None /\ ReportsTo(env) # None THEN <<one>> ELSE <<>>
           shown == IF content # None THEN <<two>> ELSE <<>>
           status == Last(test[t].runs).status
           said == StatusItems(env, status)
           out == test[t].output
<1>1. Listed(lost) /\ ToSet(lost) = IF content = None /\ ReportsTo(env) # None
                                    THEN {one} ELSE {}
  <2> HIDE DEF one
  <2> QED  BY OneListed, NoneListed
<1>2. Listed(shown) /\ ToSet(shown) = IF content # None THEN {two} ELSE {}
  <2> HIDE DEF two
  <2> QED  BY OneListed, NoneListed
<1>3. Listed(said) /\ ToSet(said) \subseteq {Says("status", status)}
  BY StatusListed
<1>4. ReadOutput(t) = out \o lost \o shown \o said
  BY DEF ReadOutput
<1>5. Says("status", status) # one /\ Says("status", status) # two /\ one # two
  BY DEF Says
<1> HIDE DEF lost, shown, said, env, content, one, two, status
<1>6. Listed(out)
  OBVIOUS
<1>7. Listed(out \o lost) /\ ToSet(out \o lost) = ToSet(out) \cup ToSet(lost)
  BY <1>6, <1>1, CatListed
<1>8. /\ Listed(out \o lost \o shown)
      /\ ToSet(out \o lost \o shown) = ToSet(out) \cup ToSet(lost) \cup ToSet(shown)
  BY <1>7, <1>2, CatListed
<1>9. /\ Listed(ReadOutput(t))
      /\ ToSet(ReadOutput(t)) = ToSet(out) \cup ToSet(lost) \cup ToSet(shown) \cup ToSet(said)
  BY <1>8, <1>3, <1>4, CatListed
<1>10. /\ ToSet(ReadOutput(t)) \subseteq ToSet(out) \cup {one} \cup {two} \cup {Says("status", status)}
       /\ ToSet(out) \subseteq ToSet(ReadOutput(t))
       /\ content # None => two \in ToSet(ReadOutput(t))
       /\ two \in ToSet(ReadOutput(t)) \ ToSet(out) => content # None
       /\ one \in ToSet(ReadOutput(t)) \ ToSet(out) => content = None /\ ReportsTo(env) # None
       /\ content = None /\ ReportsTo(env) # None => one \in ToSet(ReadOutput(t))
  BY <1>1, <1>2, <1>3, <1>9, <1>5
<1> USE DEF env, content, one, two, status
<1> QED  BY <1>9, <1>10
-----------------------------------------------------------------------------
(* The types. *)

\* The suite and the options are those of a call.
Chosen == \E call \in Calls : suite = call.suite /\ options = call.options

Buffered(out) == out = Console \/ \E t \in Tests : out[1] = t
Capturing(t)  == test[t].pc = "body" /\ test[t].phase # "global"
Inside(t)     == test[t].pc \in {"redirect", "leave"} \/ Capturing(t)

\* The current subtest has run gnatcheck.
Ran(t) == \/ test[t].pc \in {"report", "next", "done"}
          \/ test[t].pc \in {"capture", "redirect", "body", "leave"}
             /\ test[t].phase = "post"

\* The current subtest has a format.
Begun(t) == test[t].pc \in {"capture", "redirect", "leave", "run", "report", "next", "done"}
            \/ Capturing(t)

\* Where a test may be, with the runs that it has made.
Counted(t) ==
  /\ Listed(test[t].runs)
  /\ Len(test[t].runs) <= test[t].sub
  /\ test[t].pc # "error" => Len(test[t].runs) =
       IF options.perf \/ suite[t].driver = "checker" THEN 0
       ELSE IF Ran(t) THEN test[t].sub ELSE test[t].sub - 1

Placed(t) ==
  /\ test[t].pc \in Pcs
  /\ test[t].phase \in {"global", "pre", "post"}
  /\ test[t].pc = "queued" => test[t].phase = "pre"
  /\ test[t].pc \in {"capture", "redirect", "leave"} => test[t].phase # "global"
  /\ suite[t].driver = "checker" => test[t].pc \in {"queued", "checker", "done", "error"}
  /\ test[t].pc = "checker" => suite[t].driver = "checker"
  /\ test[t].sub \in DOMAIN Subtests(t)
  /\ Begun(t) /\ suite[t].driver # "checker" => Format(Keys(t)) \in Formats

Saved(t) ==
  /\ test[t].savedDir \in Tests \cup {Home}
  /\ Buffered(test[t].savedOut)
  /\ test[t].captures \in Nat
  /\ DOMAIN test[t].flagged \subseteq Kinds
  /\ Listed(test[t].output) /\ Listed(test[t].captured)

Filed(t) ==
  /\ test[t].printed \subseteq Kinds
  /\ \A name \in DOMAIN Files(t) :
       Files(t)[name].kind = "file" => Files(t)[name] \in FilesOf(Nat)

Typed(t) == Placed(t) /\ Counted(t) /\ Saved(t) /\ Filed(t)

TypeInv ==
  /\ phase \in Phases /\ printed \subseteq {"coverage", "perf"}
  /\ Shaped /\ Chosen
  /\ selected \subseteq Tests
  /\ cwd \in Tests \cup {Home} /\ Buffered(stdout)
  /\ \A t \in Tests : Typed(t)

LEMMA ChosenMade ==
  ASSUME Chosen
  PROVE  /\ options.workers \in 1..MaxWorkers
         /\ \A t \in Tests : WellMade(suite[t])
BY TestsuiteAssumption DEF Chosen

\* A test has one subtest at least.
LEMMA SubtestsListed ==
  ASSUME NEW t \in Tests, WellMade(suite[t])
  PROVE  /\ Listed(Subtests(t)) /\ Len(Subtests(t)) \in Nat
         /\ Len(Subtests(t)) >= 1 /\ DOMAIN Subtests(t) = 1..Len(Subtests(t))
<1> DEFINE tests == suite[t].tests
<1>1. CASE tests = <<>>
  <2>1. Subtests(t) = <<suite[t].top>>
    BY <1>1 DEF Subtests
  <2> QED  BY <2>1, OneListed
<1>2. CASE tests # <<>>
  <2>1. tests \in Seq(ToSet(tests))
    BY DEF WellMade
  <2> DEFINE subs == [i \in DOMAIN tests |-> Merge(tests[i], suite[t].top)]
  <2>2. subs = Subtests(t)
    BY <1>2 DEF Subtests
  <2>3. Len(tests) \in Nat /\ DOMAIN tests = 1..Len(tests) /\ Len(tests) # 0
    BY <1>2, <2>1
  <2>4. subs \in [1..Len(tests) -> ToSet(subs)]
    BY <2>3 DEF ToSet
  <2> HIDE DEF subs
  <2>5. subs \in Seq(ToSet(subs)) /\ Len(subs) = Len(tests) /\ DOMAIN subs = 1..Len(tests)
    BY <2>3, <2>4
  <2> QED  BY <2>2, <2>3, <2>5 DEF Listed
<1> QED  BY <1>1, <1>2

\* What KindOf calls a file is one, at the end of a link or not.
LEMMA RealFile ==
  ASSUME NEW t, NEW name, KindOf(t, name) = "file"
  PROVE  /\ Real(t, name) \in DOMAIN Files(t)
         /\ Files(t)[Real(t, name)].kind = "file"
BY DEF KindOf, Real

LEMMA InitTypes ==
  ASSUME Init
  PROVE  TypeInv
<1> USE DEF Init, NewTest
<1>1. Chosen /\ Shaped
  BY DEF Chosen, Shaped, Fields
<1>2. ASSUME NEW t \in Tests PROVE Typed(t)
  <2>1. WellMade(suite[t])
    BY <1>1, ChosenMade
  <2>2. 1 \in DOMAIN Subtests(t)
    BY <2>1, SubtestsListed
  <2>3. Placed(t)
    BY <2>2 DEF Placed, Pcs, Begun, Capturing
  <2>4. Counted(t)
    BY NoneListed DEF Counted, Ran
  <2>5. DOMAIN test[t].flagged \subseteq Kinds
    BY DEF SetToBag
  <2>6. Saved(t)
    BY <2>5, NoneListed DEF Saved, Buffered
  <2>7. \A x \in FilesOf({0}) : x \in FilesOf(Nat)
    BY DEF FilesOf
  <2>8. Filed(t)
    BY <2>1, <2>7 DEF Filed, Files, WellMade
  <2> QED  BY <2>3, <2>4, <2>6, <2>8 DEF Typed
<1> QED  BY <1>1, <1>2 DEF TypeInv, Phases, Buffered

LEMMA WrittenIs ==
  ASSUME NEW files, NEW name, NEW content
  PROVE  /\ DOMAIN Written(files, name, content) = DOMAIN files \cup {name}
         /\ \A n \in DOMAIN Written(files, name, content) :
              Written(files, name, content)[n] = IF n = name THEN content ELSE files[n]
BY DEF Written, Merge

\* The files of a test stay what they have to be, whatever its helpers do.
LEMMA HelperFilesTyped ==
  ASSUME NEW t \in Tests, Filed(t), NEW op, NEW files, HelperFiles(t, op, files)
  PROVE  \A n \in DOMAIN files : files[n].kind = "file" => files[n] \in FilesOf(Nat)
<1>1. CASE files = Files(t)
  BY <1>1 DEF Filed
<1>2. ASSUME NEW name, NEW content, content.kind \in {"link", "dir"},
             files = Written(Files(t), name, content)
      PROVE  \A n \in DOMAIN files : files[n].kind = "file" => files[n] \in FilesOf(Nat)
  <2>1. /\ DOMAIN files = DOMAIN Files(t) \cup {name}
        /\ \A n \in DOMAIN files : files[n] = IF n = name THEN content ELSE Files(t)[n]
    BY <1>2 DEF Written, Merge
  <2> QED  BY <1>2, <2>1 DEF Filed
<1>3. ASSUME NEW name, files = Without(Files(t), name)
      PROVE  \A n \in DOMAIN files : files[n].kind = "file" => files[n] \in FilesOf(Nat)
  BY <1>3 DEF Filed, Without
<1>4. ASSUME NEW name, NEW added \in {0, 1}, KindOf(t, name) = "file",
             files = [Files(t) EXCEPT ![Real(t, name)].crs = @ + added]
      PROVE  \A n \in DOMAIN files : files[n].kind = "file" => files[n] \in FilesOf(Nat)
  <2>1. Real(t, name) \in DOMAIN Files(t) /\ Files(t)[Real(t, name)] \in FilesOf(Nat)
    BY <1>4, RealFile DEF Filed
  <2>2. ASSUME NEW n \in DOMAIN files, n # Real(t, name) PROVE files[n] = Files(t)[n]
    BY <1>4, <2>2
  <2>3. files[Real(t, name)] \in FilesOf(Nat)
    BY <1>4, <2>1 DEF FilesOf
  <2> QED  BY <1>4, <2>2, <2>3 DEF Filed
<1> QED  BY <1>1, <1>2, <1>3, <1>4 DEF HelperFiles

\* What a run leaves, of a result or of none.
LEMMA ResultKinds ==
  ASSUME NEW command,
         NEW result \in {Refused} \cup {Result(command, found) : found \in Findings}
  PROVE  result.found \subseteq Kinds /\ Printed(command, result) \subseteq Kinds
BY TestDriverAssumption DEF Refused, Result, Printed

LEMMA ReportTyped ==
  ASSUME NEW t \in Tests, test[t].sub \in Nat, NEW command, NEW result,
         result.found \subseteq Kinds
  PROVE  Report(t, command, result) \in FilesOf(Nat)
<1>1. test[t].sub \in Nat /\ Has(command, "-s") \in BOOLEAN
  BY DEF Has
<1>2. Has(command, "-ox") \in BOOLEAN /\ Has(command, "--sarif") \in BOOLEAN
  BY DEF Has
<1>3. Report(t, command, result).text \in {"text", "xml", "sarif"}
  BY DEF Report
<1> QED  BY <1>1, <1>3 DEF Report, FilesOf

LEMMA RunFiles ==
  ASSUME NEW t \in Tests, Shaped, Filed(t), test[t].sub \in Nat, RunGnatcheck(t)
  PROVE  Filed(t)'
<1>1. PICK result \in {Refused} \cup {Result(Command(Keys(t)), found) : found \in Findings} :
        /\ test'[t].printed = Printed(Command(Keys(t)), result)
        /\ \/ test'[t].files = Written(Files(t), ReportsTo(Keys(t)),
                                      Report(t, Command(Keys(t)), result))
           \/ test'[t].files = Files(t)
  BY RunFacts
<1>2. result.found \subseteq Kinds /\ test'[t].printed \subseteq Kinds
  BY <1>1, ResultKinds
<1>3. Report(t, Command(Keys(t)), result) \in FilesOf(Nat)
  BY <1>2, ReportTyped
<1>4. \A n \in DOMAIN test'[t].files :
        test'[t].files[n].kind = "file" => test'[t].files[n] \in FilesOf(Nat)
  <2> DEFINE report == Report(t, Command(Keys(t)), result)
             files == Written(Files(t), ReportsTo(Keys(t)), report)
  <2>1. /\ DOMAIN files = DOMAIN Files(t) \cup {ReportsTo(Keys(t))}
        /\ \A n \in DOMAIN files :
             files[n] = IF n = ReportsTo(Keys(t)) THEN report ELSE Files(t)[n]
    BY DEF Written, Merge
  <2> HIDE DEF files, report
  <2>2. report \in FilesOf(Nat)
    BY <1>3 DEF report
  <2>3. test'[t].files = files \/ test'[t].files = Files(t)
    BY <1>1 DEF files, report
  <2> QED  BY <2>1, <2>2, <2>3 DEF Filed
<1> QED  BY <1>2, <1>4 DEF Filed, Files

\* What is in the report, or what is not, is a file.
LEMMA ContentIs ==
  ASSUME NEW t \in Tests, Filed(t)
  PROVE  Content(t) = None \/ Content(t) \in FilesOf(Nat)
BY RealFile DEF Content, Filed

LEMMA TaggedKinds ==
  ASSUME NEW t \in Tests, Filed(t), NEW format \in Formats,
         Content(t) # None \/ format = "brief"
  PROVE  DOMAIN Tagged(format, test[t].printed, Content(t)) \subseteq Kinds
<1>1. test[t].printed \subseteq Kinds
  BY DEF Filed
<1>2. CASE format = "brief"
  BY <1>1, <1>2 DEF Tagged, SetToBag
<1>3. CASE format # "brief"
  <2>1. Content(t).found \subseteq Kinds
    BY <1>3, ContentIs DEF FilesOf
  <2>2. \A S, T : DOMAIN (SetToBag(S) (+) SetToBag(T)) = S \cup T
    BY DEF SetToBag, (+)
  <2>3. \A S : DOMAIN SetToBag(S) = S
    BY DEF SetToBag
  <2>4. CASE format = "short"
    <3> DEFINE more == IF Content(t).text = "text" THEN Content(t).found \ {"exempted"} ELSE {}
    <3>1. Tagged(format, test[t].printed, Content(t))
            = SetToBag(test[t].printed) (+) SetToBag(more)
      BY <2>4 DEF Tagged
    <3>2. more \subseteq Kinds
      BY <2>1
    <3> HIDE DEF more
    <3>3. DOMAIN (SetToBag(test[t].printed) (+) SetToBag(more)) = test[t].printed \cup more
      BY <2>2
    <3> QED  BY <1>1, <3>1, <3>2, <3>3
  <2>5. CASE format = "full"
    BY <2>1, <2>3, <2>5 DEF Tagged
  <2>6. CASE format = "xml"
    BY <2>1, <2>3, <2>6 DEF Tagged
  <2>7. CASE format = "sarif"
    BY <2>1, <2>3, <2>7 DEF Tagged
  <2> QED  BY <1>3, <2>4, <2>5, <2>6, <2>7 DEF Formats
<1> QED  BY <1>2, <1>3

LEMMA BagDomain ==
  ASSUME NEW b, NEW c, DOMAIN b \subseteq Kinds, DOMAIN c \subseteq Kinds
  PROVE  DOMAIN (b (+) c) \subseteq Kinds
BY DEF (+)

\* A test whose record stays is where it was.
LEMMA OtherTyped ==
  ASSUME NEW u \in Tests, Typed(u), test'[u] = test[u], UNCHANGED <<suite, options>>
  PROVE  Typed(u)'
BY DEF Typed, Placed, Counted, Saved, Filed, Subtests, Ran, Begun, Capturing, Keys, Files

LEMMA StepTypes ==
  ASSUME NEW t \in selected, TypeInv, Step(t)
  PROVE  /\ Shaped' /\ UNCHANGED Fixed
         /\ cwd' \in Tests \cup {Home} /\ Buffered(stdout)'
         /\ \A u \in Tests : Typed(u)'
<1> USE DEF TypeInv
<1>0. t \in Tests /\ Shaped /\ Typed(t) /\ Placed(t) /\ Counted(t) /\ Saved(t)
      /\ Filed(t)
  BY DEF Typed
<1>00. /\ Listed(Subtests(t)) /\ Len(Subtests(t)) \in Nat
       /\ Len(Subtests(t)) >= 1 /\ DOMAIN Subtests(t) = 1..Len(Subtests(t))
  BY <1>0, ChosenMade, SubtestsListed
<1>01. test[t].sub \in Nat \ {0} /\ Len(test[t].runs) \in Nat
  BY <1>0, <1>00 DEF Placed, Counted, Listed
<1>02. ASSUME UNCHANGED <<suite>> PROVE Subtests(t)' = Subtests(t)
  BY <1>02 DEF Subtests
<1>03. ASSUME NEW changed, Keeps(t, changed), UNCHANGED Fixed, Typed(t)'
       PROVE  Shaped' /\ \A u \in Tests : Typed(u)'
  BY <1>0, <1>03, OtherTyped, KeepsShaped DEF Keeps, Fixed
<1>1. CASE Start(t)
  <2>1. /\ Keeps(t, {"pc", "phase", "todo"})
        /\ test[t].pc = "queued"
        /\ test'[t].pc = IF suite[t].driver = "checker" THEN "checker" ELSE "body"
        /\ test'[t].phase = "global"
        /\ UNCHANGED <<Fixed, Shared>>
    BY <1>0, <1>1, StartFacts
  <2>2. /\ test'[t].sub = test[t].sub /\ test'[t].runs = test[t].runs
        /\ test'[t].savedDir = test[t].savedDir /\ test'[t].savedOut = test[t].savedOut
        /\ test'[t].captures = test[t].captures /\ test'[t].captured = test[t].captured
        /\ test'[t].files = test[t].files /\ test'[t].printed = test[t].printed
        /\ test'[t].output = test[t].output /\ test'[t].flagged = test[t].flagged
        /\ Subtests(t)' = Subtests(t) /\ suite' = suite /\ options' = options
    BY <1>02, <2>1, FieldsAre DEF Keeps, Fixed
  <2>3. Placed(t)'
    BY <1>0, <2>1, <2>2 DEF Placed, Pcs, Begun, Capturing
  <2>4. Counted(t)'
    BY <1>0, <2>1, <2>2 DEF Counted, Ran
  <2>5. Saved(t)' /\ Filed(t)'
    BY <1>0, <2>2 DEF Saved, Filed, Files
  <2>6. Typed(t)'
    BY <2>3, <2>4, <2>5 DEF Typed
  <2> QED  BY <1>03, <2>1, <2>6 DEF Shared, Buffered
<1> USE FieldsAre DEF Pcs
<1>2. CASE Subtest(t)
  <2>1. CASE Fail(t)
    <3>1. Keeps(t, {"pc", "output"}) /\ UNCHANGED <<Fixed, Shared>>
      BY <1>0, <1>2, <2>1, SubtestFacts, FailFacts
    <3>2. Typed(t)'
      BY <1>0, <1>01, <1>02, <2>1, <3>1, FailFacts, CatListed, NoneListed
         DEF Keeps, Typed, Placed, Counted, Saved, Filed, Ran, Fixed, Begun, Capturing, Keys, Files
    <3> QED  BY <1>03, <3>1, <3>2 DEF Shared, Buffered
  <2>2. CASE ~Fail(t)
    <3>1. /\ Keeps(t, {"pc", "phase", "todo"}) /\ UNCHANGED <<Fixed, Shared>>
          /\ test[t].pc = "subtest"
          /\ test'[t].pc \in {"capture", "run"} /\ test'[t].phase = "pre"
          /\ Format(Keys(t)) \in Formats
      BY <1>0, <1>2, <2>2, SubtestFacts
    <3>3. Keys(t)' = Keys(t)
      BY <1>02, <3>1 DEF Keys, Keeps, Fixed
    <3>2. Typed(t)'
      BY <1>0, <1>01, <1>02, <3>1, <3>3 DEF Keeps, Typed, Placed, Counted, Saved, Filed, Ran, Fixed, Begun, Capturing, Keys, Files
    <3> QED  BY <1>03, <3>1, <3>2 DEF Shared, Buffered
  <2> QED  BY <2>1, <2>2
<1>3. CASE EnterDirectory(t)
  <2>1. /\ Keeps(t, {"pc", "savedDir"})
        /\ test[t].pc = "capture" /\ test'[t].pc = "redirect"
        /\ test'[t].savedDir = cwd
        /\ cwd' = t
        /\ UNCHANGED <<Fixed, stdout>>
    BY <1>0, <1>3, EnterFacts
  <2>2. Typed(t)'
    BY <1>0, <1>01, <1>02, <2>1 DEF Keeps, Typed, Placed, Counted, Saved, Filed, Ran, Fixed, Begun, Capturing, Keys, Files
  <2> QED  BY <1>0, <1>03, <2>1, <2>2 DEF Buffered
<1>4. CASE Redirect(t)
  <2>1. /\ Keeps(t, {"pc", "savedOut", "captures", "captured"})
        /\ test[t].pc = "redirect" /\ test'[t].pc = "body"
        /\ test'[t].savedOut = stdout
        /\ test'[t].captures = test[t].captures + 1
        /\ test'[t].captured = <<>>
        /\ stdout' = <<t, test[t].captures + 1>>
        /\ UNCHANGED <<Fixed, cwd>>
    BY <1>0, <1>4, RedirectFacts
  <2>2. Placed(t)' /\ Counted(t)'
    BY <1>0, <1>01, <1>02, <2>1
       DEF Keeps, Placed, Counted, Ran, Fixed, Begun, Capturing, Keys
  <2>3. Buffered(stdout)' /\ Buffered(test'[t].savedOut)
    BY <1>0, <2>1 DEF Buffered
  <2>4. Saved(t)'
    BY <1>0, <2>1, <2>3, NoneListed DEF Keeps, Saved, Buffered
  <2>5. Filed(t)'
    BY <1>0, <2>1 DEF Keeps, Filed, Files
  <2> QED  BY <1>03, <2>1, <2>2, <2>3, <2>4, <2>5 DEF Typed
<1>5. CASE Restore(t)
  <2>1. /\ Keeps(t, {"pc", "output"})
        /\ test[t].pc = "body" /\ test[t].phase # "global" /\ test'[t].pc = "leave"
        /\ test'[t].output = test[t].output \o test[t].captured
        /\ stdout' = test[t].savedOut
        /\ UNCHANGED <<Fixed, cwd>>
    BY <1>0, <1>5, RestoreFacts
  <2>2. Listed(test'[t].output)
    BY <1>0, <2>1, CatListed DEF Saved
  <2>3. Typed(t)'
    <3>1. suite[t].driver # "checker"
      BY <1>0, <2>1 DEF Placed
    <3>2. Placed(t)'
      BY <1>0, <1>02, <2>1, <3>1 DEF Keeps, Placed, Fixed, Begun, Capturing, Keys
    <3>3. Counted(t)'
      BY <1>0, <2>1 DEF Keeps, Counted, Ran, Fixed
    <3>4. Saved(t)' /\ Filed(t)'
      BY <1>0, <2>1, <2>2 DEF Keeps, Saved, Filed, Files, Buffered
    <3> QED  BY <3>2, <3>3, <3>4 DEF Typed
  <2> QED  BY <1>0, <1>03, <2>1, <2>3 DEF Buffered, Saved
<1>6. CASE GlobalEnds(t)
  <2>1. /\ Keeps(t, {"pc", "output"})
        /\ test[t].pc = "body" /\ test[t].phase = "global" /\ test'[t].pc = "subtest"
        /\ test'[t].output = test[t].output \o <<>>
        /\ UNCHANGED <<Fixed, Shared>>
    BY <1>0, <1>6, GlobalEndsFacts
  <2>2. Listed(test'[t].output)
    BY <1>0, <2>1, CatListed, NoneListed DEF Saved
  <2>3. Typed(t)'
    BY <1>0, <1>01, <1>02, <2>1, <2>2
       DEF Keeps, Typed, Placed, Counted, Saved, Filed, Ran, Fixed, Begun, Capturing, Keys, Files
  <2> QED  BY <1>03, <2>1, <2>3 DEF Shared, Buffered
<1>7. CASE LeaveDirectory(t)
  <2>1. /\ Keeps(t, {"pc", "output"})
        /\ test[t].pc = "leave"
        /\ test'[t].pc = IF test[t].phase = "pre" THEN "run" ELSE "next"
        /\ test'[t].output = test[t].output \o <<>>
        /\ cwd' = test[t].savedDir
        /\ UNCHANGED <<Fixed, stdout>>
    BY <1>0, <1>7, LeaveFacts
  <2>2. Listed(test'[t].output)
    BY <1>0, <2>1, CatListed, NoneListed DEF Saved
  <2>3. Typed(t)'
    BY <1>0, <1>01, <1>02, <2>1, <2>2
       DEF Keeps, Typed, Placed, Counted, Saved, Filed, Ran, Fixed, Begun, Capturing, Keys, Files
  <2> QED  BY <1>0, <1>03, <2>1, <2>3 DEF Saved, Buffered
<1>8. CASE Snippet(t)
  <2>1. CASE PrintOut(t)
    <3>1. /\ Shaped'
          /\ \A u \in Tests : \A f \in Fields \ {"todo", "captured"} :
               test'[u][f] = test[u][f]
          /\ \A u \in Tests : test'[u].captured =
              IF stdout = Buffer(u)
              THEN Append(test[u].captured, [what |-> "print", by |-> t, in |-> cwd])
              ELSE test[u].captured
          /\ UNCHANGED <<Fixed, Shared>>
      BY <1>0, <2>1, PrintFacts
    <3>2. ASSUME NEW u \in Tests PROVE Typed(u)'
      <4> DEFINE text == [what |-> "print", by |-> t, in |-> cwd]
      <4>1. Listed(test[u].captured)
        BY DEF Typed, Saved
      <4>2. Append(test[u].captured, text) = test[u].captured \o <<text>>
        BY <4>1, AppendListed
      <4>3. Listed(Append(test[u].captured, text))
        <5> HIDE DEF text
        <5> QED  BY <4>1, <4>2, OneListed, CatListed
      <4>4. Listed(test'[u].captured)
        BY <3>1, <4>1, <4>3
      <4>5. \A f \in Fields \ {"todo", "captured"} : test'[u][f] = test[u][f]
        BY <3>1
      <4>6. Placed(u)' /\ Counted(u)'
        <5>1. Subtests(u)' = Subtests(u) /\ suite' = suite /\ options' = options
          BY <3>1 DEF Subtests, Fixed
        <5>2. /\ test'[u].pc = test[u].pc /\ test'[u].phase = test[u].phase
              /\ test'[u].sub = test[u].sub /\ test'[u].runs = test[u].runs
          BY <4>5
        <5> QED  BY <5>1, <5>2 DEF Typed, Placed, Counted, Ran, Begun, Capturing, Keys
      <4>7. Saved(u)'
        BY <4>4, <4>5 DEF Typed, Saved, Buffered
      <4>8. Filed(u)'
        BY <4>5 DEF Typed, Filed, Files
      <4> QED  BY <4>6, <4>7, <4>8 DEF Typed
    <3> QED  BY <3>1, <3>2 DEF Shared, Buffered
  <2>2. CASE Raises(t)
    <3>1. /\ Keeps(t, {"pc", "output"})
          /\ test'[t].pc = "error"
          /\ test'[t].output = test[t].output \o <<>>
          /\ stdout' = IF test[t].phase = "global" THEN stdout ELSE test[t].savedOut
          /\ UNCHANGED <<Fixed, cwd>>
      BY <1>0, <2>2, RaisesFacts
    <3>2. Listed(test'[t].output)
      BY <1>0, <3>1, CatListed, NoneListed DEF Saved
    <3>5. suite[t].driver = "checker" => test'[t].pc = "error"
      BY <3>1
    <3>3. Typed(t)'
      BY <1>0, <1>01, <1>02, <3>1, <3>2
         DEF Keeps, Typed, Placed, Counted, Saved, Filed, Ran, Fixed, Begun, Capturing, Keys, Files
    <3> QED  BY <1>0, <1>03, <3>1, <3>3 DEF Saved, Buffered
  <2>3. CASE Helps(t, Head(test[t].todo).op)
    <3>1. /\ Keeps(t, {"todo", "files", "output"})
          /\ UNCHANGED <<Fixed, Shared>>
          /\ Listed(test'[t].output)
          /\ HelperFiles(t, Head(test[t].todo).op, test'[t].files)
      BY <1>0, <2>3, HelperOutput DEF Saved
    <3>3. Filed(t)'
      BY <1>0, <3>1, HelperFilesTyped DEF Filed, Files, Keeps
    <3>2. Typed(t)'
      BY <1>0, <1>01, <1>02, <3>1, <3>3
         DEF Keeps, Typed, Placed, Counted, Saved, Filed, Ran, Fixed, Begun, Capturing, Keys, Files
    <3> QED  BY <1>03, <3>1, <3>2 DEF Shared, Buffered
  <2> QED  BY <1>8, <2>1, <2>2, <2>3, SnippetFacts
<1>9. CASE PerfRun(t)
  <2>1. /\ Keeps(t, {"pc", "phase", "todo"})
        /\ test[t].pc = "run" /\ options.perf
        /\ test'[t].pc \in {"capture", "next"} /\ test'[t].phase = "post"
        /\ UNCHANGED <<Fixed, Shared>>
    BY <1>0, <1>9, PerfFacts
  <2>2. Typed(t)'
    BY <1>0, <1>01, <1>02, <2>1 DEF Keeps, Typed, Placed, Counted, Saved, Filed, Ran, Fixed, Begun, Capturing, Keys, Files
  <2> QED  BY <1>03, <2>1, <2>2 DEF Shared, Buffered
<1>10. CASE RunGnatcheck(t)
  <2>1. /\ Keeps(t, {"pc", "printed", "runs", "files", "output"})
        /\ test[t].pc = "run" /\ ~options.perf /\ test'[t].pc = "report"
        /\ UNCHANGED <<Fixed, Shared>>
    BY <1>0, <1>10, RunFacts
  <2>2. PICK run, label : /\ test'[t].runs = Append(test[t].runs, run)
                          /\ test'[t].output = test[t].output \o label
                          /\ label \in {<<>>, <<Says("label", test[t].sub)>>}
    BY <1>0, <1>10, RunFacts
  <2>3. Listed(label)
    BY <2>2, OneListed, NoneListed
  <2>4. Listed(test'[t].output)
    BY <1>0, <2>2, <2>3, CatListed DEF Saved
  <2>5. Append(test[t].runs, run) = test[t].runs \o <<run>>
    BY <1>0, AppendListed DEF Counted
  <2>6. Listed(test'[t].runs) /\ Len(test'[t].runs) = Len(test[t].runs) + 1
    BY <1>0, <2>2, <2>5, CatListed, OneListed DEF Counted
  <2>7. Placed(t)' /\ Saved(t)'
    BY <1>0, <1>02, <2>1, <2>4
       DEF Keeps, Placed, Saved, Fixed, Buffered, Begun, Capturing, Keys
  <2>8. /\ test'[t].sub = test[t].sub /\ suite[t].driver # "checker"
        /\ Len(test[t].runs) = test[t].sub - 1
    BY <1>0, <2>1 DEF Keeps, Placed, Counted, Ran
  <2>9. Counted(t)'
    BY <1>01, <2>1, <2>6, <2>8 DEF Counted, Ran, Fixed
  <2>10. Filed(t)'
    BY <1>0, <1>01, <1>10, RunFiles, RunFacts DEF Placed
  <2> QED  BY <1>03, <2>1, <2>7, <2>9, <2>10 DEF Typed, Shared, Buffered
<1>11. CASE ReadReport(t)
  <2>1. test[t].pc = "report" /\ UNCHANGED <<Fixed, Shared>>
    BY <1>0, <1>11, ReadFacts
  <2>2. CASE Fail(t)
    <3>1. Keeps(t, {"pc", "output"})
      BY <1>0, <2>2, FailFacts
    <3>2. Typed(t)'
      BY <1>0, <1>01, <1>02, <2>1, <2>2, <3>1, FailFacts, CatListed, NoneListed
         DEF Keeps, Typed, Placed, Counted, Saved, Filed, Ran, Fixed, Begun, Capturing, Keys, Files
    <3> QED  BY <1>03, <2>1, <3>1, <3>2 DEF Shared, Buffered
  <2>3. CASE ~Fail(t)
    <3>1. /\ Keeps(t, {"pc", "phase", "todo", "flagged", "output"})
          /\ test'[t].pc \in {"capture", "next"} /\ test'[t].phase = "post"
          /\ \/ test'[t].flagged = test[t].flagged
             \/ /\ Content(t) # None \/ Format(Keys(t)) = "brief"
                /\ test'[t].flagged = test[t].flagged (+)
                     Tagged(Format(Keys(t)), test[t].printed, Content(t))
          /\ test'[t].output = ReadOutput(t)
      BY <1>0, <1>11, <2>3, ReadFacts
    <3>2. Listed(test'[t].output)
      BY <1>0, <3>1, ReadOutputIs DEF Saved
    <3>3. DOMAIN test'[t].flagged \subseteq Kinds
      <4>1. Begun(t) /\ suite[t].driver # "checker"
        BY <1>0, <2>1 DEF Begun, Placed
      <4>2. Content(t) # None \/ Format(Keys(t)) = "brief" =>
            DOMAIN Tagged(Format(Keys(t)), test[t].printed, Content(t)) \subseteq Kinds
        BY <1>0, <4>1, TaggedKinds DEF Placed
      <4> QED  BY <1>0, <3>1, <4>2, BagDomain DEF Saved
    <3>4. Typed(t)'
      <4>1. suite[t].driver # "checker"
        BY <1>0, <2>1 DEF Placed
      <4>2. Placed(t)'
        BY <1>0, <1>02, <2>1, <3>1, <4>1 DEF Keeps, Placed, Fixed, Begun, Capturing, Keys
      <4>3. Counted(t)'
        BY <1>0, <2>1, <3>1 DEF Keeps, Counted, Ran, Fixed
      <4>4. Saved(t)' /\ Filed(t)'
        BY <1>0, <3>1, <3>2, <3>3 DEF Keeps, Saved, Filed, Files, Buffered
      <4> QED  BY <4>2, <4>3, <4>4 DEF Typed
    <3> QED  BY <1>03, <2>1, <3>1, <3>4 DEF Shared, Buffered
  <2> QED  BY <2>2, <2>3
<1>12. CASE NextSubtest(t)
  <2>1. test[t].pc = "next" /\ UNCHANGED <<Fixed, Shared>>
    BY <1>0, <1>12, NextSubtestFacts
  <2>2. CASE /\ Keeps(t, {"pc", "sub"})
             /\ test'[t].pc = "subtest"
             /\ test[t].sub < Len(Subtests(t)) /\ test'[t].sub = test[t].sub + 1
    <3>1. test'[t].sub \in DOMAIN Subtests(t)
      BY <1>00, <1>01, <2>2
    <3>2. Typed(t)'
      BY <1>0, <1>01, <1>02, <2>1, <2>2, <3>1
         DEF Keeps, Typed, Placed, Counted, Saved, Filed, Ran, Fixed, Begun, Capturing, Keys, Files
    <3> QED  BY <1>03, <2>1, <2>2, <3>2 DEF Shared, Buffered
  <2>3. CASE Keeps(t, {"pc"}) /\ test'[t].pc = "done"
    <3>1. Typed(t)'
      BY <1>0, <1>01, <1>02, <2>1, <2>3
         DEF Keeps, Typed, Placed, Counted, Saved, Filed, Ran, Fixed, Begun, Capturing, Keys, Files
    <3> QED  BY <1>03, <2>1, <2>3, <3>1 DEF Shared, Buffered
  <2> QED  BY <1>0, <1>12, <2>2, <2>3, NextSubtestFacts
<1>13. CASE RunChecker(t)
  <2>1. test[t].pc = "checker" /\ UNCHANGED <<Fixed, Shared>>
    BY <1>0, <1>13, CheckerFacts
  <2>2. CASE Fail(t)
    <3>1. Keeps(t, {"pc", "output"})
      BY <1>0, <2>2, FailFacts
    <3>2. Typed(t)'
      BY <1>0, <1>01, <1>02, <2>1, <2>2, <3>1, FailFacts, CatListed, NoneListed
         DEF Keeps, Typed, Placed, Counted, Saved, Filed, Ran, Fixed, Begun, Capturing, Keys, Files
    <3> QED  BY <1>03, <2>1, <3>1, <3>2 DEF Shared, Buffered
  <2>3. CASE ~Fail(t)
    <3>1. /\ Keeps(t, {"pc", "flagged"})
          /\ test'[t].pc = "done"
          /\ \/ test'[t].flagged = test[t].flagged
             \/ \E found \in Findings :
                  test'[t].flagged = SetToBag(found \cap {"violation"})
      BY <1>0, <1>13, <2>3, CheckerFacts
    <3>2. DOMAIN test'[t].flagged \subseteq Kinds
      BY <1>0, <3>1 DEF Saved, SetToBag, Kinds
    <3>3. Typed(t)'
      BY <1>0, <1>01, <1>02, <2>1, <3>1, <3>2
         DEF Keeps, Typed, Placed, Counted, Saved, Filed, Ran, Fixed, Begun, Capturing, Keys, Files
    <3> QED  BY <1>03, <2>1, <3>1, <3>3 DEF Shared, Buffered
  <2> QED  BY <2>2, <2>3
<1>14. CASE StrayVariable(t)
  <2>1. test[t].pc = "report" /\ Fail(t) /\ UNCHANGED <<Fixed, Shared>>
    BY <1>0, <1>14, StrayFacts
  <2>2. Keeps(t, {"pc", "output"})
    BY <1>0, <2>1, FailFacts
  <2>3. Typed(t)'
    BY <1>0, <1>01, <1>02, <2>1, <2>2, FailFacts, CatListed, NoneListed
       DEF Keeps, Typed, Placed, Counted, Saved, Filed, Ran, Fixed, Begun, Capturing, Keys, Files
  <2> QED  BY <1>03, <2>1, <2>2, <2>3 DEF Shared, Buffered
<1> QED  BY <1>1, <1>2, <1>3, <1>4, <1>5, <1>6, <1>7, <1>8, <1>9, <1>10, <1>11,
            <1>12, <1>13, <1>14 DEF Step

LEMMA NextTypes ==
  ASSUME TypeInv, [Next]_svars
  PROVE  TypeInv'
<1> USE DEF TypeInv
<1>0. ASSUME UNCHANGED <<suite, options, test>>
      PROVE  Shaped' /\ Chosen' /\ \A t \in Tests : Typed(t)'
  <2>1. \A t \in Tests : Typed(t)'
    BY <1>0, OtherTyped
  <2> QED  BY <1>0, <2>1 DEF Shaped, Chosen
<1>1. CASE SetUp
  BY <1>0, <1>1 DEF SetUp, dvars, Phases, Buffered
<1>2. CASE Probe
  BY <1>0, <1>2 DEF Probe, Phases, Buffered
<1>3. CASE RunTests
  <2>1. PICK t \in selected : Step(t)
    BY <1>3 DEF RunTests
  <2>2. /\ Shaped' /\ UNCHANGED Fixed
        /\ cwd' \in Tests \cup {Home} /\ Buffered(stdout)'
        /\ \A u \in Tests : Typed(u)'
    BY <2>1, StepTypes
  <2> QED  BY <1>3, <2>2 DEF RunTests, Fixed, Chosen
<1>4. CASE TestsEnd
  BY <1>0, <1>4 DEF TestsEnd, dvars, Phases, Buffered
<1>5. CASE TearDown
  BY <1>0, <1>5 DEF TearDown, dvars, Phases, Buffered
<1>6. CASE UNCHANGED svars
  BY <1>0, <1>6 DEF svars, dvars, Phases, Buffered
<1> QED  BY <1>1, <1>2, <1>3, <1>4, <1>5, <1>6 DEF Next, Terminated

LEMMA TypesAlways == Spec => []TypeInv
<1>1. Init => TypeInv
  BY InitTypes
<1>2. TypeInv /\ [Next]_svars => TypeInv'
  BY NextTypes
<1> QED  BY <1>1, <1>2, PTL DEF Spec

\* TypeOK of Testsuite: the tests are where the drivers may be, whatever the
\* tests, the options and the findings are.
THEOREM TypeCorrect == Spec => []TypeOK
<1>1. TypeInv => TypeOK
  <2> SUFFICES ASSUME TypeInv PROVE TypeOK
    OBVIOUS
  <2>1. phase \in Phases /\ printed \subseteq {"coverage", "perf"}
    BY DEF TypeInv
  <2>2. ASSUME NEW t \in Tests
        PROVE  /\ test[t].pc \in Pcs
               /\ test[t].phase \in {"global", "pre", "post"}
               /\ test[t].sub \in DOMAIN Subtests(t)
               /\ test[t].savedDir \in Tests \cup {Home}
               /\ Len(test[t].runs) <= test[t].sub
               /\ DOMAIN test[t].flagged \subseteq Kinds
    BY DEF TypeInv, Typed, Placed, Counted, Saved
  <2>3. selected \subseteq Tests /\ cwd \in Tests \cup {Home}
    BY DEF TypeInv
  <2>4. stdout = Console \/ \E t \in Tests : stdout[1] = t
    BY DEF TypeInv, Buffered
  <2> QED  BY <2>1, <2>2, <2>3, <2>4 DEF TypeOK, DriverTypeOK
<1> QED  BY <1>1, TypesAlways, PTL

-----------------------------------------------------------------------------
(* With one worker, the snippets have the process for themselves.          *)

\* Nothing happens to a test that is not selected, nor before the selection.
Unstarted ==
  /\ \A t \in Tests \ selected : test[t].pc = "queued"
  /\ phase \in {"set_up", "probe"} => \A t \in Tests : test[t].pc = "queued"

Idle(t)   == test[t].pc \in {"queued", "done", "error"}
\* A directory that the process may be left in.
Rested(d) == d = Home \/ (d \in selected /\ test[d].pc = "error")
\* Whatever a snippet has printed here is of t, in the directory of t.
OwnText(t, items) ==
  \A item \in ToSet(items) : item.what = "print" => item.by = t /\ item.in = t

\* What holds of the process for a test while the others are idle.
Holds(t) ==
  /\ Inside(t) => cwd = t /\ Rested(test[t].savedDir)
  /\ ~Inside(t) => Rested(cwd)
  /\ Capturing(t) => /\ stdout = Buffer(t) /\ test[t].savedOut = Console
                     /\ OwnText(t, test[t].captured)
  /\ ~Capturing(t) => stdout = Console

Isolated ==
  /\ \A t \in Tests : OwnText(t, test[t].output)
  /\ \A t \in Tests : (\A u \in Tests \ {t} : Idle(u)) => Holds(t)
  /\ (\A t \in Tests : Idle(t)) => Rested(cwd) /\ stdout = Console
  /\ \A t \in Tests : Idle(t) \/ \A u \in Tests \ {t} : Idle(u)

IsolationInv == Unstarted /\ (options.workers = 1 => Isolated)

LEMMA InitIsolation ==
  ASSUME Init
  PROVE  IsolationInv
<1>1. cwd = Home /\ stdout = Console
  BY DEF Init
<1>2. \A t \in Tests : test[t].pc = "queued" /\ test[t].output = <<>>
  BY DEF Init, NewTest
<1>3. Unstarted
  BY <1>2 DEF Unstarted
<1>4. \A t \in Tests : OwnText(t, test[t].output)
  BY <1>2, NoneListed DEF OwnText
<1>5. Rested(cwd)
  BY <1>1 DEF Rested
<1>6. \A t \in Tests : Holds(t) /\ Idle(t)
  BY <1>1, <1>2, <1>5 DEF Holds, Idle, Inside, Capturing
<1> QED  BY <1>1, <1>3, <1>4, <1>5, <1>6 DEF IsolationInv, Isolated

\* Whoever takes a step with one worker, the others are idle.
LEMMA OthersIdle ==
  ASSUME NEW t \in selected, TypeInv, IsolationInv, options.workers = 1, Step(t)
  PROVE  \A u \in Tests \ {t} : Idle(u)
<1>1. t \in Tests /\ Shaped
  BY DEF TypeInv
<1>2. CASE test[t].pc = "queued"
  <2>1. Start(t)
    BY <1>2 DEF Step, Start, Subtest, EnterDirectory, Redirect, Restore, GlobalEnds,
       LeaveDirectory, Snippet, PerfRun, RunGnatcheck, ReadReport, NextSubtest,
       RunChecker, StrayVariable, At, PrintOut, RaiseError, ListDirectory, Cat,
       Mkdir, Ln, Rm, SetLineEndings, Doing
  <2>2. Cardinality(Active) < 1
    BY <1>1, <2>1, StartFacts
  <2>3. IsFiniteSet(Active)
    BY TestDriverAssumption, FS_Subset DEF Active, TypeInv
  <2>4. Active = {}
    BY <2>2, <2>3, FS_CardinalityType, FS_EmptySet
  <2>5. ASSUME NEW u \in Tests PROVE Idle(u)
    BY <2>4 DEF Active, Over, Idle, IsolationInv, Unstarted
  <2> QED  BY <2>5
<1>3. CASE test[t].pc # "queued"
  <2>1. ~Idle(t)
    BY <1>3 DEF Step, Start, Subtest, EnterDirectory, Redirect, Restore, GlobalEnds,
       LeaveDirectory, Snippet, PerfRun, RunGnatcheck, ReadReport, NextSubtest,
       RunChecker, StrayVariable, At, PrintOut, RaiseError, ListDirectory, Cat,
       Mkdir, Ln, Rm, SetLineEndings, Doing, Idle
  <2> QED  BY <1>1, <2>1 DEF IsolationInv, Isolated
<1> QED  BY <1>2, <1>3

\* What the records say before and after a step that keeps the others.
LEMMA StepIsolates ==
  ASSUME NEW t \in Tests, Isolated, UNCHANGED Fixed,
         \A u \in Tests \ {t} : Idle(u) /\ Idle(u)' /\ test'[u].output = test[u].output,
         OwnText(t, test'[t].output), Holds(t)'
  PROVE  Isolated'
<1>1. \A u \in Tests : OwnText(u, test'[u].output)
  BY DEF Isolated
<1>2. ASSUME NEW u \in Tests, \A v \in Tests \ {u} : Idle(v)'
      PROVE  Holds(u)'
  <2>1. CASE u = t
    BY <2>1
  <2>2. CASE u # t
    <3>1. Idle(t)' /\ Idle(u)'
      BY <1>2, <2>2
    <3> QED  BY <3>1 DEF Holds, Idle, Inside, Capturing
  <2> QED  BY <2>1, <2>2
<1>3. ASSUME \A u \in Tests : Idle(u)' PROVE Rested(cwd)' /\ (stdout = Console)'
  BY <1>3 DEF Holds, Idle, Inside, Capturing
<1> QED  BY <1>1, <1>2, <1>3 DEF Isolated, OwnText

\* Output that has grown by nothing printed is as much the test's own.
LEMMA OwnStays ==
  ASSUME NEW t, NEW out, NEW more, Listed(out), Listed(more),
         OwnText(t, out), OwnText(t, more)
  PROVE  OwnText(t, out \o more)
BY CatListed DEF OwnText

LEMMA OwnNothing ==
  ASSUME NEW t
  PROVE  OwnText(t, <<>>) /\ Listed(<<>>)
BY NoneListed DEF OwnText

\* A step of t that keeps the others, from Holds(t) to Holds(t)'.
LEMMA KeptIsolates ==
  ASSUME NEW t \in Tests, NEW changed, Isolated, UNCHANGED Fixed, Keeps(t, changed),
         \A u \in Tests \ {t} : Idle(u),
         OwnText(t, test'[t].output), Holds(t)'
  PROVE  Isolated'
BY StepIsolates DEF Keeps, Idle

LEMMA StaysRested ==
  ASSUME NEW t \in Tests, NEW changed, NEW d, Keeps(t, changed), UNCHANGED Fixed,
         selected \subseteq Tests, Home \notin Tests,
         Rested(d), test[t].pc # "error"
  PROVE  Rested(d)'
BY DEF Rested, Keeps, Idle, Fixed

LEMMA NextIsolation ==
  ASSUME NEW t \in selected, TypeInv, IsolationInv, options.workers = 1, Step(t)
  PROVE  Isolated'
<1>0. /\ t \in Tests /\ Shaped /\ Typed(t) /\ selected \subseteq Tests /\ Home \notin Tests
      /\ Placed(t) /\ Saved(t) /\ Isolated
  BY TestDriverAssumption DEF TypeInv, Typed, IsolationInv
<1>00. \A u \in Tests \ {t} : Idle(u)
  BY OthersIdle
<1>01. Holds(t) /\ OwnText(t, test[t].output) /\ Listed(test[t].output)
       /\ Listed(test[t].captured) /\ test[t].captures \in Nat
  BY <1>0, <1>00 DEF Isolated, Saved
<1>02. ASSUME NEW pc, NEW items, Go(t, pc, items), OwnText(t, items), Listed(items),
              UNCHANGED Fixed, Holds(t)'
       PROVE  Isolated'
  <2>1. Keeps(t, {"pc", "output"}) /\ test'[t].output = test[t].output \o items
    BY <1>0, <1>02, GoFacts
  <2>2. OwnText(t, test'[t].output)
    BY <1>01, <1>02, <2>1, OwnStays
  <2> QED  BY <1>0, <1>00, <1>02, <2>1, <2>2, KeptIsolates
<1>03. ASSUME Fail(t), UNCHANGED <<Fixed, Shared>>, ~Inside(t), test[t].pc # "error"
       PROVE  Isolated'
  <2>1. Keeps(t, {"pc", "output"}) /\ test'[t].pc = "error"
    BY <1>0, <1>03, FailFacts
  <2>2. Rested(cwd)'
    BY <1>0, <1>01, <1>03, <2>1, StaysRested DEF Holds, Shared, Rested
  <2>3. Holds(t)'
    BY <1>01, <1>03, <2>1, <2>2 DEF Holds, Inside, Capturing, Shared
  <2> QED  BY <1>02, <1>03, <2>3, OwnNothing DEF Fail
<1>04. ASSUME NEW changed, Keeps(t, changed), UNCHANGED <<Fixed, Shared>>, "output" \notin changed,
              ~Inside(t), ~Inside(t)', test[t].pc # "error"
       PROVE  Isolated'
  <2>1. test'[t].output = test[t].output
    BY <1>04, FieldsAre DEF Keeps
  <2>2. Rested(cwd)'
    BY <1>0, <1>01, <1>04, StaysRested DEF Holds, Shared, Rested
  <2>3. Holds(t)'
    BY <1>01, <1>04, <2>2 DEF Holds, Inside, Capturing, Shared
  <2> QED  BY <1>0, <1>00, <1>01, <1>04, <2>1, <2>3, KeptIsolates
<1>1. CASE Start(t)
  <2>1. /\ Keeps(t, {"pc", "phase", "todo"})
        /\ test[t].pc = "queued"
        /\ test'[t].pc = IF suite[t].driver = "checker" THEN "checker" ELSE "body"
        /\ test'[t].phase = "global"
        /\ UNCHANGED <<Fixed, Shared>>
    BY <1>0, <1>1, StartFacts
  <2> QED  BY <1>04, <2>1 DEF Inside, Capturing
<1>2. CASE Subtest(t)
  <2>1. test[t].pc = "subtest" /\ UNCHANGED <<Fixed, Shared>>
    BY <1>0, <1>2, SubtestFacts
  <2>2. CASE Fail(t)
    BY <1>03, <2>1, <2>2 DEF Inside, Capturing
  <2>3. CASE ~Fail(t)
    <3>1. Keeps(t, {"pc", "phase", "todo"}) /\ test'[t].pc \in {"capture", "run"}
      BY <1>0, <1>2, <2>3, SubtestFacts
    <3> QED  BY <1>04, <2>1, <3>1 DEF Inside, Capturing
  <2> QED  BY <2>2, <2>3
<1>3. CASE EnterDirectory(t)
  <2>1. /\ Keeps(t, {"pc", "savedDir"})
        /\ test[t].pc = "capture" /\ test'[t].pc = "redirect"
        /\ test'[t].savedDir = cwd /\ cwd' = t
        /\ UNCHANGED <<Fixed, stdout>>
    BY <1>0, <1>3, EnterFacts
  <2>2. Rested(cwd) /\ stdout = Console
    BY <1>01, <2>1 DEF Holds, Inside, Capturing
  <2>3. \A d : Rested(d) => Rested(d)'
    BY <1>0, <2>1, StaysRested
  <2>4. Rested(test[t].savedDir)'
    BY <2>1, <2>2, <2>3 DEF Rested
  <2>5. Holds(t)'
    BY <2>1, <2>2, <2>4 DEF Holds, Inside, Capturing
  <2>6. test'[t].output = test[t].output
    BY <2>1, FieldsAre DEF Keeps
  <2> QED  BY <1>0, <1>00, <1>01, <2>1, <2>5, <2>6, KeptIsolates
<1>4. CASE Redirect(t)
  <2>1. /\ Keeps(t, {"pc", "savedOut", "captures", "captured"})
        /\ test[t].pc = "redirect" /\ test'[t].pc = "body"
        /\ test'[t].savedOut = stdout
        /\ test'[t].captures = test[t].captures + 1
        /\ test'[t].captured = <<>>
        /\ stdout' = <<t, test[t].captures + 1>>
        /\ UNCHANGED <<Fixed, cwd>>
    BY <1>0, <1>4, RedirectFacts
  <2>2. /\ cwd = t /\ Rested(test[t].savedDir) /\ stdout = Console
    BY <1>01, <2>1 DEF Holds, Inside, Capturing
  <2>3. /\ test'[t].savedDir = test[t].savedDir /\ test'[t].phase = test[t].phase
        /\ test'[t].output = test[t].output
    BY <2>1, FieldsAre DEF Keeps
  <2>4. Rested(test[t].savedDir)'
    <3>1. \A d : Rested(d) => Rested(d)'
      BY <1>0, <2>1, StaysRested
    <3> QED  BY <2>2, <2>3, <3>1 DEF Rested
  <2>5. Capturing(t)' /\ Inside(t)'
    BY <1>0, <2>1, <2>3 DEF Capturing, Inside, Placed
  <2>6. stdout' = Buffer(t)'
    BY <2>1 DEF Buffer
  <2>7. Holds(t)'
    BY <2>1, <2>2, <2>4, <2>5, <2>6, OwnNothing DEF Holds
  <2> QED  BY <1>0, <1>00, <1>01, <2>1, <2>3, <2>7, KeptIsolates
<1>5. CASE Restore(t)
  <2>1. /\ Keeps(t, {"pc", "output"})
        /\ test[t].pc = "body" /\ test[t].phase # "global" /\ test'[t].pc = "leave"
        /\ stdout' = test[t].savedOut
        /\ UNCHANGED <<Fixed, cwd>>
    BY <1>0, <1>5, RestoreFacts
  <2>2. /\ Capturing(t) /\ Inside(t)
        /\ test'[t].savedDir = test[t].savedDir
    BY <2>1, FieldsAre DEF Capturing, Inside, Keeps
  <2>3. Rested(test[t].savedDir)'
    <3>1. \A d : Rested(d) => Rested(d)'
      BY <1>0, <2>1, StaysRested
    <3> QED  BY <1>01, <2>2, <3>1 DEF Holds, Rested
  <2>4. Holds(t)'
    BY <1>01, <2>1, <2>2, <2>3 DEF Holds, Inside, Capturing
  <2>5. OwnText(t, test[t].captured)
    BY <1>01, <2>2 DEF Holds
  <2> QED  BY <1>01, <1>02, <1>5, <2>1, <2>4, <2>5 DEF Restore
<1>6. CASE GlobalEnds(t)
  <2>1. /\ Keeps(t, {"pc", "output"})
        /\ test[t].pc = "body" /\ test[t].phase = "global" /\ test'[t].pc = "subtest"
        /\ UNCHANGED <<Fixed, Shared>>
    BY <1>0, <1>6, GlobalEndsFacts
  <2>2. ~Inside(t) /\ ~Inside(t)'
    BY <2>1 DEF Inside, Capturing
  <2>3. Rested(cwd)'
    BY <1>0, <1>01, <2>1, <2>2, StaysRested DEF Holds, Rested, Shared
  <2>4. Holds(t)'
    BY <1>01, <2>1, <2>2, <2>3 DEF Holds, Inside, Shared
  <2> QED  BY <1>02, <1>6, <2>4, OwnNothing DEF GlobalEnds
<1>7. CASE LeaveDirectory(t)
  <2>1. /\ Keeps(t, {"pc", "output"})
        /\ test[t].pc = "leave"
        /\ test'[t].pc = IF test[t].phase = "pre" THEN "run" ELSE "next"
        /\ cwd' = test[t].savedDir
        /\ UNCHANGED <<Fixed, stdout>>
    BY <1>0, <1>7, LeaveFacts
  <2>2. Inside(t) /\ ~Capturing(t) /\ ~Inside(t)'
    BY <2>1 DEF Inside, Capturing
  <2>3. Rested(cwd)'
    BY <1>0, <1>01, <2>1, <2>2, StaysRested DEF Holds, Rested
  <2>4. Holds(t)'
    BY <1>01, <2>1, <2>2, <2>3 DEF Holds, Inside
  <2> QED  BY <1>02, <1>7, <2>4, OwnNothing DEF LeaveDirectory
<1>8. CASE PerfRun(t)
  <2>1. /\ Keeps(t, {"pc", "phase", "todo"})
        /\ test[t].pc = "run" /\ test'[t].pc \in {"capture", "next"}
        /\ UNCHANGED <<Fixed, Shared>>
    BY <1>0, <1>8, PerfFacts
  <2> QED  BY <1>04, <2>1 DEF Inside, Capturing
<1>9. CASE RunChecker(t)
  <2>1. test[t].pc = "checker" /\ UNCHANGED <<Fixed, Shared>>
    BY <1>0, <1>9, CheckerFacts
  <2>2. CASE Fail(t)
    BY <1>03, <2>1, <2>2 DEF Inside, Capturing
  <2>3. CASE ~Fail(t)
    <3>1. Keeps(t, {"pc", "flagged"}) /\ test'[t].pc = "done"
      BY <1>0, <1>9, <2>3, CheckerFacts
    <3> QED  BY <1>04, <2>1, <3>1 DEF Inside, Capturing
  <2> QED  BY <2>2, <2>3
<1>10. CASE StrayVariable(t)
  BY <1>0, <1>03, <1>10, StrayFacts DEF Inside, Capturing
<1>11. CASE NextSubtest(t)
  <2>1. test[t].pc = "next" /\ UNCHANGED <<Fixed, Shared>>
    BY <1>0, <1>11, NextSubtestFacts
  <2>2. CASE Keeps(t, {"pc", "sub"}) /\ test'[t].pc = "subtest"
    BY <1>04, <2>1, <2>2 DEF Inside, Capturing
  <2>3. CASE Keeps(t, {"pc"}) /\ test'[t].pc = "done"
    BY <1>04, <2>1, <2>3 DEF Inside, Capturing
  <2> QED  BY <1>0, <1>11, <2>2, <2>3, NextSubtestFacts
<1>12. CASE RunGnatcheck(t)
  <2>1. PICK label \in {<<>>, <<Says("label", test[t].sub)>>} :
          test'[t].output = test[t].output \o label
    BY <1>0, <1>12, RunFacts
  <2>2. /\ Keeps(t, {"pc", "printed", "runs", "files", "output"})
        /\ test[t].pc = "run" /\ test'[t].pc = "report"
        /\ UNCHANGED <<Fixed, Shared>>
    BY <1>0, <1>12, RunFacts
  <2>3. OwnText(t, label) /\ Listed(label)
    <3>1. OwnText(t, <<Says("label", test[t].sub)>>) /\ Listed(<<Says("label", test[t].sub)>>)
      <4> DEFINE item == Says("label", test[t].sub)
      <4>1. item.what # "print"
        BY DEF Says
      <4> HIDE DEF item
      <4>2. OwnText(t, <<item>>) /\ Listed(<<item>>)
        BY <4>1, OneListed DEF OwnText
      <4> QED  BY <4>2 DEF item
    <3> QED  BY <2>1, <3>1, OwnNothing
  <2>4. OwnText(t, test'[t].output)
    BY <1>01, <2>1, <2>3, OwnStays
  <2>5. ~Inside(t) /\ ~Inside(t)'
    BY <2>2 DEF Inside, Capturing
  <2>6. Rested(cwd)'
    BY <1>0, <1>01, <2>2, <2>5, StaysRested DEF Holds, Rested, Shared
  <2>7. Holds(t)'
    BY <1>01, <2>2, <2>5, <2>6 DEF Holds, Inside, Shared
  <2> QED  BY <1>0, <1>00, <2>2, <2>4, <2>7, KeptIsolates
<1>13. CASE ReadReport(t)
  <2>1. test[t].pc = "report" /\ UNCHANGED <<Fixed, Shared>>
    BY <1>0, <1>13, ReadFacts
  <2>2. CASE Fail(t)
    BY <1>03, <2>1, <2>2 DEF Inside, Capturing
  <2>3. CASE ~Fail(t)
    <3>1. /\ Keeps(t, {"pc", "phase", "todo", "flagged", "output"})
          /\ test'[t].pc \in {"capture", "next"}
          /\ test'[t].output = ReadOutput(t)
      BY <1>0, <1>13, <2>3, ReadFacts
    <3>2. OwnText(t, test'[t].output)
      <4>1. \A item \in ToSet(ReadOutput(t)) : item.what = "print" => item \in ToSet(test[t].output)
        <5> DEFINE one == Says("no report", test[t].sub)
                   two == [what |-> "report", by |-> Content(t).by, sub |-> test[t].sub]
                   three == Says("status", Last(test[t].runs).status)
        <5>1. one.what # "print" /\ two.what # "print" /\ three.what # "print"
          BY DEF Says
        <5>2. ToSet(ReadOutput(t)) \subseteq ToSet(test[t].output) \cup {one} \cup {two} \cup {three}
          BY <1>0, <1>01, ReadOutputIs
        <5> HIDE DEF one, two, three
        <5> QED  BY <5>1, <5>2
      <4> QED  BY <1>01, <3>1, <4>1 DEF OwnText
    <3>3. ~Inside(t) /\ ~Inside(t)'
      BY <2>1, <3>1 DEF Inside, Capturing
    <3>4. Rested(cwd)'
      BY <1>0, <1>01, <2>1, <3>1, <3>3, StaysRested DEF Holds, Rested, Shared
    <3>5. Holds(t)'
      BY <1>01, <2>1, <3>3, <3>4 DEF Holds, Inside, Shared
    <3> QED  BY <1>0, <1>00, <2>1, <3>1, <3>2, <3>5, KeptIsolates
  <2> QED  BY <2>2, <2>3
<1>14. CASE PrintOut(t)
  <2> DEFINE text == [what |-> "print", by |-> t, in |-> cwd]
  <2>1. /\ test[t].pc = "body"
        /\ \A u \in Tests : \A f \in Fields \ {"todo", "captured"} :
             test'[u][f] = test[u][f]
        /\ \A u \in Tests : test'[u].captured =
             IF stdout = Buffer(u) THEN Append(test[u].captured, text) ELSE test[u].captured
        /\ UNCHANGED <<Fixed, Shared>>
    BY <1>0, <1>14, PrintFacts
  <2>2. /\ test'[t].pc = test[t].pc /\ test'[t].phase = test[t].phase
        /\ test'[t].savedDir = test[t].savedDir /\ test'[t].savedOut = test[t].savedOut
        /\ test'[t].captures = test[t].captures /\ test'[t].output = test[t].output
    BY <1>0, <2>1, FieldsAre
  <2>3. \A u \in Tests : test'[u].pc = test[u].pc /\ test'[u].output = test[u].output
    BY <2>1, FieldsAre
  <2>4. \A d : Rested(d) => Rested(d)'
    BY <1>0, <2>1, <2>3 DEF Rested, Fixed
  <2>5. CASE Capturing(t)
    <3>1. stdout = Buffer(t) /\ cwd = t /\ OwnText(t, test[t].captured)
      BY <1>01, <2>5 DEF Holds, Inside
    <3>3. text.what = "print" => text.by = t /\ text.in = t
      BY <3>1
    <3> HIDE DEF text
    <3>2. Append(test[t].captured, text) = test[t].captured \o <<text>>
      BY <1>01, AppendListed
    <3>4. OwnText(t, <<text>>) /\ Listed(<<text>>)
      BY <3>3, OneListed DEF OwnText
    <3>5. OwnText(t, test'[t].captured)
      <4>1. test'[t].captured = test[t].captured \o <<text>>
        BY <1>0, <2>1, <3>1, <3>2
      <4>2. OwnText(t, test[t].captured \o <<text>>)
        BY <1>01, <3>1, <3>4, OwnStays
      <4> QED  BY <4>1, <4>2
    <3>6. Holds(t)'
      BY <1>01, <2>1, <2>2, <2>4, <2>5, <3>1, <3>5
         DEF Holds, Inside, Capturing, Buffer, Rested, Shared
    <3> QED  BY <1>0, <1>00, <1>01, <2>1, <2>2, <2>3, <3>6, StepIsolates DEF Idle
  <2>6. CASE ~Capturing(t)
    <3>1. Holds(t)'
      BY <1>01, <2>1, <2>2, <2>4, <2>6 DEF Holds, Inside, Capturing, Rested, Shared
    <3> QED  BY <1>0, <1>00, <1>01, <2>1, <2>2, <2>3, <3>1, StepIsolates DEF Idle
  <2> QED  BY <2>5, <2>6
<1>15. CASE Snippet(t) /\ ~PrintOut(t)
  <2>1. test[t].pc = "body"
    BY <1>0, <1>15, SnippetFacts
  <2>2. CASE Raises(t)
    <3>1. /\ Keeps(t, {"pc", "output"}) /\ test'[t].pc = "error"
          /\ stdout' = IF test[t].phase = "global" THEN stdout ELSE test[t].savedOut
          /\ UNCHANGED <<Fixed, cwd>>
      BY <1>0, <2>2, RaisesFacts
    <3>2. \A d : Rested(d) => Rested(d)'
      BY <1>0, <2>1, <3>1, StaysRested
    <3>3. Rested(cwd)'
      BY <1>0, <1>01, <2>1, <3>1, <3>2 DEF Holds, Inside, Capturing, Rested, Fixed
    <3>4. stdout' = Console
      BY <1>01, <2>1, <3>1 DEF Holds, Capturing
    <3>5. Holds(t)'
      BY <3>1, <3>3, <3>4 DEF Holds, Inside, Capturing
    <3> QED  BY <1>02, <2>2, <3>1, <3>5, OwnNothing DEF Raises, Fail
  <2>3. CASE Helps(t, Head(test[t].todo).op)
    <3>1. PICK op : op = Head(test[t].todo).op
      OBVIOUS
    <3>2. /\ Keeps(t, {"todo", "files", "output"})
          /\ UNCHANGED <<Fixed, Shared>>
          /\ \/ ToSet(test'[t].output) = ToSet(test[t].output) \cup {Says("running", op)}
             \/ \E what \in Remarks : \E name :
                 ToSet(test'[t].output)
                   = ToSet(test[t].output) \cup {Says("running", op), Says(what, name)}
      BY <1>0, <1>01, <2>3, <3>1, HelperOutput
    <3>3. \A what \in Remarks \cup {"running"} : \A name : Says(what, name).what # "print"
      BY DEF Says, Remarks
    <3>4. OwnText(t, test'[t].output)
      BY <1>01, <3>2, <3>3 DEF OwnText
    <3>5. /\ test'[t].pc = test[t].pc /\ test'[t].phase = test[t].phase
          /\ test'[t].savedDir = test[t].savedDir /\ test'[t].savedOut = test[t].savedOut
          /\ test'[t].captures = test[t].captures /\ test'[t].captured = test[t].captured
      BY <3>2, FieldsAre DEF Keeps
    <3>6. \A d : Rested(d) => Rested(d)'
      BY <1>0, <2>1, <3>2, StaysRested
    <3>7. Holds(t)'
      BY <1>01, <3>2, <3>5, <3>6 DEF Holds, Inside, Capturing, Buffer, Rested, Shared
    <3> QED  BY <1>0, <1>00, <3>2, <3>4, <3>7, KeptIsolates
  <2> QED  BY <1>0, <1>15, <2>2, <2>3, SnippetFacts
<1> QED  BY <1>1, <1>2, <1>3, <1>4, <1>5, <1>6, <1>7, <1>8, <1>9, <1>10, <1>11,
            <1>12, <1>13, <1>14, <1>15 DEF Step

\* Every step of t but a print keeps the records of the other tests.
LEMMA StepKeeps ==
  ASSUME NEW t \in Tests, Shaped, Step(t)
  PROVE  PrintOut(t) \/ \E changed : Keeps(t, changed)
<1>1. ASSUME Fail(t) PROVE \E changed : Keeps(t, changed)
  BY <1>1, FailFacts
<1>2. CASE Start(t) \/ EnterDirectory(t) \/ Redirect(t) \/ Restore(t)
  BY <1>2, StartFacts, EnterFacts, RedirectFacts, RestoreFacts
<1>3. CASE GlobalEnds(t) \/ LeaveDirectory(t) \/ PerfRun(t) \/ RunGnatcheck(t)
  BY <1>3, GlobalEndsFacts, LeaveFacts, PerfFacts, RunFacts
<1>4. CASE Subtest(t) \/ StrayVariable(t) \/ NextSubtest(t)
  BY <1>1, <1>4, SubtestFacts, StrayFacts, NextSubtestFacts
<1>5. CASE ReadReport(t)
  BY <1>1, <1>5, ReadFacts
<1>6. CASE RunChecker(t)
  BY <1>1, <1>6, CheckerFacts
<1>7. CASE Snippet(t)
  <2>1. CASE Raises(t)
    BY <2>1, RaisesFacts
  <2>2. CASE Helps(t, Head(test[t].todo).op)
    BY <2>2, HelperFacts DEF Helps
  <2> QED  BY <1>7, <2>1, <2>2, SnippetFacts
<1> QED  BY <1>2, <1>3, <1>4, <1>5, <1>6, <1>7 DEF Step

LEMMA StepUnstarted ==
  ASSUME NEW t \in selected, TypeInv, Unstarted, Step(t), phase = "run", UNCHANGED phase
  PROVE  Unstarted'
<1>1. t \in Tests /\ Shaped
  BY DEF TypeInv
<1>2. UNCHANGED Fixed
  BY StepTypes
<1>3. \A u \in Tests \ {t} : test'[u].pc = test[u].pc
  <2>1. CASE \E changed : Keeps(t, changed)
    BY <2>1 DEF Keeps
  <2>2. CASE PrintOut(t)
    BY <1>1, <2>2, PrintFacts, FieldsAre
  <2>3. \/ PrintOut(t) \/ \E changed : Keeps(t, changed)
    BY <1>1, StepKeeps
  <2> QED  BY <2>1, <2>2, <2>3
<1> QED  BY <1>1, <1>2, <1>3 DEF Unstarted, Fixed

LEMMA IsolationAlways == Spec => []IsolationInv
<1>1. Init => IsolationInv
  BY InitIsolation
<1>2. TypeInv /\ IsolationInv /\ [Next]_svars => IsolationInv'
  <2> SUFFICES ASSUME TypeInv, IsolationInv, [Next]_svars PROVE IsolationInv'
    OBVIOUS
  <2> USE DEF IsolationInv
  <2>1. ASSUME UNCHANGED dvars, phase' \notin {"set_up", "probe"} \/ phase \in {"set_up", "probe"}
        PROVE  IsolationInv'
    <3>1. Unstarted'
      BY <2>1 DEF Unstarted, dvars
    <3>2. Isolated => Isolated'
      BY <2>1 DEF Isolated, Holds, Inside, Capturing, Rested, Idle, OwnText, Buffer, dvars
    <3> QED  BY <2>1, <3>1, <3>2 DEF dvars
  <2>2. CASE SetUp
    BY <2>1, <2>2 DEF SetUp
  <2>3. CASE Probe
    <3>1. /\ phase = "probe" /\ phase' = "run"
          /\ UNCHANGED <<suite, options, test, cwd, stdout, printed>>
      BY <2>3 DEF Probe
    <3>2. \A t \in Tests : test[t].pc = "queued" /\ test'[t] = test[t]
      BY <3>1 DEF Unstarted
    <3>3. Unstarted'
      BY <3>1, <3>2 DEF Unstarted
    <3>4. options.workers = 1 => Isolated'
      <4> SUFFICES ASSUME options.workers = 1 PROVE Isolated'
        OBVIOUS
      <4>1. Rested(cwd) /\ stdout = Console
        BY <3>2 DEF Isolated, Idle
      <4>2. cwd = Home
        BY <3>2, <4>1 DEF Rested, TypeInv
      <4>3. \A t \in Tests : Idle(t)' /\ Holds(t)'
        BY <3>1, <3>2, <4>1, <4>2 DEF Holds, Inside, Capturing, Rested, Idle
      <4>4. \A t \in Tests : OwnText(t, test'[t].output)
        BY <3>2 DEF Isolated
      <4> QED  BY <3>1, <4>1, <4>2, <4>3, <4>4 DEF Isolated, Rested, OwnText
    <3> QED  BY <3>1, <3>3, <3>4
  <2>4. CASE RunTests
    <3>1. PICK t \in selected : Step(t) /\ phase = "run" /\ phase' = phase
      BY <2>4 DEF RunTests
    <3>2. Unstarted'
      BY <3>1, StepUnstarted
    <3>3. options' = options
      BY <3>1, StepTypes DEF Fixed
    <3>4. options.workers = 1 => Isolated'
      BY <3>1, NextIsolation
    <3> QED  BY <3>2, <3>3, <3>4
  <2>5. CASE TestsEnd
    BY <2>1, <2>5 DEF TestsEnd
  <2>6. CASE TearDown
    BY <2>1, <2>6 DEF TearDown
  <2>7. CASE UNCHANGED svars
    BY <2>1, <2>7 DEF svars
  <2> QED  BY <2>2, <2>3, <2>4, <2>5, <2>6, <2>7 DEF Next, Terminated
<1> QED  BY <1>1, <1>2, TypesAlways, PTL DEF Spec

\* SnippetsIsolated: with one worker, what a snippet prints reaches the output of
\* its own test, printed in its own directory, after any number of tests and
\* whichever of them have raised.
THEOREM IsolatedSnippets == Spec => []SnippetsIsolated
<1>1. TypeInv /\ IsolationInv => SnippetsIsolated
  <2> SUFFICES ASSUME TypeInv, IsolationInv, options.workers = 1, NEW t \in selected,
                      NEW item \in Items(t, "print")
               PROVE  item.by = t /\ item.in = t
    BY DEF SnippetsIsolated
  <2>1. t \in Tests
    BY DEF TypeInv
  <2> QED  BY <2>1, ItemsAre DEF IsolationInv, Isolated, OwnText
<1> QED  BY <1>1, TypesAlways, IsolationAlways, PTL

\* ProcessRestored: with one worker, the process has its output back whenever no
\* test is under way, and its directory too unless a snippet has raised.
THEOREM RestoredProcess == Spec => []ProcessRestored
<1>1. TypeInv /\ IsolationInv => ProcessRestored
  <2> SUFFICES ASSUME TypeInv, IsolationInv, options.workers = 1, Active = {}
               PROVE  /\ stdout = Console
                      /\ cwd # Home => \E t \in selected : test[t].pc = "error" /\ cwd = t
    BY DEF ProcessRestored
  <2>1. ASSUME NEW t \in Tests PROVE Idle(t)
    BY DEF Active, Over, Idle, IsolationInv, Unstarted
  <2>2. Rested(cwd) /\ stdout = Console
    BY <2>1 DEF IsolationInv, Isolated
  <2> QED  BY <2>2 DEF Rested
<1> QED  BY <1>1, TypesAlways, IsolationAlways, PTL

-----------------------------------------------------------------------------
(* The command line of a subtest, by the names of its switches.            *)

Heads(command) == {arg[1] : arg \in ToSet(command)}

LEMMA HasHeads ==
  ASSUME NEW command, NEW switch
  PROVE  Has(command, switch) <=> switch \in Heads(command)
BY DEF Has, Heads, ToSet

LEMMA CatHeads ==
  ASSUME NEW a, NEW b, Listed(a), Listed(b)
  PROVE  Listed(a \o b) /\ Heads(a \o b) = Heads(a) \cup Heads(b)
<1>1. Listed(a \o b) /\ ToSet(a \o b) = ToSet(a) \cup ToSet(b)
  BY CatListed
<1> QED  BY <1>1 DEF Heads

LEMMA OneHead ==
  ASSUME NEW arg
  PROVE  Listed(<<arg>>) /\ Heads(<<arg>>) = {arg[1]}
<1>1. Listed(<<arg>>) /\ ToSet(<<arg>>) = {arg}
  BY OneListed
<1> QED  BY <1>1 DEF Heads

LEMMA NoHead == Listed(<<>>) /\ Heads(<<>>) = {}
BY NoneListed DEF Heads

LEMMA IfHeads ==
  ASSUME NEW condition, NEW arg
  PROVE  /\ Listed(If(condition, arg))
         /\ Heads(If(condition, arg)) = IF condition THEN {arg[1]} ELSE {}
BY OneHead, NoHead DEF If

LEMMA SetListed ==
  ASSUME NEW S, IsFiniteSet(S)
  PROVE  Listed(SetToSeq(S)) /\ ToSet(SetToSeq(S)) \subseteq S
<1> DEFINE n == Cardinality(S)
<1>1. n \in Nat
  BY FS_CardinalityType
<1>2. PICK f : f \in Bijection(1..n, S)
  BY FS_CardinalityType, FS_NatBijection DEF ExistsBijection
<1>3. f \in [1..n -> S] /\ IsInjective(f)
  BY <1>2 DEF IsInjective, Bijection, Injection
<1>4. SetToSeq(S) \in [1..n -> S]
  BY <1>3 DEF SetToSeq
<1> DEFINE g == SetToSeq(S)
<1>5. g \in [1..n -> ToSet(g)] /\ ToSet(g) \subseteq S
  BY <1>4 DEF ToSet
<1> HIDE DEF g, n
<1>6. g \in Seq(ToSet(g))
  BY <1>1, <1>5
<1> QED  BY <1>5, <1>6 DEF Listed, g

LEMMA SmallFinite ==
  ASSUME NEW a, NEW b, NEW c
  PROVE  IsFiniteSet({a, b, c})
<1>1. IsFiniteSet({a} \cup {b})
  BY FS_Singleton, FS_Union
<1>2. IsFiniteSet(({a} \cup {b}) \cup {c})
  BY <1>1, FS_Singleton, FS_Union
<1>3. {a, b, c} = ({a} \cup {b}) \cup {c}
  OBVIOUS
<1> QED  BY <1>2, <1>3

\* The switches that the other keys are never forwarded by.
Known == {"--target", "--RTS", "-q", "--brief", "-o", "-ox", "--sarif", "-xml", "-s"}

LEMMA GivenHeads ==
  ASSUME NEW env, NEW table \in {Forwarded, RuleForwarded}
  PROVE  Listed(Given(env, table)) /\ Heads(Given(env, table)) \cap Known = {}
<1> DEFINE args == {<<table[key]>> : key \in DOMAIN env \cap DOMAIN table}
<1>1. IsFiniteSet({"show_rule", "jobs", "project", "show_instantiation_chain",
        "gpr_config_file", "subdirs", "include_file", "ignore_file",
        "process_closure", "scenario_variables", "check_semantic", "rules_dirs",
        "check_redefinition", "lkql_rule_file", "emit_fixes", "disable_formatting"})
  <2> DEFINE S1 == {"show_rule", "jobs", "project", "show_instantiation_chain"}
             S2 == {"gpr_config_file", "subdirs", "include_file", "ignore_file"}
             S3 == {"process_closure", "scenario_variables", "check_semantic", "rules_dirs"}
             S4 == {"check_redefinition", "lkql_rule_file", "emit_fixes", "disable_formatting"}
  <2>1. \A a, b, c, d : IsFiniteSet({a, b, c, d})
    <3> TAKE a, b, c, d
    <3>1. IsFiniteSet({a, b, c})
      BY SmallFinite
    <3>2. {a, b, c, d} = {a, b, c} \cup {d}
      OBVIOUS
    <3>3. IsFiniteSet({a, b, c} \cup {d})
      BY <3>1, FS_Singleton, FS_Union
    <3> QED  BY <3>2, <3>3
  <2>2. IsFiniteSet(S1) /\ IsFiniteSet(S2) /\ IsFiniteSet(S3) /\ IsFiniteSet(S4)
    BY <2>1
  <2>3. IsFiniteSet(S1 \cup S2 \cup S3 \cup S4)
    <3> HIDE DEF S1, S2, S3, S4
    <3> QED  BY <2>2, FS_Union
  <2>4. {"show_rule", "jobs", "project", "show_instantiation_chain",
        "gpr_config_file", "subdirs", "include_file", "ignore_file",
        "process_closure", "scenario_variables", "check_semantic", "rules_dirs",
        "check_redefinition", "lkql_rule_file", "emit_fixes", "disable_formatting"}
        = S1 \cup S2 \cup S3 \cup S4
    OBVIOUS
  <2> QED  BY <2>3, <2>4
<1>2. DOMAIN table \subseteq {"show_rule", "jobs", "project", "show_instantiation_chain",
        "gpr_config_file", "subdirs", "include_file", "ignore_file",
        "process_closure", "scenario_variables", "check_semantic", "rules_dirs",
        "check_redefinition", "lkql_rule_file", "emit_fixes", "disable_formatting"}
        \cup {"rule_file", "rules", "extra_rule_options"}
  BY DEF Forwarded, RuleForwarded
<1>3. IsFiniteSet(DOMAIN table)
  <2>1. IsFiniteSet({"rule_file", "rules", "extra_rule_options"})
    BY SmallFinite
  <2> QED  BY <1>1, <1>2, <2>1, FS_Union, FS_Subset
<1>4. IsFiniteSet(args)
  <2>1. IsFiniteSet(DOMAIN env \cap DOMAIN table)
    BY <1>3, FS_Subset
  <2> HIDE DEF args
  <2> DEFINE keys == DOMAIN env \cap DOMAIN table
             arg == [key \in keys |-> <<table[key]>>]
  <2>2. args = {arg[key] : key \in keys}
    BY DEF args
  <2> HIDE DEF keys, arg
  <2>3. IsFiniteSet({arg[key] : key \in keys})
    <3> DEFINE T == {arg[key] : key \in keys}
    <3>1. arg \in Surjection(keys, T)
      BY DEF arg, Surjection
    <3>2. IsFiniteSet(keys)
      BY <2>1 DEF keys
    <3> HIDE DEF T
    <3> QED  BY <3>1, <3>2, FS_Surjection DEF ExistsSurjection, T
  <2> QED  BY <2>2, <2>3
<1>5. \A arg \in args : arg[1] \notin Known
  <2>1. \A key \in DOMAIN table : table[key] \notin Known
    <3>1. CASE table = Forwarded
      BY <3>1 DEF Forwarded, Known
    <3>2. CASE table = RuleForwarded
      BY <3>2 DEF RuleForwarded, Known
    <3> QED  BY <3>1, <3>2
  <2> QED  BY <2>1
<1> QED  BY <1>4, <1>5, SetListed DEF Given, Heads

\* One argument at most has this name.
Once(command, switch) ==
  \A i, j \in DOMAIN command : command[i][1] = switch /\ command[j][1] = switch => i = j

LEMMA CatOnce ==
  ASSUME NEW a, NEW b, NEW switch, Listed(a), Listed(b),
         Once(a, switch), Once(b, switch),
         switch \notin Heads(a) \/ switch \notin Heads(b)
  PROVE  Once(a \o b, switch)
<1> DEFINE S == ToSet(a) \cup ToSet(b)
           c == a \o b
<1>1. a \in Seq(S) /\ b \in Seq(S)
  BY DEF Listed
<1> HIDE DEF S
<1>2. /\ Len(a) \in Nat /\ Len(b) \in Nat
      /\ DOMAIN c = 1..(Len(a) + Len(b))
      /\ DOMAIN a = 1..Len(a) /\ DOMAIN b = 1..Len(b)
      /\ \A i \in 1..(Len(a) + Len(b)) :
           c[i] = IF i <= Len(a) THEN a[i] ELSE b[i - Len(a)]
  BY <1>1
<1> HIDE DEF c
<1>3. ASSUME NEW i \in DOMAIN c
      PROVE  \/ i \in DOMAIN a /\ c[i] = a[i]
             \/ i \notin DOMAIN a /\ i - Len(a) \in DOMAIN b /\ c[i] = b[i - Len(a)]
  BY <1>2
<1>4. /\ \A i \in DOMAIN a : a[i][1] \in Heads(a)
      /\ \A i \in DOMAIN b : b[i][1] \in Heads(b)
  BY DEF Heads, ToSet
<1>5. ASSUME NEW i \in DOMAIN c, NEW j \in DOMAIN c,
             c[i][1] = switch, c[j][1] = switch
      PROVE  i = j
  <2>1. CASE i \in DOMAIN a
    <3>1. switch \in Heads(a)
      BY <1>3, <1>4, <1>5, <2>1
    <3>2. j \in DOMAIN a
      BY <1>3, <1>4, <1>5, <3>1
    <3>3. c[i] = a[i] /\ c[j] = a[j]
      BY <1>3, <2>1, <3>2
    <3> QED  BY <1>5, <2>1, <3>2, <3>3 DEF Once
  <2>2. CASE i \notin DOMAIN a
    <3>1. i - Len(a) \in DOMAIN b /\ c[i] = b[i - Len(a)]
      BY <1>3, <2>2
    <3>2. switch \in Heads(b)
      BY <1>4, <1>5, <3>1
    <3>3. j \notin DOMAIN a
      <4>1. CASE j \in DOMAIN a
        <5>1. c[j] = a[j]
          BY <1>3, <4>1
        <5> QED  BY <1>4, <1>5, <3>2, <4>1, <5>1
      <4> QED  BY <4>1
    <3>4. j - Len(a) \in DOMAIN b /\ c[j] = b[j - Len(a)]
      BY <1>3, <3>3
    <3>5. i - Len(a) = j - Len(a)
      BY <1>5, <3>1, <3>4 DEF Once
    <3> QED  BY <1>2, <3>5
  <2> QED  BY <2>1, <2>2
<1> QED  BY <1>5 DEF Once, c

LEMMA IfOnce ==
  ASSUME NEW condition, NEW arg, NEW switch
  PROVE  Once(If(condition, arg), switch) /\ Once(<<>>, switch) /\ Once(<<arg>>, switch)
BY DEF If, Once

\* What is not in a list is there at most once.
LEMMA NoneOnce ==
  ASSUME NEW command, NEW switch, switch \notin Heads(command)
  PROVE  Once(command, switch)
BY DEF Once, Heads, ToSet

Target(env)     == "target" \in DOMAIN env
Kp(env)         == Exe(env) = "gnatkp" /\ Get(env, "gnatkp_autoconfig", TRUE)
HostTarget(env) == Kp(env) /\ ~options.codepeer /\ ~Target(env)
PeerTarget(env) ==
  options.codepeer /\ Get(env, "auto_codepeer_target", TRUE) /\ ~Target(env)

LEMMA TargetHeads ==
  ASSUME NEW env
  PROVE  /\ Listed(TargetSwitches(env))
         /\ Heads(TargetSwitches(env)) =
              (IF Target(env) \/ HostTarget(env) \/ PeerTarget(env) THEN {"--target"} ELSE {})
              \cup (IF Kp(env) THEN {"--RTS"} ELSE {})
         /\ Once(TargetSwitches(env), "--target")
<1> DEFINE host == If(~options.codepeer /\ ~Target(env), <<"--target", "host">>)
           rts == <<<<"--RTS">>>>
           kp == IF Kp(env) THEN host \o rts ELSE <<>>
           given == If(Target(env), <<"--target", "given">>)
           peer == If(PeerTarget(env), <<"--target", "codepeer">>)
<1>1. TargetSwitches(env) = given \o kp \o peer
  BY DEF TargetSwitches, Target, Kp, PeerTarget
<1>2. /\ Listed(given) /\ Heads(given) = IF Target(env) THEN {"--target"} ELSE {}
      /\ Once(given, "--target")
  BY IfHeads, IfOnce
<1>3. /\ Listed(peer) /\ Heads(peer) = IF PeerTarget(env) THEN {"--target"} ELSE {}
      /\ Once(peer, "--target")
  BY IfHeads, IfOnce
<1>4. /\ Listed(host) /\ Once(host, "--target")
      /\ Heads(host) = IF ~options.codepeer /\ ~Target(env) THEN {"--target"} ELSE {}
  BY IfHeads, IfOnce
<1>5. Listed(rts) /\ Heads(rts) = {"--RTS"} /\ Once(rts, "--target")
  <2> DEFINE arg == <<"--RTS">>
  <2>1. arg[1] = "--RTS"
    OBVIOUS
  <2> HIDE DEF arg
  <2>2. Listed(<<arg>>) /\ Heads(<<arg>>) = {"--RTS"} /\ Once(<<arg>>, "--target")
    BY <2>1, OneHead, IfOnce
  <2> QED  BY <2>2 DEF arg
<1> HIDE DEF host, rts
<1>6. /\ Listed(host \o rts) /\ Heads(host \o rts) = Heads(host) \cup {"--RTS"}
      /\ Once(host \o rts, "--target")
  BY <1>4, <1>5, CatHeads, CatOnce
<1>7. /\ Listed(kp) /\ Once(kp, "--target")
      /\ Heads(kp) = (IF HostTarget(env) THEN {"--target"} ELSE {})
                     \cup (IF Kp(env) THEN {"--RTS"} ELSE {})
  <2>1. CASE Kp(env)
    BY <1>4, <1>6, <2>1 DEF HostTarget
  <2>2. CASE ~Kp(env)
    BY <2>2, NoHead, IfOnce DEF HostTarget
  <2> QED  BY <2>1, <2>2
<1> HIDE DEF given, kp, peer
<1>8. ~(Target(env) /\ HostTarget(env)) /\ ~(Target(env) /\ PeerTarget(env))
      /\ ~(HostTarget(env) /\ PeerTarget(env))
  BY DEF HostTarget, PeerTarget
<1>9. /\ Listed(given \o kp) /\ Heads(given \o kp) = Heads(given) \cup Heads(kp)
      /\ Once(given \o kp, "--target")
  BY <1>2, <1>7, <1>8, CatHeads, CatOnce
<1>10. "--target" \notin Heads(given \o kp) \/ "--target" \notin Heads(peer)
  BY <1>2, <1>3, <1>7, <1>8, <1>9
<1>11. /\ Listed(given \o kp \o peer)
       /\ Heads(given \o kp \o peer) = Heads(given \o kp) \cup Heads(peer)
       /\ Once(given \o kp \o peer, "--target")
  BY <1>3, <1>9, <1>10, CatHeads, CatOnce
<1>12. Heads(TargetSwitches(env)) = Heads(given) \cup Heads(kp) \cup Heads(peer)
  BY <1>1, <1>9, <1>11
<1> QED  BY <1>1, <1>2, <1>3, <1>7, <1>11, <1>12

Asked(env, formats) == OutputFile(env) # None /\ Format(env) \in formats

LEMMA ReportHeads ==
  ASSUME NEW env
  PROVE  /\ Listed(ReportSwitches(env))
         /\ Heads(ReportSwitches(env)) =
              (IF Asked(env, {"short", "full"}) THEN {"-o"} ELSE {})
              \cup (IF Asked(env, {"xml"}) THEN {"-ox"} ELSE {})
              \cup (IF Asked(env, {"sarif"}) THEN {"--sarif"} ELSE {})
              \cup (IF Format(env) = "brief" /\ Quiet(env) THEN {"--brief"} ELSE {})
              \cup (IF Format(env) = "xml" THEN {"-xml"} ELSE {})
              \cup (IF Format(env) = "short" THEN {"-s"} ELSE {})
<1> DEFINE file == OutputFile(env)
           s1 == If(file # None /\ Format(env) \in {"short", "full"}, <<"-o", file>>)
           s2 == If(file # None /\ Format(env) = "xml", <<"-ox", file>>)
           s3 == If(file # None /\ Format(env) = "sarif", <<"--sarif", file>>)
           s4 == If(Format(env) = "brief" /\ Quiet(env), <<"--brief">>)
           s5 == If(Format(env) = "xml", <<"-xml">>)
           s6 == If(Format(env) = "short", <<"-s">>)
<1>1. ReportSwitches(env) = s1 \o s2 \o s3 \o s4 \o s5 \o s6
  BY DEF ReportSwitches
<1>2. Listed(s1) /\ Heads(s1) = IF Asked(env, {"short", "full"}) THEN {"-o"} ELSE {}
  BY IfHeads DEF Asked
<1>3. Listed(s2) /\ Heads(s2) = IF Asked(env, {"xml"}) THEN {"-ox"} ELSE {}
  BY IfHeads DEF Asked
<1>4. Listed(s3) /\ Heads(s3) = IF Asked(env, {"sarif"}) THEN {"--sarif"} ELSE {}
  BY IfHeads DEF Asked
<1>5. Listed(s4) /\ Heads(s4) = IF Format(env) = "brief" /\ Quiet(env) THEN {"--brief"} ELSE {}
  BY IfHeads
<1>6. Listed(s5) /\ Heads(s5) = IF Format(env) = "xml" THEN {"-xml"} ELSE {}
  BY IfHeads
<1>7. Listed(s6) /\ Heads(s6) = IF Format(env) = "short" THEN {"-s"} ELSE {}
  BY IfHeads
<1> HIDE DEF s1, s2, s3, s4, s5, s6
<1>8. Listed(s1 \o s2) /\ Heads(s1 \o s2) = Heads(s1) \cup Heads(s2)
  BY <1>2, <1>3, CatHeads
<1>9. Listed(s1 \o s2 \o s3) /\ Heads(s1 \o s2 \o s3) = Heads(s1 \o s2) \cup Heads(s3)
  BY <1>8, <1>4, CatHeads
<1>10. /\ Listed(s1 \o s2 \o s3 \o s4)
       /\ Heads(s1 \o s2 \o s3 \o s4) = Heads(s1 \o s2 \o s3) \cup Heads(s4)
  BY <1>9, <1>5, CatHeads
<1>11. /\ Listed(s1 \o s2 \o s3 \o s4 \o s5)
       /\ Heads(s1 \o s2 \o s3 \o s4 \o s5) = Heads(s1 \o s2 \o s3 \o s4) \cup Heads(s5)
  BY <1>10, <1>6, CatHeads
<1>12. /\ Listed(s1 \o s2 \o s3 \o s4 \o s5 \o s6)
       /\ Heads(s1 \o s2 \o s3 \o s4 \o s5 \o s6)
            = Heads(s1 \o s2 \o s3 \o s4 \o s5) \cup Heads(s6)
  BY <1>11, <1>7, CatHeads
<1>13. Heads(ReportSwitches(env)) = Heads(s1) \cup Heads(s2) \cup Heads(s3)
                                    \cup Heads(s4) \cup Heads(s5) \cup Heads(s6)
  BY <1>1, <1>8, <1>9, <1>10, <1>11, <1>12
<1> QED  BY <1>1, <1>2, <1>3, <1>4, <1>5, <1>6, <1>7, <1>12, <1>13

Extra(env) == Get(env, "extra_args", <<>>)

LEMMA CommandHeads ==
  ASSUME NEW env, WellWritten(env)
  PROVE  /\ Listed(Command(env))
         /\ Heads(Command(env)) \cap Known =
              (IF Quiet(env) THEN {"-q"} ELSE {}) \cup Heads(TargetSwitches(env))
              \cup Heads(ReportSwitches(env)) \cup (Heads(Extra(env)) \cap Known)
         /\ "--target" \notin Heads(Extra(env)) => Once(Command(env), "--target")
<1> DEFINE exe == <<<<Exe(env)>>>>
           quiet == If(Quiet(env), <<"-q">>)
           target == TargetSwitches(env)
           report == ReportSwitches(env)
           given == Given(env, Forwarded)
           extra == Extra(env)
           rules == <<<<"-rules">>>>
           last == Given(env, RuleForwarded)
           c2 == exe \o quiet
           c3 == c2 \o target
           c4 == c3 \o report
           c5 == c4 \o given
           c6 == c5 \o extra
           c7 == c6 \o rules
           c8 == c7 \o last
<1>0. Command(env) = c8
  BY DEF Command, Extra
<1>1. Listed(exe) /\ Heads(exe) \cap Known = {}
  <2> DEFINE arg == <<Exe(env)>>
  <2>1. arg[1] \in {"gnatcheck", "gnatkp"}
    BY DEF WellWritten, Exe, Get
  <2> HIDE DEF arg
  <2>2. Listed(<<arg>>) /\ Heads(<<arg>>) = {arg[1]}
    BY OneHead
  <2>3. Heads(<<arg>>) \cap Known = {}
    BY <2>1, <2>2 DEF Known
  <2> QED  BY <2>2, <2>3 DEF arg
<1>2. Listed(quiet) /\ Heads(quiet) = IF Quiet(env) THEN {"-q"} ELSE {}
  BY IfHeads
<1>3. /\ Listed(target) /\ Once(target, "--target")
      /\ Heads(target) \subseteq {"--target", "--RTS"}
  BY TargetHeads
<1>4. /\ Listed(report)
      /\ Heads(report) \subseteq {"--brief", "-o", "-ox", "--sarif", "-xml", "-s"}
  BY ReportHeads
<1>5. /\ Listed(given) /\ Heads(given) \cap Known = {}
      /\ Listed(last) /\ Heads(last) \cap Known = {}
  BY GivenHeads
<1>6. Listed(extra)
  BY NoneListed DEF Extra, Get, WellWritten, Lists, Listed
<1>7. Listed(rules) /\ Heads(rules) \cap Known = {}
  <2> DEFINE arg == <<"-rules">>
  <2>1. arg[1] = "-rules"
    OBVIOUS
  <2> HIDE DEF arg
  <2>2. Listed(<<arg>>) /\ Heads(<<arg>>) = {"-rules"}
    BY <2>1, OneHead
  <2>3. Heads(<<arg>>) \cap Known = {}
    BY <2>2 DEF Known
  <2> QED  BY <2>2, <2>3 DEF arg
<1> HIDE DEF exe, quiet, target, report, given, extra, rules, last
<1>8. Listed(c2) /\ Heads(c2) = Heads(exe) \cup Heads(quiet)
  BY <1>1, <1>2, CatHeads
<1> HIDE DEF c2
<1>9. Listed(c3) /\ Heads(c3) = Heads(c2) \cup Heads(target)
  BY <1>8, <1>3, CatHeads
<1> HIDE DEF c3
<1>10. Listed(c4) /\ Heads(c4) = Heads(c3) \cup Heads(report)
  BY <1>9, <1>4, CatHeads
<1> HIDE DEF c4
<1>11. Listed(c5) /\ Heads(c5) = Heads(c4) \cup Heads(given)
  BY <1>10, <1>5, CatHeads
<1> HIDE DEF c5
<1>12. Listed(c6) /\ Heads(c6) = Heads(c5) \cup Heads(extra)
  BY <1>11, <1>6, CatHeads
<1> HIDE DEF c6
<1>13. Listed(c7) /\ Heads(c7) = Heads(c6) \cup Heads(rules)
  BY <1>12, <1>7, CatHeads
<1> HIDE DEF c7
<1>14. Listed(c8) /\ Heads(c8) = Heads(c7) \cup Heads(last)
  BY <1>13, <1>5, CatHeads
<1> HIDE DEF c8
<1>15. Heads(c8) \cap Known = Heads(quiet) \cup Heads(target)
                              \cup Heads(report) \cup (Heads(extra) \cap Known)
  <2>1. Heads(quiet) \subseteq Known /\ Heads(target) \subseteq Known /\ Heads(report) \subseteq Known
    BY <1>2, <1>3, <1>4 DEF Known
  <2>2. Heads(c8) = Heads(exe) \cup Heads(quiet) \cup Heads(target) \cup Heads(report)
                    \cup Heads(given) \cup Heads(extra) \cup Heads(rules) \cup Heads(last)
    BY <1>8, <1>9, <1>10, <1>11, <1>12, <1>13, <1>14
  <2> QED  BY <1>1, <1>5, <1>7, <2>1, <2>2
<1>16. ASSUME "--target" \notin Heads(extra) PROVE Once(c8, "--target")
  <2>1. /\ "--target" \notin Heads(exe) /\ "--target" \notin Heads(quiet)
        /\ "--target" \notin Heads(report) /\ "--target" \notin Heads(given)
        /\ "--target" \notin Heads(rules) /\ "--target" \notin Heads(last)
    BY <1>1, <1>2, <1>4, <1>5, <1>7 DEF Known
  <2>2. "--target" \notin Heads(c2)
    BY <1>8, <2>1
  <2>3. Once(c3, "--target")
    BY <1>3, <1>8, <2>2, NoneOnce, CatOnce DEF c3
  <2>4. Once(c4, "--target")
    BY <1>9, <1>4, <2>1, <2>3, NoneOnce, CatOnce DEF c4
  <2>5. Once(c5, "--target")
    BY <1>10, <1>5, <2>1, <2>4, NoneOnce, CatOnce DEF c5
  <2>6. Once(c6, "--target")
    BY <1>11, <1>6, <1>16, <2>5, NoneOnce, CatOnce DEF c6
  <2>7. Once(c7, "--target")
    BY <1>12, <1>7, <2>1, <2>6, NoneOnce, CatOnce DEF c7
  <2> QED  BY <1>13, <1>5, <2>1, <2>7, NoneOnce, CatOnce DEF c8
<1> QED  BY <1>0, <1>2, <1>14, <1>15, <1>16 DEF extra, target, report
-----------------------------------------------------------------------------
(* The runs of a test, the files that they write, what is shown and counted. *)

Runs(t) == test[t].runs

IsRun(env, run) ==
  /\ run.command = Command(env)
  /\ run.found \subseteq Kinds
  /\ run.wrote <=> run.ran /\ ReportsTo(env) # None
  /\ ~run.ran => run.found = {}

Made(t) == \A i \in 1..Len(Runs(t)) : IsRun(Subtests(t)[i], Runs(t)[i])

\* A file that a run has written holds what this run has found.
WrittenBy(file, run) ==
  /\ run.wrote
  /\ file.found = run.found
  /\ file.short = Has(run.command, "-s")
  /\ file.text = IF Has(run.command, "-ox") THEN "xml"
                 ELSE IF Has(run.command, "--sarif") THEN "sarif" ELSE "text"

Held(t) ==
  \A name \in DOMAIN Files(t) :
    LET file == Files(t)[name] IN
    file.kind = "file" /\ file.by # 0 =>
      file.by \in 1..Len(Runs(t)) /\ WrittenBy(file, Runs(t)[file.by])

Ever(t, op) == Says("running", op) \in Items(t, "running")
Writers(t, i, name) ==
  {j \in 1..i : Runs(t)[j].wrote /\ ReportsTo(Subtests(t)[j]) = name}
Latest(j, writers) == j \in writers /\ \A k \in writers : k <= j

\* What was written is there, unless a snippet has removed something.
Backed(t) ==
  \A j \in 1..Len(Runs(t)) : Runs(t)[j].wrote =>
    LET name == ReportsTo(Subtests(t)[j]) IN
    Ever(t, "rm") \/ (name \in DOMAIN Files(t) /\ Files(t)[name].kind = "file")

\* Without a link that a snippet has made, a file is of its latest writer, or it
\* came with the test.
Traced(t) ==
  ~Ever(t, "ln") => \A name \in DOMAIN Files(t) :
    LET writers == Writers(t, Len(Runs(t)), name) IN
    \/ Files(t)[name].kind = "dir"
    \/ writers = {} /\ name \in DOMAIN suite[t].files
    \/ Files(t)[name].kind = "file" /\ Latest(Files(t)[name].by, writers)

\* Between a run and the reading of its report, nothing has happened to it.
Fresh(t) ==
  test[t].pc = "report" =>
    LET run  == Runs(t)[test[t].sub]
        name == ReportsTo(Keys(t))
    IN  /\ ~options.perf
        /\ test[t].printed = Printed(run.command, run)
        /\ run.wrote => /\ name \in DOMAIN Files(t) /\ Files(t)[name].kind = "file"
                        /\ Files(t)[name].by = test[t].sub

\* The reports shown are of subtests that are over, or at their end.
Seen(t) ==
  /\ \A item \in Items(t, "report") :
       /\ item.sub \in 1..Len(Runs(t))
       /\ ~(test[t].pc = "report" /\ item.sub = test[t].sub)
  /\ \A item \in ToSet(test[t].captured) : item.what = "print"

\* What ReportAccounted says of a subtest.
Accounts(t, i) ==
  LET name    == ReportsTo(Subtests(t)[i])
      shown   == {item \in Items(t, "report") : item.sub = i}
      writers == Writers(t, i, name)
  IN  \/ /\ shown # {}
         /\ \/ Ever(t, "ln")
            \/ writers = {} /\ name \in DOMAIN suite[t].files
            \/ \A item \in shown : Latest(item.by, writers)
      \/ /\ shown = {}
         /\ Says("no report", i) \in Items(t, "no report")
         /\ writers = {} \/ Ever(t, "rm")

Accounted(t) ==
  \A i \in 1..Len(Runs(t)) :
    /\ ReportsTo(Subtests(t)[i]) # None
    /\ ~(test[t].pc \in {"report", "error"} /\ i = test[t].sub)
    => Accounts(t, i)

\* The tests that CountedOnce is about, and the runs counted so far.
Countable(t) ==
  /\ options.flags /\ ~options.perf /\ suite[t].driver = "gnatcheck"
  /\ \A i \in DOMAIN Subtests(t) :
       LET env == Subtests(t)[i] IN
       /\ Format(env) = "brief" \/ OutputFile(env) # None
       /\ Format(env) # "short" \/ Quiet(env)
       /\ "extra_args" \notin DOMAIN env
OwnShown(t) ==
  \A item \in Items(t, "report") : item.by = item.sub
Violating(t) ==
  {i \in 1..Len(Runs(t)) : /\ "violation" \in Runs(t)[i].found
                           /\ ~(test[t].pc = "report" /\ i = test[t].sub)}
Counting(t) ==
  Countable(t) /\ OwnShown(t) /\ test[t].pc # "error" =>
    Get(test[t].flagged, "violation", 0) = Cardinality(Violating(t))

Reported(t) ==
  /\ Made(t)   /\ Held(t) /\ Backed(t)    /\ Traced(t)
  /\ Fresh(t) /\ Seen(t) /\ Accounted(t) /\ Counting(t)

ReportInv == \A t \in Tests : Reported(t)

\* Where a step takes a test: it stays, fails, or is not about a report.
Passes(t) ==
  \/ test'[t].pc = test[t].pc /\ test'[t].sub = test[t].sub
  \/ test'[t].pc = "error" /\ test'[t].sub = test[t].sub
  \/ test[t].pc \notin {"report", "error"} /\ test'[t].pc \notin {"report", "error"}

\* Nothing new is said of the reports.
Quiets(t) ==
  /\ Items(t, "report")' = Items(t, "report")
  /\ \A what \in {"no report", "running"} : Items(t, what) \subseteq Items(t, what)'
  /\ \A item \in ToSet(test'[t].captured) : item.what = "print"

LEMMA RunsKept ==
  ASSUME NEW t \in Tests, UNCHANGED <<suite, options>>, test'[t].runs = test[t].runs, Made(t)
  PROVE  /\ Made(t)' /\ Subtests(t)' = Subtests(t) /\ Runs(t)' = Runs(t)
         /\ \A i, name : Writers(t, i, name)' = Writers(t, i, name)
<1>1. Subtests(t)' = Subtests(t)
  BY DEF Subtests
<1>2. Runs(t)' = Runs(t)
  BY DEF Runs
<1>3. \A env : Command(env)' = Command(env)
  BY DEF Command, TargetSwitches
<1>4. \A env, run : IsRun(env, run)' <=> IsRun(env, run)
  BY <1>3 DEF IsRun
<1>5. Made(t)'
  BY <1>1, <1>2, <1>4 DEF Made
<1>6. \A i, name : Writers(t, i, name)' = Writers(t, i, name)
  BY <1>1, <1>2 DEF Writers
<1> QED  BY <1>1, <1>2, <1>5, <1>6

LEMMA ShownKept ==
  ASSUME NEW t \in Tests, UNCHANGED <<suite, options>>, test'[t].runs = test[t].runs, Made(t),
         Seen(t), Accounted(t), Passes(t), Quiets(t)
  PROVE  Seen(t)' /\ Accounted(t)'
<1>1. /\ Subtests(t)' = Subtests(t) /\ Runs(t)' = Runs(t)
      /\ \A i, name : Writers(t, i, name)' = Writers(t, i, name)
  BY RunsKept
<1>2. Seen(t)'
  BY <1>1 DEF Seen, Passes, Quiets
<1>3. \A i : Accounts(t, i) => Accounts(t, i)'
  BY <1>1 DEF Accounts, Quiets, Ever
<1>4. \A i \in 1..Len(Runs(t)) :
        test[t].pc \in {"report", "error"} /\ i = test[t].sub
          => test'[t].pc \in {"report", "error"} /\ i = test'[t].sub
  BY DEF Passes
<1>5. Accounted(t)'
  BY <1>1, <1>3, <1>4 DEF Accounted
<1> QED  BY <1>2, <1>5

LEMMA CountKept ==
  ASSUME NEW t \in Tests, UNCHANGED <<suite, options>>, test'[t].runs = test[t].runs, Made(t),
         test'[t].flagged = test[t].flagged, Counting(t), Passes(t), Quiets(t)
  PROVE  Counting(t)'
<1>1. Subtests(t)' = Subtests(t) /\ Runs(t)' = Runs(t)
  BY RunsKept
<1>2. Countable(t)' = Countable(t) /\ OwnShown(t)' = OwnShown(t)
  BY <1>1 DEF Countable, OwnShown, Quiets
<1>3. CASE test'[t].pc = "error"
  BY <1>3 DEF Counting
<1>4. CASE test'[t].pc # "error"
  <2>1. Violating(t)' = Violating(t)
    BY <1>1, <1>4 DEF Violating, Passes
  <2>2. test[t].pc # "error"
    BY <1>4 DEF Passes
  <2> QED  BY <1>2, <2>1, <2>2 DEF Counting
<1> QED  BY <1>3, <1>4

LEMMA FilesKept ==
  ASSUME NEW t \in Tests, UNCHANGED <<suite, options>>, test'[t].runs = test[t].runs, Made(t),
         test'[t].files = test[t].files, Held(t), Backed(t), Traced(t), Quiets(t)
  PROVE  Held(t)' /\ Backed(t)' /\ Traced(t)'
<1>1. /\ Subtests(t)' = Subtests(t) /\ Runs(t)' = Runs(t)
      /\ \A i, name : Writers(t, i, name)' = Writers(t, i, name)
  BY RunsKept
<1>2. Files(t)' = Files(t)
  BY DEF Files
<1>3. \A op : Ever(t, op) => Ever(t, op)'
  BY DEF Ever, Quiets
<1>4. Held(t)'
  BY <1>1, <1>2 DEF Held
<1>5. Backed(t)'
  BY <1>1, <1>2, <1>3 DEF Backed
<1>6. Traced(t)'
  BY <1>1, <1>2, <1>3 DEF Traced
<1> QED  BY <1>4, <1>5, <1>6

LEMMA FreshKept ==
  ASSUME NEW t \in Tests, UNCHANGED <<suite, options>>, test'[t].runs = test[t].runs, Made(t),
         test'[t].files = test[t].files, test'[t].printed = test[t].printed,
         Fresh(t), Passes(t)
  PROVE  Fresh(t)'
<1>1. Subtests(t)' = Subtests(t) /\ Runs(t)' = Runs(t)
  BY RunsKept
<1>2. Files(t)' = Files(t)
  BY DEF Files
<1>3. CASE test'[t].pc # "report"
  BY <1>3 DEF Fresh
<1>4. CASE test'[t].pc = "report"
  <2>1. test[t].pc = "report" /\ test'[t].sub = test[t].sub
    BY <1>4 DEF Passes
  <2>2. Keys(t)' = Keys(t)
    BY <1>1, <2>1 DEF Keys
  <2> QED  BY <1>1, <1>2, <2>1, <2>2 DEF Fresh
<1> QED  BY <1>3, <1>4

\* A step that leaves the runs, the files and the counts as they are.
LEMMA PassesReported ==
  ASSUME NEW t \in Tests, UNCHANGED <<suite, options>>, test'[t].runs = test[t].runs,
         test'[t].files = test[t].files, test'[t].printed = test[t].printed,
         test'[t].flagged = test[t].flagged, Reported(t), Passes(t), Quiets(t)
  PROVE  Reported(t)'
BY RunsKept, ShownKept, CountKept, FilesKept, FreshKept DEF Reported

LEMMA QuietOutput ==
  ASSUME NEW t \in Tests, ToSet(test[t].output) \subseteq ToSet(test'[t].output),
         \A item \in ToSet(test'[t].output) \ ToSet(test[t].output) : item.what # "report",
         \A item \in ToSet(test'[t].captured) : item.what = "print"
  PROVE  Quiets(t)
<1>1. \A what : Items(t, what)' = {item \in ToSet(test'[t].output) : item.what = what}
  BY DEF Items, ToSet
<1>2. \A what : Items(t, what) = {item \in ToSet(test[t].output) : item.what = what}
  BY ItemsAre
<1> QED  BY <1>1, <1>2 DEF Quiets

LEMMA SameQuiet ==
  ASSUME NEW t \in Tests, Seen(t), test'[t].output = test[t].output,
         test'[t].captured = test[t].captured
  PROVE  Quiets(t)
BY QuietOutput DEF Seen

\* A test that a step of another leaves alone.
LEMMA OtherReported ==
  ASSUME NEW u \in Tests, UNCHANGED <<suite, options>>, Reported(u), test'[u] = test[u]
  PROVE  Reported(u)'
<1>1. Quiets(u)
  BY SameQuiet DEF Reported
<1>2. Passes(u)
  BY DEF Passes
<1> QED  BY <1>1, <1>2, PassesReported

\* A step that changes the place of its test, and what a snippet has printed.
LEMMA MovesReported ==
  ASSUME NEW t \in Tests, NEW changed, Keeps(t, changed), Typed(t), Reported(t),
         UNCHANGED <<suite, options>>,
         changed \cap {"runs", "files", "printed", "flagged"} = {},
         "captured" \in changed => test'[t].captured = <<>>,
         "output" \in changed => \E more :
           test'[t].output = test[t].output \o more
             /\ (more = <<>> \/ more = test[t].captured),
         Passes(t)
  PROVE  Reported(t)'
<1>1. /\ test'[t].runs = test[t].runs /\ test'[t].files = test[t].files
      /\ test'[t].printed = test[t].printed /\ test'[t].flagged = test[t].flagged
  BY FieldsAre DEF Keeps
<1>2. \A item \in ToSet(test'[t].captured) : item.what = "print"
  BY FieldsAre, NoneListed DEF Keeps, Seen, Reported
<1>3. /\ ToSet(test[t].output) \subseteq ToSet(test'[t].output)
      /\ ToSet(test'[t].output) \subseteq ToSet(test[t].output) \cup ToSet(test[t].captured)
  <2>1. CASE "output" \notin changed
    BY <2>1, FieldsAre DEF Keeps
  <2>2. CASE "output" \in changed
    <3>1. PICK more : test'[t].output = test[t].output \o more
                        /\ (more = <<>> \/ more = test[t].captured)
      BY <2>2
    <3>2. Listed(more) /\ ToSet(more) \subseteq ToSet(test[t].captured)
      BY <3>1, NoneListed DEF Typed, Saved
    <3> QED  BY <3>1, <3>2, CatListed DEF Typed, Saved
  <2> QED  BY <2>1, <2>2
<1>4. Quiets(t)
  BY <1>2, <1>3, QuietOutput DEF Seen, Reported
<1> QED  BY <1>1, <1>4, PassesReported

LEMMA PrintReported ==
  ASSUME NEW t \in Tests, NEW u \in Tests, Shaped, Typed(u), Reported(u), PrintOut(t)
  PROVE  Reported(u)'
<1>1. /\ \A f \in Fields \ {"todo", "captured"} : test'[u][f] = test[u][f]
      /\ test'[u].captured =
           IF stdout = Buffer(u)
           THEN Append(test[u].captured, [what |-> "print", by |-> t, in |-> cwd])
           ELSE test[u].captured
      /\ UNCHANGED Fixed
  BY PrintFacts
<1>2. \A item \in ToSet(test'[u].captured) : item.what = "print"
  <2> DEFINE text == [what |-> "print", by |-> t, in |-> cwd]
  <2>1. text.what = "print"
    OBVIOUS
  <2> HIDE DEF text
  <2>5. Listed(test[u].captured)
    BY DEF Typed, Saved
  <2>2. Append(test[u].captured, text) = test[u].captured \o <<text>>
    BY <2>5, AppendListed
  <2>3. ToSet(Append(test[u].captured, text)) = ToSet(test[u].captured) \cup {text}
    BY <2>2, <2>5, OneListed, CatListed
  <2>4. \A item \in ToSet(test[u].captured) : item.what = "print"
    BY DEF Reported, Seen
  <2> QED  BY <1>1, <2>1, <2>3, <2>4 DEF text
<1>3. Quiets(u) /\ Passes(u)
  BY <1>1, <1>2, FieldsAre, QuietOutput DEF Passes
<1> QED  BY <1>1, <1>3, FieldsAre, PassesReported DEF Fixed

\* What a helper may have done to a name: it is gone, or new, or as it was but
\* for its line endings.
Touched(t, op, files) ==
  /\ \A name \in DOMAIN Files(t) : name \notin DOMAIN files => op = "rm"
  /\ \A name \in DOMAIN files :
       \/ files[name].kind = "link" /\ op = "ln"
       \/ files[name].kind = "dir"
       \/ /\ name \in DOMAIN Files(t)
          /\ files[name].kind = Files(t)[name].kind
          /\ files[name].kind = "file" =>
               /\ files[name].by = Files(t)[name].by
               /\ files[name].found = Files(t)[name].found
               /\ files[name].short = Files(t)[name].short
               /\ files[name].text = Files(t)[name].text
  \* A file stays one where it is not removed.
  /\ \A name \in DOMAIN Files(t) :
       Files(t)[name].kind = "file" /\ name \in DOMAIN files => files[name].kind = "file"

LEMMA HelperTouches ==
  ASSUME NEW t \in Tests, Filed(t), NEW op, NEW files, HelperFiles(t, op, files)
  PROVE  Touched(t, op, files)
<1>1. CASE files = Files(t)
  BY <1>1 DEF Touched
<1>2. ASSUME op \in {"mkdir", "ln"}, NEW name, NEW content,
             \/ KindOf(t, name) = "missing" /\ ~IsLink(t, name)
             \/ name \notin DOMAIN Files(t),
             content.kind = IF op = "ln" THEN "link" ELSE "dir",
             files = Written(Files(t), name, content)
      PROVE  Touched(t, op, files)
  <2>1. /\ DOMAIN files = DOMAIN Files(t) \cup {name}
        /\ \A n \in DOMAIN files : files[n] = IF n = name THEN content ELSE Files(t)[n]
    BY <1>2 DEF Written, Merge
  <2>2. name \in DOMAIN Files(t) => Files(t)[name].kind # "file"
    BY <1>2 DEF KindOf, IsLink
  <2> QED  BY <1>2, <2>1, <2>2 DEF Touched
<1>3. ASSUME op = "rm", NEW name, files = Without(Files(t), name)
      PROVE  Touched(t, op, files)
  BY <1>3 DEF Touched, Without
<1>4. ASSUME NEW name, NEW added \in {0, 1}, KindOf(t, name) = "file",
             files = [Files(t) EXCEPT ![Real(t, name)].crs = @ + added]
      PROVE  Touched(t, op, files)
  <2> DEFINE real == Real(t, name)
  <2>1. real \in DOMAIN Files(t) /\ Files(t)[real].kind = "file" /\ Files(t)[real] \in FilesOf(Nat)
    BY <1>4, RealFile DEF Filed
  <2> HIDE DEF real
  <2>2. /\ DOMAIN files = DOMAIN Files(t)
        /\ \A n \in DOMAIN files \ {real} : files[n] = Files(t)[n]
        /\ files[real] = [Files(t)[real] EXCEPT !.crs = @ + added]
    BY <1>4, <2>1 DEF real
  <2>3. /\ files[real].kind = "file" /\ files[real].by = Files(t)[real].by
        /\ files[real].found = Files(t)[real].found /\ files[real].short = Files(t)[real].short
        /\ files[real].text = Files(t)[real].text
    BY <2>1, <2>2 DEF FilesOf
  <2> QED  BY <2>1, <2>2, <2>3 DEF Touched
<1> QED  BY <1>1, <1>2, <1>3, <1>4 DEF HelperFiles

LEMMA HelpsReported ==
  ASSUME NEW t \in Tests, Shaped, Typed(t), Reported(t), UNCHANGED <<suite, options>>,
         NEW op, op = Head(test[t].todo).op, Helps(t, op), test[t].pc = "body"
  PROVE  Reported(t)'
<1>0. Listed(test[t].output)
  BY DEF Typed, Saved
<1>1. /\ Keeps(t, {"todo", "files", "output"})
      /\ HelperFiles(t, op, test'[t].files)
      /\ Listed(test'[t].output)
      /\ \/ ToSet(test'[t].output) = ToSet(test[t].output) \cup {Says("running", op)}
         \/ \E what \in Remarks : \E name :
              ToSet(test'[t].output)
                = ToSet(test[t].output) \cup {Says("running", op), Says(what, name)}
  BY <1>0, HelperOutput
<1>2. /\ test'[t].pc = "body" /\ test'[t].sub = test[t].sub /\ test'[t].runs = test[t].runs
      /\ test'[t].flagged = test[t].flagged /\ test'[t].captured = test[t].captured
  BY <1>1, FieldsAre DEF Keeps
<1>3. Touched(t, op, Files(t)')
  BY <1>1, HelperTouches DEF Typed, Files
<1>4. Ever(t, op)' /\ \A o : Ever(t, o) => Ever(t, o)'
  <2>1. Says("running", op) \in ToSet(test'[t].output)
        /\ ToSet(test[t].output) \subseteq ToSet(test'[t].output)
    BY <1>1
  <2>2. \A what : Items(t, what)' = {item \in ToSet(test'[t].output) : item.what = what}
    BY DEF Items, ToSet
  <2> QED  BY <2>1, <2>2, ItemsAre DEF Ever, Says
<1>5. Quiets(t)
  <2>1. \A what \in Remarks : \A name : Says(what, name).what # "report"
    BY DEF Says, Remarks
  <2>2. Says("running", op).what # "report"
    BY DEF Says
  <2> QED  BY <1>1, <1>2, <2>1, <2>2, QuietOutput DEF Reported, Seen
<1>6. Passes(t)
  BY <1>2 DEF Passes
<1>7. /\ Made(t)' /\ Subtests(t)' = Subtests(t) /\ Runs(t)' = Runs(t)
      /\ \A i, name : Writers(t, i, name)' = Writers(t, i, name)
  BY <1>2, RunsKept DEF Reported
<1>8. Seen(t)' /\ Accounted(t)' /\ Counting(t)' /\ Fresh(t)'
  BY <1>2, <1>5, <1>6, ShownKept, CountKept DEF Reported, Fresh
<1>9. Held(t)'
  BY <1>3, <1>7 DEF Reported, Held, Touched, WrittenBy
<1>10. Backed(t)'
  BY <1>3, <1>4, <1>7 DEF Reported, Backed, Touched
<1>11. Traced(t)'
  BY <1>3, <1>4, <1>7 DEF Reported, Traced, Touched
<1> QED  BY <1>7, <1>8, <1>9, <1>10, <1>11 DEF Reported

LEMMA AppendIs ==
  ASSUME NEW s, Listed(s), NEW x
  PROVE  /\ Len(s) \in Nat /\ Len(Append(s, x)) = Len(s) + 1
         /\ \A i \in 1..Len(s) : Append(s, x)[i] = s[i]
         /\ Append(s, x)[Len(s) + 1] = x
<1> DEFINE S == ToSet(s) \cup {x}
<1>1. s \in Seq(S) /\ x \in S
  BY DEF Listed
<1> HIDE DEF S
<1> QED  BY <1>1

LEMMA RunIs ==
  ASSUME NEW env, NEW writes,
         NEW result \in {Refused} \cup {Result(Command(env), found) : found \in Findings},
         writes = (result.ran /\ ReportsTo(env) # None)
  PROVE  LET run == Merge(result, [wrote |-> writes, command |-> Command(env)])
         IN  /\ IsRun(env, run)
             /\ run.found = result.found /\ run.wrote = writes /\ run.command = Command(env)
<1> DEFINE command == Command(env)
           more == [wrote |-> writes, command |-> command]
           run == Merge(result, more)
<1>1. DOMAIN result = {"ran", "found", "status"}
  BY DEF Refused, Result
<1>2. /\ DOMAIN more = {"wrote", "command"} /\ more.wrote = writes /\ more.command = command
  OBVIOUS
<1>3. result.ran \in BOOLEAN /\ (~result.ran => result.found = {})
  <2>1. CASE result = Refused
    BY <2>1 DEF Refused
  <2>2. ASSUME NEW found, result = Result(command, found) PROVE result.ran = TRUE
    BY <2>2 DEF Result
  <2> QED  BY <2>1, <2>2
<1>4. result.found \subseteq Kinds
  BY ResultKinds
<1> HIDE DEF more
<1>5. /\ run.ran = result.ran /\ run.found = result.found
      /\ run.wrote = writes /\ run.command = command
  BY <1>1, <1>2 DEF Merge
<1> QED  BY <1>3, <1>4, <1>5 DEF IsRun, more

LEMMA RunReported ==
  ASSUME NEW t \in Tests, Shaped, WellMade(suite[t]), Typed(t), Reported(t),
         RunGnatcheck(t)
  PROVE  Reported(t)'
<1> DEFINE env     == Keys(t)
           command == Command(env)
           name    == ReportsTo(env)
           s       == test[t].sub
<1>1. PICK result \in {Refused} \cup {Result(command, found) : found \in Findings},
           label \in {<<>>, <<Says("label", s)>>} :
        LET writes == result.ran /\ name # None
        IN  /\ test'[t].runs = Append(Runs(t),
                 Merge(result, [wrote |-> writes, command |-> command]))
            /\ test'[t].printed = Printed(command, result)
            /\ test'[t].files = IF writes
                 THEN Written(Files(t), name, Report(t, command, result)) ELSE Files(t)
            /\ test'[t].output = test[t].output \o label
  BY RunFacts DEF Runs
<1>2. /\ Keeps(t, {"pc", "printed", "runs", "files", "output"})
      /\ test[t].pc = "run" /\ ~options.perf /\ test'[t].pc = "report"
      /\ UNCHANGED <<suite, options>>
  BY RunFacts DEF Fixed
<1> DEFINE writes == result.ran /\ name # None
           run == Merge(result, [wrote |-> writes, command |-> command])
           report == Report(t, command, result)
<1>3. /\ IsRun(env, run) /\ run.found = result.found
      /\ run.wrote = writes /\ run.command = command
  BY RunIs
<1>4. writes => report.kind = "file" /\ report.by = s /\ WrittenBy(report, run)
  BY <1>3 DEF Report, WrittenBy
<1>5. Printed(command, result) = Printed(run.command, run)
  BY <1>3 DEF Printed
<1>6. /\ Listed(Runs(t)) /\ s \in Nat /\ s >= 1 /\ Len(Runs(t)) = s - 1
  <2>1. s \in DOMAIN Subtests(t) /\ DOMAIN Subtests(t) = 1..Len(Subtests(t))
    BY SubtestsListed DEF Typed, Placed
  <2>2. suite[t].driver # "checker"
    BY <1>2 DEF Typed, Placed
  <2> QED  BY <1>2, <2>1, <2>2 DEF Typed, Counted, Runs, Ran
<1>7. Subtests(t)' = Subtests(t) /\ test'[t].sub = s /\ Keys(t)' = env
  <2>1. test'[t].sub = s
    BY <1>2, FieldsAre DEF Keeps
  <2> QED  BY <1>2, <2>1 DEF Subtests, Keys
<1>8. Subtests(t)[s] = env
  BY DEF Keys
<1> HIDE DEF run, report, writes, env, command, name
<1>9. /\ Len(Runs(t)') = s /\ Runs(t)'[s] = run
      /\ \A i \in 1..(s - 1) : Runs(t)'[i] = Runs(t)[i]
  BY <1>1, <1>6, AppendIs DEF Runs, run, command, env, writes, name
<1>10. /\ Files(t)' = IF writes THEN Written(Files(t), name, report) ELSE Files(t)
       /\ test'[t].output = test[t].output \o label
       /\ test'[t].printed = Printed(run.command, run)
  BY <1>1, <1>5 DEF Files, writes, report, command, env, name
<1>11. /\ DOMAIN Files(t)' = DOMAIN Files(t) \cup (IF writes THEN {name} ELSE {})
       /\ \A n \in DOMAIN Files(t)' :
            Files(t)'[n] = IF writes /\ n = name THEN report ELSE Files(t)[n]
  BY <1>10 DEF Written, Merge
<1>12. Quiets(t) /\ test'[t].captured = test[t].captured
  <2>1. Listed(label) /\ ToSet(label) \subseteq {Says("label", s)}
    BY NoneListed, OneListed
  <2>2. ToSet(test'[t].output) = ToSet(test[t].output) \cup ToSet(label)
    BY <1>10, <2>1, CatListed DEF Typed, Saved
  <2>3. test'[t].captured = test[t].captured
    BY <1>2, FieldsAre DEF Keeps
  <2>4. Says("label", s).what # "report"
    BY DEF Says
  <2> QED  BY <2>1, <2>2, <2>3, <2>4, QuietOutput DEF Reported, Seen
<1>13. \A o : Ever(t, o) => Ever(t, o)'
  BY <1>12 DEF Ever, Quiets
<1>14. \A j \in 1..s : j = s \/ j \in 1..(s - 1)
  BY <1>6
<1>15. Made(t)'
  <2>1. \A e : Command(e)' = Command(e)
    BY <1>2 DEF Command, TargetSwitches
  <2>2. \A e, r : IsRun(e, r)' <=> IsRun(e, r)
    BY <2>1 DEF IsRun
  <2>3. ASSUME NEW i \in 1..s PROVE IsRun(Subtests(t)[i], Runs(t)'[i])
    <3>1. CASE i = s
      BY <1>3, <1>8, <1>9, <3>1 DEF env, run, command, writes, name
    <3>2. CASE i \in 1..(s - 1)
      BY <1>6, <1>9, <3>2 DEF Reported, Made
    <3> QED  BY <1>14, <3>1, <3>2
  <2> QED  BY <1>7, <1>9, <2>2, <2>3 DEF Made
<1>16. Held(t)'
  <2> SUFFICES ASSUME NEW n \in DOMAIN Files(t)', Files(t)'[n].kind = "file",
                      Files(t)'[n].by # 0
               PROVE  /\ Files(t)'[n].by \in 1..s
                      /\ WrittenBy(Files(t)'[n], Runs(t)'[Files(t)'[n].by])
    BY <1>9 DEF Held
  <2>1. CASE writes /\ n = name
    <3>1. Files(t)'[n] = report
      BY <1>11, <2>1
    <3>2. report.by = s /\ WrittenBy(report, run)
      BY <1>4, <2>1 DEF report, run, env, command, writes, name
    <3> QED  BY <1>6, <1>9, <3>1, <3>2
  <2>2. CASE ~(writes /\ n = name)
    <3>1. n \in DOMAIN Files(t) /\ Files(t)'[n] = Files(t)[n]
      BY <1>11, <2>2
    <3>2. Files(t)[n].by \in 1..(s - 1) /\ WrittenBy(Files(t)[n], Runs(t)[Files(t)[n].by])
      BY <1>6, <3>1 DEF Reported, Held
    <3> QED  BY <1>6, <1>9, <3>1, <3>2
  <2> QED  BY <2>1, <2>2
<1>17. Backed(t)'
  <2> SUFFICES ASSUME NEW j \in 1..s, Runs(t)'[j].wrote, ~Ever(t, "rm")'
               PROVE  LET n == ReportsTo(Subtests(t)[j]) IN
                      n \in DOMAIN Files(t)' /\ Files(t)'[n].kind = "file"
    BY <1>7, <1>9 DEF Backed
  <2>1. writes => report.kind = "file"
    BY DEF report, Report
  <2>2. CASE j = s
    BY <1>3, <1>8, <1>9, <1>11, <2>1, <2>2 DEF run, name, writes, env, command
  <2>3. CASE j \in 1..(s - 1)
    <3> DEFINE n == ReportsTo(Subtests(t)[j])
    <3>1. n \in DOMAIN Files(t) /\ Files(t)[n].kind = "file"
      BY <1>6, <1>9, <1>13, <2>3 DEF Reported, Backed
    <3> HIDE DEF n
    <3>2. n \in DOMAIN Files(t)' /\ Files(t)'[n].kind = "file"
      BY <1>11, <2>1, <3>1
    <3> QED  BY <3>2 DEF n
  <2> QED  BY <1>14, <2>2, <2>3
<1>18. \A n : Writers(t, s, n)' = Writers(t, s - 1, n) \cup (IF writes /\ n = name THEN {s} ELSE {})
  <2> TAKE n
  <2>1. run.wrote = writes
    BY <1>3 DEF run, writes, env, command, name
  <2>2. ReportsTo(Subtests(t)[s]) = name
    BY <1>8 DEF name
  <2> QED  BY <1>6, <1>7, <1>9, <1>14, <2>1, <2>2 DEF Writers
<1>19. \A i \in 1..(s - 1) : \A n : Writers(t, i, n)' = Writers(t, i, n)
  BY <1>6, <1>7, <1>9 DEF Writers
<1>20. Traced(t)'
  <2> SUFFICES ASSUME ~Ever(t, "ln")', NEW n \in DOMAIN Files(t)'
               PROVE  \/ Files(t)'[n].kind = "dir"
                      \/ Writers(t, s, n)' = {} /\ n \in DOMAIN suite[t].files
                      \/ Files(t)'[n].kind = "file" /\ Latest(Files(t)'[n].by, Writers(t, s, n)')
    <3> DEFINE traced(n, writers) ==
          \/ Files(t)'[n].kind = "dir"
          \/ writers = {} /\ n \in DOMAIN suite[t].files
          \/ Files(t)'[n].kind = "file" /\ Latest(Files(t)'[n].by, writers)
    <3>1. \A n : Writers(t, Len(Runs(t)), n)' = Writers(t, s, n)'
      BY <1>7, <1>9 DEF Writers
    <3>2. suite'[t].files = suite[t].files
      BY <1>2
    <3> QED  BY <3>1, <3>2 DEF Traced
  <2>1. CASE writes /\ n = name
    <3>1. Files(t)'[n] = report /\ report.kind = "file" /\ report.by = s
      BY <1>11, <2>1 DEF report, Report
    <3>2. \A k \in Writers(t, s - 1, n) : k <= s
      BY <1>6 DEF Writers
    <3>3. Latest(s, Writers(t, s, n)')
      BY <1>6, <1>18, <2>1, <3>2 DEF Latest
    <3> QED  BY <3>1, <3>3
  <2>2. CASE ~(writes /\ n = name)
    <3>1. n \in DOMAIN Files(t) /\ Files(t)'[n] = Files(t)[n]
      BY <1>11, <2>2
    <3>2. Writers(t, s, n)' = Writers(t, s - 1, n)
      BY <1>18, <2>2
    <3> QED  BY <1>6, <1>13, <3>1, <3>2 DEF Reported, Traced
  <2> QED  BY <2>1, <2>2
<1>21. Fresh(t)'
  <2>1. run.wrote => name \in DOMAIN Files(t)' /\ Files(t)'[name].kind = "file"
                     /\ Files(t)'[name].by = s
    <3>1. run.wrote = writes
      BY <1>3 DEF run, name, writes, env, command
    <3>2. report.kind = "file" /\ report.by = s
      BY DEF report, Report
    <3> QED  BY <1>11, <3>1, <3>2
  <2> QED  BY <1>2, <1>7, <1>9, <1>10, <2>1 DEF Fresh, name
<1>22. Seen(t)'
  <2>1. \A item \in Items(t, "report") : item.sub \in 1..(s - 1)
    BY <1>6 DEF Reported, Seen
  <2>2. \A item \in Items(t, "report") : item.sub \in 1..s /\ item.sub # s
    BY <1>6, <2>1
  <2> QED  BY <1>7, <1>9, <1>12, <2>2 DEF Seen, Quiets
<1>23. Accounted(t)'
  <2>1. ASSUME NEW i \in 1..(s - 1), ReportsTo(Subtests(t)[i]) # None
        PROVE  Accounts(t, i)'
    <3>1. Accounts(t, i)
      BY <1>2, <1>6, <2>1 DEF Reported, Accounted
    <3>2. \A n : Writers(t, i, n)' = Writers(t, i, n)
      BY <1>19
    <3> QED  BY <1>2, <1>7, <1>12, <1>13, <3>1, <3>2 DEF Accounts, Quiets
  <2> QED  BY <1>2, <1>7, <1>9, <1>14, <2>1 DEF Accounted
<1>24. Counting(t)'
  <2>1. Violating(t)' = Violating(t)
    BY <1>2, <1>6, <1>7, <1>9, <1>14 DEF Violating
  <2>2. Countable(t)' = Countable(t) /\ OwnShown(t)' = OwnShown(t)
    BY <1>2, <1>7, <1>12 DEF Countable, OwnShown, Quiets
  <2>3. test'[t].flagged = test[t].flagged
    BY <1>2, FieldsAre DEF Keeps
  <2> QED  BY <1>2, <2>1, <2>2, <2>3 DEF Reported, Counting
<1> QED  BY <1>15, <1>16, <1>17, <1>20, <1>21, <1>22, <1>23, <1>24 DEF Reported

LEMMA SubtestsWritten ==
  ASSUME NEW t \in Tests, WellMade(suite[t]), NEW i \in DOMAIN Subtests(t)
  PROVE  WellWritten(Subtests(t)[i])
<1> DEFINE tests == suite[t].tests
           top   == suite[t].top
<1>1. CASE tests = <<>>
  <2>1. Subtests(t) = <<top>> /\ i = 1
    BY <1>1 DEF Subtests
  <2> QED  BY <2>1 DEF WellMade
<1>2. CASE tests # <<>>
  <2>1. i \in DOMAIN tests /\ Subtests(t)[i] = Merge(tests[i], top)
    BY <1>2 DEF Subtests
  <2>2. WellWritten(tests[i]) /\ WellWritten(top)
    BY <2>1 DEF WellMade, ToSet
  <2> DEFINE env == Merge(tests[i], top)
  <2>3. \A key \in DOMAIN env :
          \/ key \in DOMAIN tests[i] /\ env[key] = tests[i][key]
          \/ key \in DOMAIN top /\ env[key] = top[key]
    BY DEF Merge
  <2> HIDE DEF env, top, tests
  <2>4. WellWritten(env)
    BY <2>2, <2>3 DEF WellWritten
  <2> QED  BY <2>1, <2>4 DEF env
<1> QED  BY <1>1, <1>2

LEMMA PlainSwitches ==
  ASSUME NEW env, WellWritten(env), "extra_args" \notin DOMAIN env
  PROVE  LET c == Command(env) IN
         /\ Has(c, "-q") <=> Quiet(env)
         /\ Has(c, "--brief") <=> (Format(env) = "brief" /\ Quiet(env))
         /\ Has(c, "-s") <=> Format(env) = "short"
         /\ Has(c, "-ox") <=> Asked(env, {"xml"})
         /\ Has(c, "--sarif") <=> Asked(env, {"sarif"})
<1> DEFINE heads == Heads(Command(env))
<1>1. Extra(env) = <<>>
  BY DEF Extra, Get
<1>2. Heads(Extra(env)) = {}
  BY <1>1, NoHead
<1>3. Heads(TargetSwitches(env)) \subseteq {"--target", "--RTS"}
  BY TargetHeads
<1>4. heads \cap Known = (IF Quiet(env) THEN {"-q"} ELSE {}) \cup Heads(TargetSwitches(env))
                         \cup Heads(ReportSwitches(env))
  BY <1>2, CommandHeads
<1> HIDE DEF heads
<1>5. /\ "-q" \in heads <=> Quiet(env)
      /\ "--brief" \in heads <=> "--brief" \in Heads(ReportSwitches(env))
      /\ "-s" \in heads <=> "-s" \in Heads(ReportSwitches(env))
      /\ "-ox" \in heads <=> "-ox" \in Heads(ReportSwitches(env))
      /\ "--sarif" \in heads <=> "--sarif" \in Heads(ReportSwitches(env))
  <2>1. "-q" \notin Heads(ReportSwitches(env))
    BY ReportHeads
  <2> QED  BY <1>3, <1>4, <2>1 DEF Known
<1>6. /\ "--brief" \in Heads(ReportSwitches(env)) <=> (Format(env) = "brief" /\ Quiet(env))
      /\ "-s" \in Heads(ReportSwitches(env)) <=> Format(env) = "short"
      /\ "-ox" \in Heads(ReportSwitches(env)) <=> Asked(env, {"xml"})
      /\ "--sarif" \in Heads(ReportSwitches(env)) <=> Asked(env, {"sarif"})
  BY ReportHeads
<1> QED  BY <1>5, <1>6, HasHeads DEF heads

\* Counts in bags.
LEMMA SetCount ==
  ASSUME NEW S, NEW x
  PROVE  Get(SetToBag(S), x, 0) = IF x \in S THEN 1 ELSE 0
BY DEF Get, SetToBag

LEMMA SumCount ==
  ASSUME NEW a, NEW b, NEW x, Get(a, x, 0) \in Nat, Get(b, x, 0) \in Nat
  PROVE  Get(a (+) b, x, 0) = Get(a, x, 0) + Get(b, x, 0)
BY DEF Get, (+)

\* What the run of a subtest, read once, adds to the count.
LEMMA TaggedOnce ==
  ASSUME NEW env, WellWritten(env), "extra_args" \notin DOMAIN env,
         Format(env) \in Formats, Format(env) = "short" => Quiet(env),
         Format(env) = "brief" \/ OutputFile(env) # None,
         NEW run, IsRun(env, run), NEW content,
         \/ Format(env) = "brief" /\ content = None
         \/ Format(env) # "brief" /\ WrittenBy(content, run)
  PROVE  Get(Tagged(Format(env), Printed(run.command, run), content), "violation", 0)
           = IF "violation" \in run.found THEN 1 ELSE 0
<1> DEFINE c == Command(env)
           printed1 == Printed(run.command, run)
<1>1. run.command = c
  BY DEF IsRun
<1>2. /\ Has(c, "-q") <=> Quiet(env)
      /\ Has(c, "--brief") <=> (Format(env) = "brief" /\ Quiet(env))
      /\ Has(c, "-s") <=> Format(env) = "short"
      /\ Has(c, "-ox") <=> Asked(env, {"xml"})
      /\ Has(c, "--sarif") <=> Asked(env, {"sarif"})
  BY PlainSwitches
<1> HIDE DEF c
<1>3. CASE Format(env) = "brief"
  <2>1. printed1 = run.found \ {"exempted"}
    BY <1>1, <1>2, <1>3 DEF Printed
  <2>2. Tagged(Format(env), printed1, content) = SetToBag(printed1)
    BY <1>3 DEF Tagged
  <2> QED  BY <2>1, <2>2, SetCount
<1>4. CASE Format(env) # "brief"
  <2>1. /\ content.found = run.found
        /\ content.short = (Format(env) = "short")
        /\ content.text = IF Format(env) = "xml" THEN "xml"
                          ELSE IF Format(env) = "sarif" THEN "sarif" ELSE "text"
    BY <1>1, <1>2, <1>4 DEF WrittenBy, Asked, Has
  <2>2. CASE Format(env) = "short"
    <3> DEFINE more == IF content.text = "text" THEN content.found \ {"exempted"} ELSE {}
    <3>1. printed1 = {}
      BY <1>1, <1>2, <2>2 DEF Printed
    <3>2. Tagged(Format(env), printed1, content) = SetToBag(printed1) (+) SetToBag(more)
      BY <2>2 DEF Tagged
    <3>3. "violation" \in more <=> "violation" \in run.found
      BY <2>1, <2>2
    <3> HIDE DEF printed1, more
    <3>4. /\ Get(SetToBag(printed1), "violation", 0) = 0
          /\ Get(SetToBag(more), "violation", 0) = IF "violation" \in run.found THEN 1 ELSE 0
      BY <3>1, <3>3, SetCount
    <3>5. Get(SetToBag(printed1) (+) SetToBag(more), "violation", 0)
            = Get(SetToBag(printed1), "violation", 0) + Get(SetToBag(more), "violation", 0)
      BY <3>4, SumCount
    <3> QED  BY <3>2, <3>4, <3>5 DEF printed1
  <2>3. CASE Format(env) = "full"
    BY <2>1, <2>3, SetCount DEF Tagged
  <2>4. CASE Format(env) = "xml"
    BY <2>1, <2>4, SetCount DEF Tagged
  <2>5. CASE Format(env) = "sarif"
    BY <2>1, <2>5, SetCount DEF Tagged
  <2> QED  BY <1>4, <2>2, <2>3, <2>4, <2>5 DEF Formats
<1> QED  BY <1>3, <1>4

\* A list that has grown by a report, or by other items.
LEMMA ItemsGrow ==
  ASSUME NEW out, NEW new, NEW lost, NEW item, NEW status, NEW content, NEW none,
         new \subseteq out \cup {lost} \cup {item} \cup {status}, out \subseteq new,
         content # none => item \in new, item \in new \ out => content # none,
         item.what = "report", lost.what = "no report", status.what = "status",
         NEW i
  PROVE  i \in new /\ i.what = "report"
           <=> (i \in out /\ i.what = "report") \/ (content # none /\ i = item)
OBVIOUS

LEMMA ReadReported ==
  ASSUME NEW t \in Tests, Shaped, WellMade(suite[t]), Typed(t), Reported(t), ReadReport(t)
  PROVE  Reported(t)'
<1> DEFINE env     == Keys(t)
           content == Content(t)
           name    == ReportsTo(env)
           s       == test[t].sub
           run     == Runs(t)[s]
           item    == [what |-> "report", by |-> content.by, sub |-> s]
<1>1. test[t].pc = "report" /\ UNCHANGED <<suite, options>>
  BY ReadFacts DEF Fixed
<1>2. CASE Fail(t)
  <2>1. Keeps(t, {"pc", "output"}) /\ test'[t].pc = "error" /\ test'[t].output = test[t].output \o <<>>
    BY <1>2, FailFacts
  <2>2. Passes(t)
    BY <2>1, FieldsAre DEF Passes, Keeps
  <2> QED  BY <1>1, <2>1, <2>2, MovesReported
<1>3. CASE ~Fail(t)
  <2>1. /\ Keeps(t, {"pc", "phase", "todo", "flagged", "output"})
        /\ test'[t].pc \in {"capture", "next"}
        /\ test'[t].flagged =
             IF options.flags /\ (content # None \/ Format(env) = "brief")
             THEN test[t].flagged (+) Tagged(Format(env), test[t].printed, content)
             ELSE test[t].flagged
        /\ test'[t].output = ReadOutput(t)
    BY <1>3, ReadFacts
  <2>2. /\ ~options.perf /\ test[t].printed = Printed(run.command, run)
        /\ run.wrote => /\ name \in DOMAIN Files(t) /\ Files(t)[name].kind = "file"
                        /\ Files(t)[name].by = s
    BY <1>1 DEF Reported, Fresh
  <2>3. s \in Nat /\ s >= 1 /\ Len(Runs(t)) = s /\ s \in DOMAIN Subtests(t)
        /\ Format(env) \in Formats
    <3>1. s \in DOMAIN Subtests(t) /\ DOMAIN Subtests(t) = 1..Len(Subtests(t))
      BY SubtestsListed DEF Typed, Placed
    <3>2. suite[t].driver # "checker"
      BY <1>1 DEF Typed, Placed
    <3>3. Format(env) \in Formats
      BY <1>1, <3>2 DEF Typed, Placed, Begun
    <3> QED  BY <1>1, <2>2, <3>1, <3>2, <3>3 DEF Typed, Counted, Runs, Ran
  <2>4. /\ test'[t].sub = s /\ test'[t].runs = test[t].runs /\ test'[t].files = test[t].files
        /\ test'[t].printed = test[t].printed /\ test'[t].captured = test[t].captured
    BY <2>1, FieldsAre DEF Keeps
  <2>5. /\ Made(t)' /\ Subtests(t)' = Subtests(t) /\ Runs(t)' = Runs(t)
        /\ \A i, n : Writers(t, i, n)' = Writers(t, i, n)
    BY <1>1, <2>4, RunsKept DEF Reported
  <2>6. Subtests(t)[s] = env
    BY DEF Keys
  \* What is in the report.
  <2>7. content # None =>
          /\ name # None /\ KindOf(t, name) = "file" /\ content = Files(t)[Real(t, name)]
          /\ Real(t, name) \in DOMAIN Files(t) /\ content.kind = "file"
    BY RealFile DEF Content
  <2>8. name # None /\ KindOf(t, name) = "file" => content # None
    <3> SUFFICES ASSUME name # None, KindOf(t, name) = "file" PROVE content # None
      OBVIOUS
    <3>1. content = Files(t)[Real(t, name)]
      BY DEF Content
    <3>2. content \in FilesOf(Nat)
      BY <3>1, RealFile DEF Typed, Filed
    <3> QED  BY <3>2, TestDriverAssumption
  <2>9. name \in DOMAIN Files(t) /\ Files(t)[name].kind = "file"
          => KindOf(t, name) = "file" /\ Real(t, name) = name
    BY DEF KindOf, Real
  <2> HIDE DEF env, content, name, run
  \* What is shown of it.
  <2>10. /\ Items(t, "report")' = Items(t, "report") \cup (IF content # None THEN {item} ELSE {})
         /\ \A what \in {"no report", "running"} : Items(t, what) \subseteq Items(t, what)'
         /\ content = None /\ name # None => Says("no report", s) \in Items(t, "no report")'
    <3> DEFINE status == Says("status", Last(test[t].runs).status)
               lost == Says("no report", s)
               out == ToSet(test[t].output)
               new == ToSet(ReadOutput(t))
    <3>1. /\ new \subseteq out \cup {lost} \cup {item} \cup {status}
          /\ out \subseteq new
          /\ content # None => item \in new
          /\ item \in new \ out => content # None
          /\ content = None /\ name # None => lost \in new
      BY ReadOutputIs DEF Typed, Saved, content, name, env
    <3>2. item.what = "report" /\ lost.what = "no report" /\ status.what = "status"
      BY DEF Says
    <3>3. \A what, i : i \in Items(t, what)' <=> i \in new /\ i.what = what
      BY <2>1 DEF Items, ToSet
    <3>4. \A what, i : i \in Items(t, what) <=> i \in out /\ i.what = what
      BY ItemsAre
    <3> HIDE DEF item, lost, status, out, new
    <3>5. Items(t, "report")' = Items(t, "report") \cup (IF content # None THEN {item} ELSE {})
      <4>1. new \subseteq out \cup {lost} \cup {item} \cup {status} /\ out \subseteq new
        BY <3>1
      <4>2. (content # None => item \in new) /\ (item \in new \ out => content # None)
        BY <3>1
      <4>3. item.what = "report" /\ lost.what = "no report" /\ status.what = "status"
        BY <3>2
      <4>4. ASSUME NEW i
            PROVE  i \in new /\ i.what = "report"
                     <=> (i \in out /\ i.what = "report") \/ (content # None /\ i = item)
        BY <4>1, <4>2, <4>3, ItemsGrow
      <4> QED  BY <3>3, <3>4, <4>4
    <3>6. \A what \in {"no report", "running"} : Items(t, what) \subseteq Items(t, what)'
      BY <3>1, <3>3, <3>4
    <3>7. content = None /\ name # None => lost \in Items(t, "no report")'
      BY <3>1, <3>2, <3>3
    <3> QED  BY <3>5, <3>6, <3>7 DEF lost, item
  <2>11. \A o : Ever(t, o) => Ever(t, o)'
    BY <2>10 DEF Ever
  <2>12. Held(t)' /\ Backed(t)' /\ Traced(t)'
    <3>1. Files(t)' = Files(t)
      BY <2>4 DEF Files
    <3>2. Held(t)'
      BY <2>5, <3>1 DEF Reported, Held
    <3>3. Backed(t)'
      BY <2>5, <2>11, <3>1 DEF Reported, Backed
    <3>4. Traced(t)'
      BY <1>1, <2>5, <2>11, <3>1 DEF Reported, Traced
    <3> QED  BY <3>2, <3>3, <3>4
  <2>13. Fresh(t)'
    BY <2>1 DEF Fresh
  <2>14. item.sub = s /\ item.by = content.by
    OBVIOUS
  <2> HIDE DEF item
  <2>15. Seen(t)'
    <3>1. \A x \in Items(t, "report")' : x.sub \in 1..s
      <4>1. \A x \in Items(t, "report") : x.sub \in 1..s
        BY <2>3 DEF Reported, Seen
      <4>2. item.sub \in 1..s
        BY <2>3, <2>14
      <4>3. \A x \in Items(t, "report")' : x \in Items(t, "report") \/ x = item
        BY <2>10
      <4> QED  BY <4>1, <4>2, <4>3
    <3>2. \A x \in ToSet(test'[t].captured) : x.what = "print"
      BY <2>4 DEF Reported, Seen
    <3> QED  BY <2>1, <2>3, <2>5, <3>1, <3>2 DEF Seen
  <2>16. ASSUME NEW i \in 1..s, i # s, ReportsTo(Subtests(t)[i]) # None
         PROVE  Accounts(t, i)'
    <3>1. Accounts(t, i)
      BY <2>3, <2>16 DEF Reported, Accounted
    <3>2. {x \in Items(t, "report")' : x.sub = i} = {x \in Items(t, "report") : x.sub = i}
      BY <2>10, <2>14, <2>16
    <3> QED  BY <1>1, <2>5, <2>10, <2>11, <3>1, <3>2 DEF Accounts
  <2>17. ASSUME name # None PROVE Accounts(t, s)'
    <3>1. {x \in Items(t, "report") : x.sub = s} = {}
      BY <1>1 DEF Reported, Seen
    <3>2. {x \in Items(t, "report")' : x.sub = s} = IF content # None THEN {item} ELSE {}
      BY <2>10, <2>14, <3>1
    <3>3. CASE content = None
      <4>1. Writers(t, s, name) = {} \/ Ever(t, "rm")
        <5> SUFFICES ASSUME NEW j \in Writers(t, s, name), ~Ever(t, "rm") PROVE FALSE
          OBVIOUS
        <5>1. name \in DOMAIN Files(t) /\ Files(t)[name].kind = "file"
          BY <2>3 DEF Writers, Reported, Backed
        <5> QED  BY <2>8, <2>9, <2>17, <3>3, <5>1
      <4>2. Says("no report", s) \in Items(t, "no report")'
        BY <2>10, <2>17, <3>3
      <4> QED  BY <2>4, <2>5, <2>6, <2>11, <3>2, <3>3, <4>1, <4>2 DEF Accounts, name
    <3>4. CASE content # None
      <4>1. name \in DOMAIN Files(t) /\ KindOf(t, name) = "file"
            /\ content = Files(t)[Real(t, name)]
        BY <2>7, <3>4 DEF KindOf
      <4>2. Ever(t, "ln")' \/ \/ Writers(t, s, name) = {} /\ name \in DOMAIN suite[t].files
                              \/ Latest(content.by, Writers(t, s, name))
        <5> SUFFICES ASSUME ~Ever(t, "ln")'
                     PROVE  \/ Writers(t, s, name) = {} /\ name \in DOMAIN suite[t].files
                            \/ Latest(content.by, Writers(t, s, name))
          OBVIOUS
        <5>1. \/ Files(t)[name].kind = "dir"
              \/ Writers(t, s, name) = {} /\ name \in DOMAIN suite[t].files
              \/ Files(t)[name].kind = "file" /\ Latest(Files(t)[name].by, Writers(t, s, name))
          BY <2>3, <2>11, <4>1 DEF Reported, Traced
        <5>2. Files(t)[name].kind # "dir"
          BY <4>1 DEF KindOf
        <5> QED  BY <2>9, <4>1, <5>1, <5>2
      <4> QED  BY <1>1, <2>4, <2>5, <2>6, <2>14, <3>2, <3>4, <4>2 DEF Accounts, name
    <3> QED  BY <3>3, <3>4
  <2>18. Accounted(t)'
    BY <2>3, <2>4, <2>5, <2>6, <2>16, <2>17 DEF Accounted, name
  \* What is counted of it.
  <2>19. Counting(t)'
    <3> SUFFICES ASSUME Countable(t)', OwnShown(t)'
                 PROVE  Get(test'[t].flagged, "violation", 0) = Cardinality(Violating(t)')
      BY DEF Counting
    <3>1. Countable(t) /\ OwnShown(t)
      BY <1>1, <2>5, <2>10 DEF Countable, OwnShown
    <3>2. content # None => content.by = s
      BY <2>10, <2>14 DEF OwnShown
    <3> DEFINE count == Get(test[t].flagged, "violation", 0)
               before == Violating(t)
               more == IF "violation" \in run.found THEN 1 ELSE 0
               tagged == Tagged(Format(env), test[t].printed, content)
    <3>3. count = Cardinality(before)
      BY <1>1, <3>1 DEF Reported, Counting
    <3>4. /\ IsFiniteSet(before) /\ s \notin before
          /\ Violating(t)' = before \cup (IF "violation" \in run.found THEN {s} ELSE {})
      <4>1. before = {i \in 1..s : "violation" \in Runs(t)[i].found /\ i # s}
        BY <1>1, <2>3 DEF Violating
      <4>2. Violating(t)' = {i \in 1..s : "violation" \in Runs(t)[i].found}
        BY <2>1, <2>3, <2>5 DEF Violating
      <4>3. IsFiniteSet(1..s) /\ before \subseteq 1..s
        BY <2>3, <4>1, FS_Interval
      <4>4. IsFiniteSet(before)
        BY <4>3, FS_Subset
      <4> QED  BY <2>3, <4>1, <4>2, <4>4 DEF run
    <3>5. Cardinality(Violating(t)') = count + more /\ count \in Nat
      <4>1. CASE "violation" \in run.found
        BY <3>3, <3>4, <4>1, FS_AddElement, FS_CardinalityType
      <4>2. CASE "violation" \notin run.found
        BY <3>3, <3>4, <4>2, FS_CardinalityType
      <4> QED  BY <4>1, <4>2
    <3>6. /\ IsRun(env, run) /\ options.flags /\ "extra_args" \notin DOMAIN env
          /\ Format(env) = "brief" \/ OutputFile(env) # None
          /\ Format(env) = "short" => Quiet(env)
          /\ WellWritten(env)
      BY <2>3, <2>6, <3>1, SubtestsWritten DEF Countable, Reported, Made, run
    <3>7. CASE content # None \/ Format(env) = "brief"
      <4>1. \/ Format(env) = "brief" /\ content = None
            \/ Format(env) # "brief" /\ WrittenBy(content, run)
        <5>1. Format(env) = "brief" => name = None
          BY DEF name, ReportsTo
        <5>2. content # None => content.by \in 1..s /\ WrittenBy(content, Runs(t)[content.by])
          BY <2>3, <2>7, <3>2 DEF Reported, Held
        <5> QED  BY <2>7, <3>2, <3>7, <5>1, <5>2 DEF run
      <4>2. Get(tagged, "violation", 0) = more
        BY <2>2, <2>3, <3>6, <4>1, TaggedOnce
      <4>3. test'[t].flagged = test[t].flagged (+) tagged
        BY <2>1, <3>6, <3>7 DEF content, env
      <4> HIDE DEF tagged
      <4>4. Get(test[t].flagged (+) tagged, "violation", 0) = count + more
        BY <3>5, <4>2, SumCount
      <4> QED  BY <3>5, <4>3, <4>4
    <3>8. CASE content = None /\ Format(env) # "brief"
      <4>1. name # None
        BY <3>6, <3>8 DEF name, ReportsTo
      <4>2. ~run.wrote
        BY <2>2, <2>8, <2>9, <3>8, <4>1
      <4>3. "violation" \notin run.found
        BY <3>6, <4>1, <4>2 DEF IsRun, name
      <4>4. test'[t].flagged = test[t].flagged
        BY <2>1, <3>8 DEF content, env
      <4> QED  BY <3>5, <4>3, <4>4
    <3> QED  BY <3>7, <3>8
  <2> QED  BY <2>5, <2>12, <2>13, <2>15, <2>18, <2>19 DEF Reported
<1> QED  BY <1>2, <1>3

LEMMA CheckerReported ==
  ASSUME NEW t \in Tests, Shaped, Typed(t), Reported(t), RunChecker(t)
  PROVE  Reported(t)'
<1>1. test[t].pc = "checker" /\ UNCHANGED <<suite, options>>
  BY CheckerFacts DEF Fixed
<1>2. CASE Fail(t)
  <2>1. Keeps(t, {"pc", "output"}) /\ test'[t].pc = "error" /\ test'[t].output = test[t].output \o <<>>
    BY <1>2, FailFacts
  <2>2. Passes(t)
    BY <2>1, FieldsAre DEF Passes, Keeps
  <2> QED  BY <1>1, <2>1, <2>2, MovesReported
<1>3. CASE ~Fail(t)
  <2>1. Keeps(t, {"pc", "flagged"}) /\ test'[t].pc = "done"
    BY <1>3, CheckerFacts
  <2>2. /\ test'[t].sub = test[t].sub /\ test'[t].runs = test[t].runs
        /\ test'[t].files = test[t].files /\ test'[t].printed = test[t].printed
        /\ test'[t].output = test[t].output /\ test'[t].captured = test[t].captured
    BY <2>1, FieldsAre DEF Keeps
  <2>3. Passes(t) /\ Quiets(t)
    BY <1>1, <2>1, <2>2, SameQuiet DEF Passes, Reported
  <2>4. ~Countable(t)'
    BY <1>1 DEF Countable, Typed, Placed
  <2> QED  BY <1>1, <2>2, <2>3, <2>4, RunsKept, ShownKept, FilesKept, FreshKept
           DEF Reported, Counting
<1> QED  BY <1>2, <1>3

LEMMA InitReported ==
  ASSUME Init
  PROVE  ReportInv
<1> SUFFICES ASSUME NEW t \in Tests PROVE Reported(t)
  BY DEF ReportInv
<1>1. /\ test[t].pc = "queued" /\ Runs(t) = <<>> /\ test[t].output = <<>>
      /\ test[t].captured = <<>> /\ Files(t) = suite[t].files
      /\ test[t].flagged = SetToBag({})
  BY DEF Init, NewTest, Runs, Files
<1>2. WellMade(suite[t])
  BY ChosenMade DEF Init, Chosen
<1>3. 1..Len(Runs(t)) = {}
  BY <1>1
<1>4. \A what : Items(t, what) = {}
  BY <1>1 DEF Items
<1>5. Made(t) /\ Backed(t) /\ Accounted(t)
  BY <1>3 DEF Made, Backed, Accounted
<1>6. Held(t)
  BY <1>1, <1>2 DEF Held, WellMade, FilesOf
<1>7. Traced(t)
  BY <1>1, <1>3 DEF Traced, Writers
<1>8. Fresh(t) /\ Seen(t)
  BY <1>1, <1>4, NoneListed DEF Fresh, Seen
<1>9. Counting(t)
  <2>1. Violating(t) = {}
    BY <1>3 DEF Violating
  <2>2. Get(test[t].flagged, "violation", 0) = 0
    BY <1>1, SetCount
  <2> QED  BY <2>1, <2>2, FS_EmptySet DEF Counting
<1> QED  BY <1>5, <1>6, <1>7, <1>8, <1>9 DEF Reported

LEMMA StepReported ==
  ASSUME NEW t \in selected, TypeInv, ReportInv, Step(t)
  PROVE  ReportInv'
<1> USE DEF ReportInv
<1>1. t \in Tests /\ Shaped /\ Typed(t) /\ Reported(t) /\ WellMade(suite[t])
  BY ChosenMade DEF TypeInv
<1>2. UNCHANGED <<suite, options>>
  BY StepTypes DEF Fixed
<1>3. ASSUME Keeps(t, {"pc", "output"}), test'[t].pc = "error",
             test'[t].output = test[t].output \o <<>>
      PROVE  Reported(t)'
  <2>1. Passes(t)
    BY <1>3, FieldsAre DEF Passes, Keeps
  <2> QED  BY <1>1, <1>2, <1>3, <2>1, MovesReported
<1>4. ASSUME Fail(t) PROVE Reported(t)'
  BY <1>1, <1>3, <1>4, FailFacts
<1>5. CASE PrintOut(t)
  BY <1>1, <1>5, PrintReported DEF TypeInv
<1>6. ASSUME ~PrintOut(t) PROVE \A u \in Tests \ {t} : Reported(u)'
  <2>1. PICK changed : Keeps(t, changed)
    BY <1>1, <1>6, StepKeeps
  <2> QED  BY <1>2, <2>1, OtherReported DEF Keeps
<1>7. ASSUME ~PrintOut(t) PROVE Reported(t)'
  <2>1. CASE Start(t)
    <3>1. Keeps(t, {"pc", "phase", "todo"}) /\ Passes(t)
      BY <1>1, <2>1, StartFacts DEF Passes
    <3> QED  BY <1>1, <1>2, <3>1, MovesReported
  <2>2. CASE Subtest(t)
    <3>1. CASE ~Fail(t)
      <4>1. test[t].pc = "subtest"
        BY <1>1, <2>2, SubtestFacts
      <4>2. Keeps(t, {"pc", "phase", "todo"}) /\ test'[t].pc \in {"capture", "run"}
        BY <1>1, <2>2, <3>1, SubtestFacts
      <4>3. Passes(t)
        BY <4>1, <4>2 DEF Passes
      <4> QED  BY <1>1, <1>2, <4>2, <4>3, MovesReported
    <3> QED  BY <1>4, <3>1
  <2>3. CASE EnterDirectory(t)
    <3>1. Keeps(t, {"pc", "savedDir"}) /\ Passes(t)
      BY <1>1, <2>3, EnterFacts DEF Passes
    <3> QED  BY <1>1, <1>2, <3>1, MovesReported
  <2>4. CASE Redirect(t)
    <3>1. Keeps(t, {"pc", "savedOut", "captures", "captured"}) /\ Passes(t)
          /\ test'[t].captured = <<>>
      BY <1>1, <2>4, RedirectFacts DEF Passes
    <3> QED  BY <1>1, <1>2, <3>1, MovesReported
  <2>5. CASE Restore(t)
    <3>1. Keeps(t, {"pc", "output"}) /\ Passes(t)
          /\ test'[t].output = test[t].output \o test[t].captured
      BY <1>1, <2>5, RestoreFacts DEF Passes
    <3> QED  BY <1>1, <1>2, <3>1, MovesReported
  <2>6. CASE GlobalEnds(t)
    <3>1. Keeps(t, {"pc", "output"}) /\ Passes(t)
          /\ test'[t].output = test[t].output \o <<>>
      BY <1>1, <2>6, GlobalEndsFacts DEF Passes
    <3> QED  BY <1>1, <1>2, <3>1, MovesReported
  <2>7. CASE LeaveDirectory(t)
    <3>1. Keeps(t, {"pc", "output"}) /\ Passes(t)
          /\ test'[t].output = test[t].output \o <<>>
      BY <1>1, <2>7, LeaveFacts DEF Passes
    <3> QED  BY <1>1, <1>2, <3>1, MovesReported
  <2>8. CASE Snippet(t)
    <3>1. test[t].pc = "body" /\ (Raises(t) \/ Helps(t, Head(test[t].todo).op))
      BY <1>1, <1>7, <2>8, SnippetFacts
    <3>2. CASE Raises(t)
      BY <1>1, <1>3, <3>2, RaisesFacts
    <3>3. CASE Helps(t, Head(test[t].todo).op)
      BY <1>1, <1>2, <3>1, <3>3, HelpsReported
    <3> QED  BY <3>1, <3>2, <3>3
  <2>9. CASE PerfRun(t)
    <3>1. Keeps(t, {"pc", "phase", "todo"}) /\ Passes(t)
      BY <1>1, <2>9, PerfFacts DEF Passes
    <3> QED  BY <1>1, <1>2, <3>1, MovesReported
  <2>10. CASE RunGnatcheck(t)
    BY <1>1, <2>10, RunReported
  <2>11. CASE ReadReport(t)
    BY <1>1, <2>11, ReadReported
  <2>12. CASE NextSubtest(t)
    <3>1. (Keeps(t, {"pc", "sub"}) \/ Keeps(t, {"pc"})) /\ Passes(t)
      BY <1>1, <2>12, NextSubtestFacts DEF Passes
    <3> QED  BY <1>1, <1>2, <3>1, MovesReported
  <2>13. CASE RunChecker(t)
    BY <1>1, <2>13, CheckerReported
  <2>14. CASE StrayVariable(t)
    BY <1>1, <1>4, <2>14, StrayFacts
  <2> QED  BY <1>7, <2>1, <2>2, <2>3, <2>4, <2>5, <2>6, <2>7, <2>8, <2>9, <2>10,
              <2>11, <2>12, <2>13, <2>14 DEF Step
<1> QED  BY <1>5, <1>6, <1>7

LEMMA ReportsAlways == Spec => []ReportInv
<1>1. Init => ReportInv
  BY InitReported
<1>2. TypeInv /\ ReportInv /\ [Next]_svars => ReportInv'
  <2> SUFFICES ASSUME TypeInv, ReportInv, [Next]_svars PROVE ReportInv'
    OBVIOUS
  <2>1. ASSUME UNCHANGED <<suite, options, test>> PROVE ReportInv'
    BY <2>1, OtherReported DEF ReportInv
  <2>2. CASE RunTests
    BY <2>2, StepReported DEF RunTests
  <2>3. CASE SetUp \/ Probe \/ TestsEnd \/ TearDown \/ UNCHANGED svars
    BY <2>1, <2>3 DEF SetUp, Probe, TestsEnd, TearDown, svars, dvars
  <2> QED  BY <2>2, <2>3 DEF Next, Terminated
<1> QED  BY <1>1, <1>2, TypesAlways, PTL DEF Spec

\* ReportAccounted: each subtest whose report was read shows the report of its
\* latest writer, or says that there is none, which is only so when no run has
\* written it or a snippet has removed something.
THEOREM AccountedReports == Spec => []ReportAccounted
<1>1. TypeInv /\ ReportInv => ReportAccounted
  <2> SUFFICES ASSUME TypeInv, ReportInv, NEW t \in selected, NEW i \in 1..Len(Runs(t)),
                      ReportsTo(Subtests(t)[i]) # None,
                      i < test[t].sub \/ test[t].pc \in {"next", "done"}
               PROVE  LET env     == Subtests(t)[i]
                          shown   == {item \in Items(t, "report") : item.sub = i}
                          writers == {j \in 1..i : /\ test[t].runs[j].wrote
                                                   /\ ReportsTo(Subtests(t)[j]) = ReportsTo(env)}
                          linked  == Says("running", "ln") \in Items(t, "running")
                      IN  \/ /\ shown # {}
                             /\ linked \/ IF writers = {} THEN ReportsTo(env) \in DOMAIN suite[t].files
                                          ELSE \A item \in shown : item.by = Max(writers)
                          \/ /\ shown = {}
                             /\ Says("no report", i) \in Items(t, "no report")
                             /\ writers = {} \/ Says("running", "rm") \in Items(t, "running")
    BY DEF ReportAccounted, Runs
  <2> DEFINE name == ReportsTo(Subtests(t)[i])
             writers == Writers(t, i, name)
             shown == {item \in Items(t, "report") : item.sub = i}
  <2>1. t \in Tests /\ Reported(t)
    BY DEF TypeInv, ReportInv
  <2>2. Accounts(t, i)
    <3>1. ~(test[t].pc \in {"report", "error"} /\ i = test[t].sub)
      <4>1. i \in Nat /\ test[t].sub \in Nat
        BY <2>1, SubtestsListed, ChosenMade DEF TypeInv, Typed, Placed
      <4> QED  BY <4>1
    <3> QED  BY <2>1, <3>1 DEF Reported, Accounted
  <2>3. ASSUME NEW j, Latest(j, writers) PROVE writers # {} /\ j = Max(writers)
    <3>1. writers \subseteq Nat
      BY DEF Writers
    <3>2. j \in writers /\ j >= j /\ \A k \in writers : j >= k
      BY <2>3, <3>1 DEF Latest
    <3>3. \A k \in writers : (\A l \in writers : k >= l) => k = j
      BY <3>1, <3>2
    <3> HIDE DEF writers
    <3> QED  BY <3>2, <3>3 DEF Max
  <2>4. writers = {j \in 1..i : /\ test[t].runs[j].wrote
                                /\ ReportsTo(Subtests(t)[j]) = ReportsTo(Subtests(t)[i])}
    BY DEF Writers, Runs
  <2>5. \/ /\ shown # {}
           /\ Ever(t, "ln") \/ IF writers = {} THEN name \in DOMAIN suite[t].files
                               ELSE \A item \in shown : item.by = Max(writers)
        \/ /\ shown = {}
           /\ Says("no report", i) \in Items(t, "no report")
           /\ writers = {} \/ Ever(t, "rm")
    BY <2>2, <2>3 DEF Accounts
  <2> QED  BY <2>4, <2>5 DEF Ever
<1> QED  BY <1>1, TypesAlways, ReportsAlways, PTL

\* CountedOnce: the flag checking counts a rule violation once for each subtest
\* that found it, whatever the formats of the subtests.
THEOREM EachCountedOnce == Spec => []CountedOnce
<1>1. TypeInv /\ ReportInv => CountedOnce
  <2> SUFFICES ASSUME TypeInv, ReportInv, NEW t \in selected, test[t].pc = "done",
                      Countable(t), OwnShown(t)
               PROVE  Get(test[t].flagged, "violation", 0)
                        = Cardinality({i \in DOMAIN test[t].runs :
                                         "violation" \in test[t].runs[i].found})
    BY DEF CountedOnce, Countable, OwnShown
  <2>1. t \in Tests /\ Reported(t) /\ Listed(test[t].runs)
    BY DEF TypeInv, ReportInv, Typed, Counted
  <2>2. Get(test[t].flagged, "violation", 0) = Cardinality(Violating(t))
    BY <2>1 DEF Reported, Counting
  <2>3. DOMAIN test[t].runs = 1..Len(test[t].runs)
    BY <2>1 DEF Listed
  <2>4. Violating(t) = {i \in DOMAIN test[t].runs : "violation" \in test[t].runs[i].found}
    BY <2>3 DEF Violating, Runs
  <2> QED  BY <2>2, <2>4
<1> QED  BY <1>1, TypesAlways, ReportsAlways, PTL

\* OneTarget: every command names the target at most once unless the extra
\* arguments do, and a gnatkp run left to its configuration names the runtime,
\* and a target except where CodePeer is asked for no target.
THEOREM TargetOnce == Spec => []OneTarget
<1>1. TypeInv /\ ReportInv => OneTarget
  <2> SUFFICES ASSUME TypeInv, ReportInv, NEW t \in selected, NEW i \in DOMAIN test[t].runs
               PROVE  LET command == test[t].runs[i].command
                          targets == {n \in DOMAIN command : command[n][1] = "--target"}
                          env     == Subtests(t)[i]
                      IN  /\ \/ Cardinality(targets) <= 1
                             \/ Has(Get(env, "extra_args", <<>>), "--target")
                          /\ Exe(env) = "gnatkp" /\ Get(env, "gnatkp_autoconfig", TRUE)
                               => /\ Has(command, "--RTS")
                                  /\ targets # {} \/ (options.codepeer
                                       /\ ~Get(env, "auto_codepeer_target", TRUE))
    BY DEF OneTarget
  <2> DEFINE env     == Subtests(t)[i]
             command == Command(env)
             targets == {n \in DOMAIN command : command[n][1] = "--target"}
  <2>1. test[t].runs[i].command = command /\ WellWritten(env)
    <3>1. t \in Tests /\ Typed(t) /\ Reported(t) /\ WellMade(suite[t])
      BY ChosenMade DEF TypeInv, ReportInv
    <3>2. i \in 1..Len(test[t].runs)
      BY <3>1 DEF Typed, Counted, Listed
    <3>3. i \in DOMAIN Subtests(t)
      <4>1. test[t].sub \in 1..Len(Subtests(t)) /\ Len(test[t].runs) <= test[t].sub
        BY <3>1, SubtestsListed DEF Typed, Placed, Counted
      <4>2. Len(test[t].runs) \in Nat
        BY <3>1 DEF Typed, Counted, Listed
      <4>3. DOMAIN Subtests(t) = 1..Len(Subtests(t)) /\ Len(Subtests(t)) \in Nat
        BY <3>1, SubtestsListed
      <4> QED  BY <3>2, <4>1, <4>2, <4>3
    <3> QED  BY <3>1, <3>2, <3>3, SubtestsWritten DEF Reported, Made, Runs, IsRun
  <2>2. /\ Heads(command) \cap Known =
              (IF Quiet(env) THEN {"-q"} ELSE {}) \cup Heads(TargetSwitches(env))
              \cup Heads(ReportSwitches(env)) \cup (Heads(Extra(env)) \cap Known)
        /\ "--target" \notin Heads(Extra(env)) => Once(command, "--target")
    BY <2>1, CommandHeads
  <2>3. Cardinality(targets) <= 1 \/ Has(Get(env, "extra_args", <<>>), "--target")
    <3> SUFFICES ASSUME ~Has(Extra(env), "--target") PROVE Cardinality(targets) <= 1
      BY DEF Extra
    <3>1. Once(command, "--target")
      BY <2>2, HasHeads
    <3>2. \A m, n \in targets : m = n
      BY <3>1 DEF Once
    <3>3. targets = {} \/ \E n : targets = {n}
      BY <3>2
    <3> HIDE DEF targets
    <3>4. CASE targets = {}
      BY <3>4, FS_EmptySet
    <3>5. ASSUME NEW n, targets = {n} PROVE Cardinality(targets) <= 1
      <4>1. Cardinality(targets) = 1
        BY <3>5, FS_Singleton
      <4> QED  BY <4>1
    <3> QED  BY <3>3, <3>4, <3>5
  <2>4. ASSUME Kp(env)
        PROVE  /\ Has(command, "--RTS")
               /\ targets # {} \/ (options.codepeer
                                   /\ ~Get(env, "auto_codepeer_target", TRUE))
    <3>1. "--RTS" \in Heads(command)
      BY <2>2, <2>4, TargetHeads DEF Known
    <3>2. ASSUME ~options.codepeer \/ Get(env, "auto_codepeer_target", TRUE)
          PROVE  targets # {}
      <4>1. Target(env) \/ HostTarget(env) \/ PeerTarget(env)
        BY <2>4, <3>2 DEF HostTarget, PeerTarget
      <4>2. "--target" \in Heads(command)
        BY <2>2, <4>1, TargetHeads DEF Known
      <4>3. Has(command, "--target")
        BY <4>2, HasHeads
      <4> QED  BY <4>3 DEF Has
    <3> QED  BY <3>1, <3>2, HasHeads
  <2> QED  BY <2>1, <2>3, <2>4 DEF Kp
<1> QED  BY <1>1, TypesAlways, ReportsAlways, PTL
=============================================================================
