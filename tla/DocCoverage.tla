---------------------------- MODULE DocCoverage ----------------------------
(***************************************************************************)
(* The Sphinx extension of the user manual, user_manual/source/            *)
(* lkql_doc_class.py: a directive marks the classes of liblkqllang that a  *)
(* page documents, the LKQL code blocks are parsed, and the classes that   *)
(* are not documented are reported when the build is over.                 *)
(*                                                                         *)
(* Sphinx reads the pages; a build reads them again, or only those that    *)
(* changed, in which case env is the one of the build before.              *)
(***************************************************************************)
EXTENDS Naturals, Sequences, FiniteSets

CONSTANTS
  Classes,    \* LKQL_CLASSES: the subclasses of LkqlNode, and itself
  Base,       \* cls.__base__
  Internal,   \* _LKQL_INTERNAL_CLASSES
  ListNodes,  \* the subclasses of LkqlNodeBaseList
  Pages,      \* the pages: [classes, blocks]
  None        \* no class

VARIABLES
  phase,       \* where Sphinx is
  toRead,      \* the pages that the build still has to read
  documented,  \* the classes with an attribute of that name of their own
  env,         \* env.documented_classes
  warnings     \* what was reported, each with its kind

vars == <<phase, toRead, documented, env, warnings>>

-----------------------------------------------------------------------------
RECURSIVE HasAttribute(_, _), IsClassDocumented(_, _)

\* getattr looks in the base classes too.
HasAttribute(class, marked) ==
  /\ class # None
  /\ class \in marked \/ HasAttribute(Base[class], marked)

\* lkql_cls_subclasses
Subclasses(class) == {c \in Classes : Base[c] = class}

IsClassDocumented(class, marked) ==
  \/ class \in ListNodes
  \/ HasAttribute(class, marked)
  \/ /\ Subclasses(class) # {}
     /\ \A c \in Subclasses(class) : IsClassDocumented(c, marked)

\* The import of the extension marks the internal classes that exist.
Init ==
  /\ phase = "read" /\ toRead = Pages
  /\ documented = Internal \cap Classes
  /\ env = <<>> /\ warnings = {}

\* LkqlDocClassDirective.run, for the directives of a page.
ReadPage ==
  /\ phase = "read"
  /\ \E page \in toRead :
       /\ toRead' = toRead \ {page}
       /\ documented' = documented \cup (page.classes \cap Classes)
       /\ \E order \in [1..Cardinality(page.classes \cap Classes) ->
                          page.classes \cap Classes] :
            /\ \A c \in page.classes \cap Classes : \E i \in DOMAIN order : order[i] = c
            /\ env' = env \o order
       /\ warnings' = warnings
            \cup {<<"LKQL class not found", c>> : c \in page.classes \ Classes}
  /\ UNCHANGED phase

\* check_lkql_code, for the pages that are read.
CheckCode ==
  /\ phase = "read" /\ toRead = {}
  /\ phase' = "resolved"
  /\ warnings' = warnings
       \cup {<<"LKQL syntax error", b>> : b \in UNION {page.blocks : page \in Pages}}
  /\ UNCHANGED <<toRead, documented, env>>

\* process_lkql_classes_coverage, unless the build has failed.
BuildFinished ==
  /\ phase = "resolved"
  /\ \/ /\ phase' = "finished"
        /\ warnings' = warnings \cup
             {<<"Class not documented", c>> :
                c \in {d \in Classes : ~IsClassDocumented(d, documented)}}
     \/ phase' = "failed" /\ UNCHANGED warnings
  /\ UNCHANGED <<toRead, documented, env>>

\* Another build: a new process, which reads some of the pages again.
Rebuild ==
  /\ phase \in {"finished", "failed"}
  /\ Len(env) <= Cardinality(Classes)
  /\ phase' = "read"
  /\ toRead' \in SUBSET Pages
  /\ documented' = Internal \cap Classes
  /\ warnings' = {}
  /\ UNCHANGED env

Next == ReadPage \/ CheckCode \/ BuildFinished \/ Rebuild

Spec == Init /\ [][Next]_vars

-----------------------------------------------------------------------------
\* "This will print warnings for every non-documented class": a class that no
\* page documents, is not internal, and has no subclass, is reported.
UndocumentedReported ==
  phase = "finished" =>
    \A c \in Classes \ (Internal \cup ListNodes) :
      Subclasses(c) = {} /\ (\A page \in Pages : c \notin page.classes)
        => <<"Class not documented", c>> \in warnings

=============================================================================
