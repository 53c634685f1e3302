--------------------------- MODULE MCDocCoverage ---------------------------
(* The upper part of the hierarchy of liblkqllang, as an instance for TLC. *)
EXTENDS DocCoverage

MCClasses == {"LkqlNode", "Expr", "Query", "ListLiteral", "Declaration",
              "LkqlNodeBaseList", "ArgList"}
MCBase == [LkqlNode |-> None, Expr |-> "LkqlNode", Query |-> "Expr",
           ListLiteral |-> "Expr", Declaration |-> "LkqlNode",
           LkqlNodeBaseList |-> "LkqlNode", ArgList |-> "LkqlNodeBaseList"]
MCInternal == {"LkqlNode", "Declaration", "ClassDecl"}
MCListNodes == {"LkqlNodeBaseList", "ArgList"}
MCPages == {[classes |-> {"ListLiteral"}, blocks |-> {}],
            [classes |-> {"Renamed"}, blocks |-> {"broken"}]}

=============================================================================
