------------------------------ MODULE MCInterpreter ------------------------------
(* Instances of Interpreter for TLC: inputs a user really types, by what the  *)
(* class and clang make of them.                                             *)
EXTENDS Interpreter

MCNames == {"x", "y"}
OneName == {"x"}
MCTypes == {"int", "const char *", "struct S *", "std::vector<int>"}
MCValues == {"1", "2", ""}
MCPaths == {"dir"}
NoPaths == {}
MCLibs == {"m"}

(* The value "" stands for every other value. *)
Statement ==
  [kind |-> "other", type |-> "int", name |-> "x", value |-> "1",
   checked |-> TRUE, tracked |-> TRUE,
   declares |-> {}, uses |-> {}, valid |-> Versions,
   std |-> FALSE, header |-> None, lib |-> None,
   detects |-> 17, hints |-> 17,
   tries |-> "once", extra |-> 0, text |-> "code", dangerous |-> FALSE]

IntX1 ==  \* int x = 1;
  [Statement EXCEPT !.kind = "decl", !.declares = {"x"}]
IntX2 ==  \* int x = 2;
  [IntX1 EXCEPT !.value = "2"]
LinesX == \* the declaration of x over two lines
  [IntX1 EXCEPT !.checked = FALSE, !.tracked = FALSE]
AssignX == \* x = 2;
  [Statement EXCEPT !.kind = "assign", !.value = "2", !.uses = {"x"}]
IntYX ==  \* int y = x;
  [IntX1 EXCEPT !.name = "y", !.value = "", !.declares = {"y"}, !.uses = {"x"}]
BumpX ==  \* x++;   run once more without the semicolon, to show its value
  [Statement EXCEPT !.uses = {"x"}, !.extra = 1]
CallF == \* f()   f declared, defined in library m; tried again with a semicolon
  [Statement EXCEPT !.lib = "m", !.tries = "again"]
IfF ==    \* if (f()) { }   a brace ends it: neither run nor tried once more
  [Statement EXCEPT !.checked = FALSE, !.lib = "m"]
IntXF ==  \* int x = f()   tried again without the semicolon it is given
  [IntX1 EXCEPT !.value = "", !.lib = "m", !.tries = "again"]
DecltypeX == \* decltype(0) x   no pattern matches it; C++ with a semicolon only
  [Statement EXCEPT !.declares = {"x"}, !.tries = "second"]
StructX == \* struct S *x = 0;   recorded, exempt from the redefinition check
  [IntX1 EXCEPT !.checked = FALSE, !.type = "struct S *", !.value = ""]
ConstevalY == \* consteval int y() { return 1; }
  [Statement EXCEPT !.declares = {"y"}, !.valid = {20, 23}, !.detects = 20, !.hints = 20]
FormatX == \* int x = [](int format) { return format; }(1);   a word of C++20 in a
  \* text of every standard; taken for a function by the redefinition check
  [IntX1 EXCEPT !.checked = FALSE, !.value = "", !.detects = 20]
Utf8Y ==  \* const char *y = u8"";   not C++20: char8_t
  [IntX1 EXCEPT !.name = "y", !.value = "", !.declares = {"y"}, !.valid = {17}, !.hints = 20]
ModuleX == \* const char *x = u8"import module";   not C++20 either, but the errors quote it
  [IntX1 EXCEPT !.type = "const char *", !.value = "", !.valid = {17}, !.hints = 23]
Header20 == \* #include "h.hpp"   whose text needs <concepts>; errors say so
  [Statement EXCEPT !.checked = FALSE, !.tracked = FALSE, !.valid = {20, 23}, !.hints = 20,
                    !.header = "dir"]
Folder == \* #include "d"   a directory where the program runs
  [Statement EXCEPT !.checked = FALSE, !.tracked = FALSE, !.text = "folder"]
Blank ==  \* an empty file
  [Statement EXCEPT !.checked = FALSE, !.tracked = FALSE, !.text = "blank"]
ImportModule == \* import_module();   run once more; its unresolved name reads like C++23
  [Statement EXCEPT !.lib = "m", !.hints = 23, !.extra = 1]
IfModule == \* if (import_module()) { }   so does this one, and it is run only once
  [IfF EXCEPT !.hints = 23]
VectorX == \* std::vector<int> x;
  [IntX1 EXCEPT !.type = "std::vector<int>", !.value = "", !.std = TRUE]
SystemX == \* int x = system("...");
  [IntX1 EXCEPT !.value = "", !.dangerous = TRUE]

(* Where the loader finds library m: by its name, or only in a -L directory. *)
MCFoundIn == [l \in MCLibs |-> {None}]
InDir == [l \in MCLibs |-> {"dir"}]
Nowhere == [l \in MCLibs |-> {}]

(* Inputs of the passing runs. *)
RecordInputs  == {IntX1, LinesX, AssignX, StructX, BumpX, CallF, Folder, Blank}
UnitInputs    == {IntX1, IntX2, IntYX, IfF, IntXF}
UpgradeInputs == {FormatX, Header20, VectorX, ModuleX, IfModule, DecltypeX, SystemX}

(* Inputs of the runs that show a disagreement. *)
RepeatedInputs == {IntX1, BumpX, CallF}
Char8Inputs    == {Utf8Y, ConstevalY, IntX1}
RemoveInputs   == {IntX1, AssignX, IntX2}
CrashInputs    == {IntX1, ImportModule}
================================================================================
