-------------------------------- MODULE MCScanner --------------------------------
(* Alphabets over which every text is tried. *)
EXTENDS ScannerCheck

Literals == {"/", "*", "\"", "'", "\\", "(", ";", "nl"}
Brackets == {"(", ")", "{", "}", ";"}
Keywords == {"/", "*", "\"", "w", "import", "concept", "sp"}
Operators == {"/", "*", "<", "=", ">", "requires"}
Library == {"std", ":", "format", "w", "\""}
Controlled == {"if", "(", ")", "w", "*", "nl"}
Templates == {"template", "<", ">", "{", "w", "nl"}
MCAlphabets == {Literals, Brackets, Keywords, Operators, Library, Controlled, Templates}
================================================================================
