------------------------------- MODULE MCGps -------------------------------
(* Three GPRMC sentences, each of any kind, and other sentences at any     *)
(* time.  One of those without a position may lose its eighth character, a *)
(* comma: the fields behind it are one off.  On the stack is a character   *)
(* where a damaged sentence ends (cell 18), a NUL where one without a      *)
(* position does (19), and commas where the others do (25 and 26), before  *)
(* another character.                                                      *)
EXTENDS Gps

TheStacks == {[i \in Cells |-> IF i \in {19, LastCell - 1, LastCell} THEN NUL
                               ELSE IF i \in {21, 25, 26} THEN COMMA ELSE JUNK]}
=============================================================================
