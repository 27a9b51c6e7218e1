----------------------------- MODULE MCCommands -----------------------------
(* Small instances of Commands for TLC.                                     *)
EXTENDS Commands, TLC

CONSTANTS w, x

ContentSymmetry == Permutations(Contents)

Here == <<w>>
Bare == [abs |-> FALSE, dirs |-> <<>>, name |-> x]
Dotted == [abs |-> FALSE, dirs |-> <<Dot>>, name |-> x]
Rooted == [abs |-> TRUE, dirs |-> <<w>>, name |-> x]
Below == [abs |-> FALSE, dirs |-> <<w>>, name |-> x]
AllForms == {Bare, Dotted, Below}
OneForm == {Rooted}
HereAndBelow == {[dirs |-> <<w>>, name |-> x], [dirs |-> <<w, w>>, name |-> x]}

OneKey == {<<3, 5>>}
OneDraw == {<<<<4, 1>>, <<2, 6>>>>}
=============================================================================
