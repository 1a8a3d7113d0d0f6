------------------------------- MODULE MCMemory -------------------------------
(***************************************************************************)
(* Instances of Memory for TLC.  A command has two bytes here, so that a   *)
(* read may end inside of it.                                              *)
(***************************************************************************)
EXTENDS Memory

CONSTANTS g, s, t, x      (* letters *)

AllBytes == {g, s, t, x, Space, Newline, Slash, Backslash, Zero}
GetBytes == <<g, t>>
SetBytes == <<s, t>>

(* Right and wrong commands, separators, names, line ends and contents.    *)
Commands == {<<g, t>>, <<s, t>>, <<s>>, <<s, t, x>>, << >>}
Names    == {<<x>>, <<x, t>>, <<x, t, x>>, <<x, Slash>>, <<Backslash, Zero>>, << >>}
Contents == {<< >>, <<x>>, <<x, Newline, Space>>}

AllInputs == {<< >>, <<s, t>>, <<Newline>>} \cup
  {c \o <<Space>> \o n \o e \o r :
     c \in Commands, n \in Names, e \in {<<Newline>>, <<Space>>, << >>}, r \in Contents}

AllFiles == {Missing, Dir, Denied, << >>, <<t, x, t>>}
===============================================================================
