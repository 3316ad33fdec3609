----------------------------- MODULE MCDeclared -----------------------------
(***************************************************************************)
(* Two clients of an action with two inputs, which declares a directory, a *)
(* file in it again, and a file of its own, and which writes a third file  *)
(* for some inputs only.                                                   *)
(***************************************************************************)
EXTENDS Declared

CONSTANTS s1, s2, x1, x2

PathsDeclared == {<<"out">>, <<"out", "a">>, <<"log">>}

FilesWritten(key) ==
  {<<"out", "a">>, <<"log">>} \cup
  IF \A i \in Sources : key[i] = x1 THEN {<<"out", "b">>} ELSE {}
=============================================================================
