---------------------------- MODULE MCFileProbe -----------------------------
(* Scenarios for FileProbe.                                                 *)
EXTENDS FileProbe

Anything == {"line", "part", "rotate", "delete", "truncate", "touch"}

(* The file is empty, shorter than a backlog of two, cut by it in the middle *)
(* of a line or between two, or ends without a newline.                     *)
Firsts == {<<>>, <<TRUE>>, <<FALSE, FALSE, TRUE>>, <<TRUE, FALSE, TRUE>>, <<TRUE, FALSE>>}

AllScenarios ==
  [first : Firsts, may : {Anything, Anything \ {"truncate"}}, times : {3}]
  \cup [first : Firsts, may : {{"line", "rotate", "delete", "touch"}}, times : {4}]
OneScenario == [first : {<<FALSE, TRUE>>}, may : {{"line"}}, times : {2}]
=============================================================================
