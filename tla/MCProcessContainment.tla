------------------------ MODULE MCProcessContainment ------------------------
(* A leader that may fork a descendant, and two output streams with a limit  *)
(* of one byte each, of which one may get a byte too many.                   *)
EXTENDS ProcessContainment, TLC

CONSTANTS leader, c1

MCLimit == [s \in Stream |-> 1]
MCMaxBytes == [s \in Stream |-> IF s = "stdout" THEN 2 ELSE 1]
=============================================================================
