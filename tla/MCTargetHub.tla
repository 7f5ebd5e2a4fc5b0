---------------------------- MODULE MCTargetHub ----------------------------
(* Small instances of TargetHub: one window that connects once or twice.   *)
EXTENDS TargetHub

CONSTANTS i1, c1, c2

OneWindow == [c \in Conns |-> i1]
=============================================================================
