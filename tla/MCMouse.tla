------------------------------- MODULE MCMouse -------------------------------
(* Two coordinates that differ in both bytes.                              *)
EXTENDS Mouse

MCHome == [high |-> 0, low |-> 0]
MCCoord == {MCHome, [high |-> 1, low |-> 1]}
=============================================================================
