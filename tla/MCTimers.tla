------------------------------ MODULE MCTimers ------------------------------
(* Instructions of every kind: a one-cycle NOP, TAX, an immediate, PHA,    *)
(* PLA or a taken branch, STA, JMP (abs,X) over a page, and a NOP that an  *)
(* interrupt follows.                                                      *)
EXTENDS Timers

a == "access"
i == "internal"
MCInstructions ==
    {<<>>, <<i>>, <<a>>, <<a, i>>, <<a, i, i>>, <<a, a, a>>, <<a, a, i, a, a>>,
     <<a, a, a, a, a>>}
=============================================================================
