--------------------------- MODULE MCProactiveAgent ---------------------------
(* ProactiveAgent with a window smaller than a batch, so that beliefs leave   *)
(* the window unheard and come back when later ones are cleaned up.           *)
EXTENDS ProactiveAgent

CONSTANTS down, slow, fine

CriticalAndFine == {down, fine}

AllSubjects == {down, slow, fine}

Rated ==
    [s \in Subjects |-> IF s = down THEN "critical" ELSE IF s = slow THEN "warning" ELSE "info"]

===============================================================================
