--------------------------- MODULE MCProactiveBudget ---------------------------
(* ProactiveBudget on three runs, with settings small enough that each of its *)
(* limits is hit, and hit again after the window has moved on.                *)
EXTENDS ProactiveBudget

CONSTANTS r1, r2, r3

ThreeRuns == {r1, r2, r3}

================================================================================
