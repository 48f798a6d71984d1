------------------------------ MODULE OnceCell ------------------------------
(***************************************************************************)
(* What a package-level helper promises: a cell that is written at most    *)
(* once, either with a helper or with the verdict that none will ever be   *)
(* there, and that never changes afterwards.                               *)
(***************************************************************************)
CONSTANTS
    Values,     \* what the cell may be given
    Empty,      \* nothing was written yet
    Failed      \* the one attempt to write failed

VARIABLE cell

Init == cell = Empty

Settle ==
    /\ cell = Empty
    /\ cell' \in Values \union {Failed}

Next == Settle

Spec == Init /\ [][Next]_cell
=============================================================================
