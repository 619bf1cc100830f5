------------------------------- MODULE MCPanel -------------------------------
(* Small instances of Panel.  RAM is counted in units of 256 MB. *)
EXTENDS Panel

CONSTANTS root, ann

MCUsers == {root, ann}

\* A number below the minimum, the minimum, the limit, and a field left empty.
MCRamInputs == {1, 2, 4, NaN}
MCTwoSizes == {2, 4}
MCOneSize == {2}
=============================================================================
