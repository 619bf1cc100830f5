---------------------------- MODULE MCPanelFiles ----------------------------
(***************************************************************************)
(* Two handlers, and two packages of different compression, each named by  *)
(* its package, so that the packages are interchangeable.                  *)
(***************************************************************************)
EXTENDS PanelFiles, TLC

CONSTANTS r1, r2, p1, p2

MCReq == {r1, r2}
MCPackage == {p1, p2}
MCFormat == [p \in MCPackage |-> p]
MCSymmetry == Permutations(MCReq) \cup Permutations(MCPackage)
=============================================================================
