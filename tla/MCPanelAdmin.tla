----------------------------- MODULE MCPanelAdmin -----------------------------
(* Small instances of PanelAdmin.  RAM is counted in units of 256 MB. *)
EXTENDS PanelAdmin

CONSTANTS root, ann

MCUsers == {root, ann}
MCRamInputs == {2}
MCLimitInputs == {}
=============================================================================
