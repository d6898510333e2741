--------------------------- MODULE MCPanelControls ---------------------------
(* Instances of PanelControls for TLC. *)
EXTENDS PanelControls, TLC
=============================================================================
