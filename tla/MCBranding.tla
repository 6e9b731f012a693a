------------------------------- MODULE MCBranding -------------------------------
(***************************************************************************)
(* The instance of Branding that TLC checks: launches in the panes of one  *)
(* window.                                                                 *)
(***************************************************************************)
EXTENDS Branding, TLC

MCBorders == <<"pane-border-status", "pane-border-format">>

Interchangeable == Permutations(Sessions)
===============================================================================
