----------------------------- MODULE MCDesktop ------------------------------
(***************************************************************************)
(* Two launches of the client, after one another or side by side, and one  *)
(* message.                                                                *)
(***************************************************************************)
EXTENDS Desktop
=============================================================================
