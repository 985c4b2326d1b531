----------------------------- MODULE MCFeedback -----------------------------
(***************************************************************************)
(* One desktop client, launched again and again, the browser of one        *)
(* reviewer and the owner, at a service that writes three rows.            *)
(***************************************************************************)
EXTENDS Feedback
=============================================================================
