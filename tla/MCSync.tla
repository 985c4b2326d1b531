------------------------------- MODULE MCSync -------------------------------
(***************************************************************************)
(* A community of five events: three branches from the genesis 5, the last *)
(* in the order of the ids, and an event that merges two of them.  Event 3 *)
(* redeems an invitation.  Every pair of histories is tried; an event that *)
(* no peer holds may still be created.  Three heads are more than a frame  *)
(* names, and a has no room for all events.                                *)
(***************************************************************************)
EXTENDS Sync

CONSTANTS a, b

MCEvent == 1..5

MCParents == <<{2, 4}, {5}, {5}, {5}, {}>>

MCHome == [e \in MCEvent |-> 5]

MCBytes == [e \in MCEvent |-> 1]

MCRedemption == {3}

\* Bounds: one fault of each kind.
MCQuota == [p \in Peer |-> IF p = a THEN 4 ELSE 5]

MCFaults == [kind \in FaultKind |-> 1]
=============================================================================
