----------------------------- MODULE MCSyncChain ----------------------------
(***************************************************************************)
(* A community of three events in a row, the genesis 3 last of them in id  *)
(* order, and one beside them.  Every assignment of histories to the peers *)
(* is tried, without limits in the way and with one reconnection.          *)
(***************************************************************************)
EXTENDS Sync

MCEvent == 1..4

MCParents == <<{2}, {3}, {}, {3}>>

MCHome == [e \in MCEvent |-> 3]

MCBytes == [e \in MCEvent |-> 1]

MCNoQuota == [p \in Peer |-> 4]

\* Bound: one closed connection.
MCReconnect == [kind \in FaultKind |-> IF kind = "connection" THEN 1 ELSE 0]
=============================================================================
