----------------------------- MODULE Replication ----------------------------
(***************************************************************************)
(* What the synchronization of a community promises, whatever messages     *)
(* carry it: every replica holds a causally closed history, an event is    *)
(* created by one replica on top of what it holds, and a replica changes   *)
(* otherwise only by copying events another replica holds.  Nothing is     *)
(* ever lost and nothing appears that nobody created.                      *)
(***************************************************************************)
EXTENDS EventDag

CONSTANTS
    Peer,       \* the replicas
    Community   \* the id of the community's genesis event

ASSUME CommunityAssumption == Community \in Event /\ IsGenesis(Community)

VARIABLE store  \* store[p]: the events p holds

\* The events of the community, and the histories a replica may hold.
Own == {e \in Event : Belongs(e, Community)}

History == {S \in SUBSET Own : ParentClosed(S)}

RInit == store \in [Peer -> History]

Create(p, e) ==
    /\ e \notin UNION {store[q] : q \in Peer}
    /\ Parents[e] \subseteq store[p]
    /\ store' = [store EXCEPT ![p] = @ \cup {e}]

Copy(p, S) ==
    /\ store[p] \subseteq S
    /\ S \subseteq UNION {store[q] : q \in Peer}
    /\ store' = [store EXCEPT ![p] = S]

RNext ==
    \E p \in Peer :
        \/ \E e \in Own : Create(p, e)
        \/ \E S \in History : Copy(p, S)

RSpec == RInit /\ [][RNext]_store
=============================================================================
