------------------------------ MODULE EventDag ------------------------------
(***************************************************************************)
(* Signed events as the core protocol sees them (crates/protocol).  An     *)
(* event is named by its id: a BLAKE3 hash, ordered bytewise, so the ids   *)
(* are natural numbers here and their order is unrelated to causality.     *)
(* Only events that validate_event accepts are in Event: their signature   *)
(* and id check out, and an event has no parents exactly when it omits its *)
(* community_id, which makes it a genesis event.                           *)
(***************************************************************************)
EXTENDS Naturals, FiniteSets

CONSTANTS
    Event,    \* the ids of the validated events that exist
    Parents,  \* Parents[e]: the ids e names as its causal parents
    Home      \* Home[e]: the community e belongs to (its own id for a genesis)

ASSUME EventAssumption == Event \subseteq Nat

ASSUME ParentsAssumption == Parents \in [Event -> SUBSET Event]

\* A community is identified by the id of its genesis event.
ASSUME HomeAssumption ==
    /\ Home \in [Event -> Event]
    /\ \A e \in Event : Parents[e] = {} => Home[e] = e

\* An id is a hash over the parents' ids, so no set of events is cyclic.
ASSUME AcyclicAssumption ==
    \A S \in SUBSET Event : S # {} => \E e \in S : Parents[e] \cap S = {}

\* An id has 32 bytes.
ASSUME FiniteAssumption == IsFiniteSet(Event)

----------------------------------------------------------------------------

IsGenesis(e) == Parents[e] = {}

Belongs(e, c) == Home[e] = c

\* The events of S that no event of S names as a parent.
Heads(S) == S \ UNION {Parents[e] : e \in S}

\* The events of batch all of whose parents are known.
Ready(known, batch) == {e \in batch : Parents[e] \subseteq known}

ParentClosed(S) == \A e \in S : Parents[e] \subseteq S

(***************************************************************************)
(* What repeating "insert the ready events" reaches: the largest part of   *)
(* batch whose members rest on known events and on each other.             *)
(***************************************************************************)
Insertable(known, batch) ==
    UNION {S \in SUBSET batch : \A e \in S : Parents[e] \subseteq known \cup S}

\* An event together with everything it causally depends on.
Ancestry(e) ==
    LET up[f \in Event] == {f} \cup UNION {up[p] : p \in Parents[f]}
    IN  up[e]
=============================================================================
