-------------------------------- MODULE Sync --------------------------------
(***************************************************************************)
(* The synchronization of one community between network processes: the     *)
(* SyncPeer of crates/sync and the request-response transport that drives  *)
(* it.  A link <<p, q>> is what p asks of q on their connection: one Hello *)
(* per connection, q's heads in reply, a Want per unknown head, an event   *)
(* in reply to each, and again a Want for every parent p misses.           *)
(*                                                                         *)
(* The store survives the process; pending, the links and what is on its   *)
(* way do not.  Nothing is retried, and nothing is pushed: an event is     *)
(* only seen by a peer that says Hello after it was stored.                *)
(***************************************************************************)
EXTENDS Replication, FiniteSetsExt

CONSTANTS
    Redemption,        \* the events that redeem an invitation
    Bytes,             \* Bytes[e]: the encoded size of e
    Quota,             \* Quota[p]: max_stored_event_bytes (large where p has none)
    MaxPending,        \* MAX_PENDING_SYNC_EVENTS
    MaxIds,            \* MAX_IDS_PER_MESSAGE
    MaxFrame,          \* MAX_MESSAGES_PER_FRAME
    MaxFaults          \* bound: the faults of each kind

\* A message is lost, a connection closes, a process ends.
FaultKind == {"message", "connection", "process"}

ASSUME RedemptionAssumption == Redemption \subseteq Event

ASSUME BytesAssumption == Bytes \in [Event -> Nat]

ASSUME QuotaAssumption == Quota \in [Peer -> Nat]

\* Heads come in messages of at most MaxIds ids, and asking for all of them
\* never takes more than one frame of Wants.
ASSUME LimitAssumption ==
    /\ MaxPending \in Nat
    /\ MaxFrame \in Nat
    /\ MaxIds \in 1..MaxFrame
    /\ MaxFaults \in [FaultKind -> Nat]

Link == {l \in Peer \X Peer : l[1] # l[2]}

VARIABLES
    pending,  \* pending[p]: received events that lack a parent
    alive,    \* alive[p]: p runs its network process
    linked,   \* the links whose connection is up (both directions, or none)
    session,  \* session[l]: what l[1] has asked of l[2] on this connection
    clean,    \* history: since p started nothing it had asked for got lost
    faults    \* bound: the faults so far

vars == <<store, pending, alive, linked, session, clean, faults>>

\* idle -> asked -> answered -> told, or the Hello or its answer is lost, or
\* the answer is a rejection.
Phase == {"idle", "asked", "answered", "told", "lost", "rejected"}

Nothing == [e \in Event |-> 0]

Idle == [phase |-> "idle", heads |-> {}, wants |-> Nothing, replies |-> Nothing]

TypeOK ==
    /\ store \in [Peer -> SUBSET Event]
    /\ pending \in [Peer -> SUBSET Event]
    /\ alive \in [Peer -> BOOLEAN]
    /\ linked \subseteq Link
    /\ session \in [Link -> [phase : Phase, heads : SUBSET Event,
                             wants : [Event -> Nat], replies : [Event -> Nat]]]
    /\ clean \in [Peer -> BOOLEAN]
    /\ faults \in [FaultKind -> Nat]

Init ==
    /\ RInit
    /\ pending = [p \in Peer |-> {}]
    /\ alive = [p \in Peer |-> FALSE]
    /\ linked = {}
    /\ session = [l \in Link |-> Idle]
    /\ clean = [p \in Peer |-> TRUE]
    /\ faults = [kind \in FaultKind |-> 0]

----------------------------------------------------------------------------
\* Processes and connections

Size(S) == MapThenSumSet(LAMBDA e : Bytes[e], S)

Touches(l, p) == l[1] = p \/ l[2] = p

\* Something l[1] asked for is still on its way.
Busy(l) == \E e \in Event : session[l].wants[e] > 0 \/ session[l].replies[e] > 0

\* The connections of Links close: ConnectionClosed forgets the session at
\* either end, and what was on its way is gone.
Drop(Links) ==
    /\ linked' = linked \ Links
    /\ session' = [l \in Link |-> IF l \in Links THEN Idle ELSE session[l]]

Spoil(Links) ==
    clean' = [p \in Peer |-> clean[p] /\ ~\E l \in Links : l[1] = p /\ Busy(l)]

\* The process of p ends: an idle timeout, a signal, or an error nobody handles.
Exit(p) ==
    /\ alive' = [alive EXCEPT ![p] = FALSE]
    /\ pending' = [pending EXCEPT ![p] = {}]
    /\ Drop({l \in Link : Touches(l, p)})
    /\ Spoil({l \in Link : Touches(l, p)})

\* The network command starts; with_storage_quota refuses a store over its quota.
Start(p) ==
    /\ ~alive[p]
    /\ Size(store[p]) <= Quota[p]
    /\ alive' = [alive EXCEPT ![p] = TRUE]
    /\ clean' = [clean EXCEPT ![p] = TRUE]
    /\ UNCHANGED <<store, pending, linked, session, faults>>

\* The lock on the state directory keeps other commands out while the network
\* runs.  A new event names all heads of the store as its parents.
Author(p, e) ==
    /\ ~alive[p]
    /\ store[p] # {}
    /\ e \notin Redemption
    /\ Create(p, e)
    /\ Parents[e] = Heads(store[p])
    /\ UNCHANGED <<pending, alive, linked, session, clean, faults>>

\* BootstrapAcceptance: what a joiner signed on top of the invitation's ancestry
\* is ingested by the node itself, past the limits of accept.
Redeem(p, e) ==
    /\ alive[p]
    /\ e \in Redemption
    /\ Create(p, e)
    /\ UNCHANGED <<pending, alive, linked, session, clean, faults>>

Connect(p, q) ==
    /\ alive[p] /\ alive[q]
    /\ <<p, q>> \in Link \ linked
    /\ linked' = linked \cup {<<p, q>>, <<q, p>>}
    /\ UNCHANGED <<store, pending, alive, session, clean, faults>>

Fault(kind) ==
    /\ faults[kind] < MaxFaults[kind]
    /\ faults' = [faults EXCEPT ![kind] = @ + 1]

Disconnect(l) ==
    /\ Fault("connection")
    /\ l \in linked
    /\ Drop({l, <<l[2], l[1]>>})
    /\ Spoil({l, <<l[2], l[1]>>})
    /\ UNCHANGED <<store, pending, alive>>

Stop(p) ==
    /\ Fault("process")
    /\ alive[p]
    /\ Exit(p)
    /\ UNCHANGED store

----------------------------------------------------------------------------
\* Requests and responses

\* maybe_start_sync: Hello is sent once per connection.
StartSync(l) ==
    /\ l \in linked
    /\ session[l].phase = "idle"
    /\ session' = [session EXCEPT ![l].phase = "asked"]
    /\ UNCHANGED <<store, pending, alive, linked, clean, faults>>

\* head_messages, and normalize_messages on the frame they make.
HandleHello(l) ==
    LET heads == Heads(store[l[2]])
    IN  /\ session[l].phase = "asked"
        /\ session' =
              IF Cardinality(heads) <= MaxIds * MaxFrame
              THEN [session EXCEPT ![l].phase = "answered", ![l].heads = heads]
              ELSE [session EXCEPT ![l].phase = "rejected"]
        /\ UNCHANGED <<store, pending, alive, linked, clean, faults>>

\* A rejection ends the process that asked.
ReceiveRejected(l) ==
    /\ session[l].phase = "rejected"
    /\ Exit(l[1])
    /\ UNCHANGED <<store, faults>>

\* One more message on its way for every event of S; one less for e.
More(count, S) == [e \in Event |-> IF e \in S THEN count[e] + 1 ELSE count[e]]

Less(count, e) == [count EXCEPT ![e] = @ - 1]

\* want_unknown.
Unknown(p, S) == S \ (store[p] \cup pending[p])

ReceiveHeads(l) ==
    /\ session[l].phase = "answered"
    /\ session' = [session EXCEPT ![l].phase = "told",
                                  ![l].wants = More(@, Unknown(l[1], session[l].heads))]
    /\ UNCHANGED <<store, pending, alive, linked, clean, faults>>

\* Mutants: a Want nobody sent is answered; none is while the peer waits itself.
HandleWantUnasked(l, e) ==
    /\ l \in linked
    /\ session[l].wants[e] >= 0
    /\ session' = [session EXCEPT ![l].wants = Less(@, e)]
    /\ UNCHANGED <<store, pending, alive, linked, clean, faults>>

HandleWantBusy(l, e) ==
    /\ session[l].wants[e] > 0
    /\ ~Busy(<<l[2], l[1]>>)
    /\ session' = [session EXCEPT ![l].wants = Less(@, e),
                                  ![l].replies = IF e \in store[l[2]] THEN More(@, {e}) ELSE @]
    /\ UNCHANGED <<store, pending, alive, linked, clean, faults>>

\* serve: an event that is not in the store is answered with nothing.
HandleWant(l, e) ==
    /\ session[l].wants[e] > 0
    /\ session' = [session EXCEPT ![l].wants = Less(@, e),
                                  ![l].replies = IF e \in store[l[2]] THEN More(@, {e}) ELSE @]
    /\ UNCHANGED <<store, pending, alive, linked, clean, faults>>

\* accept, on the one event a reply carries.
Batch(p, e) == pending[p] \cup Unknown(p, {e})

\* Mutant: the incoming event is not counted.
RefusedLate(p, e) ==
    \/ Cardinality(pending[p]) > MaxPending
    \/ Size(store[p]) + Size(pending[p]) > Quota[p]

Refused(p, e) ==
    \/ Cardinality(Batch(p, e)) > MaxPending
    \/ Size(store[p]) + Size(Batch(p, e)) > Quota[p]

\* Mutants: one round of the ingest loop; no look at the parents.
IngestedOnce(p, e) ==
    IF store[p] # {} \/ Community \in Batch(p, e)
    THEN Ready(store[p], Batch(p, e))
    ELSE {}

IngestedAll(p, e) == IF store[p] # {} \/ Community \in Batch(p, e) THEN Batch(p, e) ELSE {}

\* What ingest inserts of the batch; a node without a community needs its genesis.
Ingested(p, e) ==
    IF store[p] # {} \/ Community \in Batch(p, e)
    THEN Insertable(store[p], Batch(p, e))
    ELSE {}

\* Mutant: an event with a known parent is taken to need no others.
MissingOfOrphans(S, B) ==
    (UNION {Parents[e] : e \in {f \in B : Parents[f] \cap S = {}}}) \ (S \cup B)

\* The parents accept still misses, when p holds S and keeps the events of B.
Missing(S, B) == (UNION {Parents[e] : e \in B}) \ (S \cup B)

\* The refused event is an error of handle_response, which ends the process.
ReceiveRefused(l, e) ==
    /\ session[l].replies[e] > 0
    /\ Refused(l[1], e)
    /\ Exit(l[1])
    /\ UNCHANGED <<store, faults>>

Receive(l, e) ==
    LET p == l[1]
        got == Ingested(p, e)
        missing == Missing(store[p] \cup got, Batch(p, e) \ got)
    IN  /\ session[l].replies[e] > 0
        /\ ~Refused(p, e)
        /\ store' = [store EXCEPT ![p] = @ \cup got]
        /\ IF Cardinality(missing) > MaxFrame
           THEN Exit(p)
           ELSE /\ pending' = [pending EXCEPT ![p] = Batch(p, e) \ got]
                /\ session' = [session EXCEPT ![l].replies = Less(@, e),
                                              ![l].wants = More(@, missing)]
                /\ UNCHANGED <<alive, linked, clean>>
        /\ UNCHANGED faults

\* OutboundFailure and InboundFailure are reported and nothing else.
LoseHello(l) ==
    /\ Fault("message")
    /\ session[l].phase \in {"asked", "answered"}
    /\ session' = [session EXCEPT ![l].phase = "lost"]
    /\ UNCHANGED <<store, pending, alive, linked, clean>>

LoseWant(l, e) ==
    /\ Fault("message")
    /\ session[l].wants[e] > 0
    /\ session' = [session EXCEPT ![l].wants = Less(@, e)]
    /\ clean' = [clean EXCEPT ![l[1]] = FALSE]
    /\ UNCHANGED <<store, pending, alive, linked>>

LoseReply(l, e) ==
    /\ Fault("message")
    /\ session[l].replies[e] > 0
    /\ session' = [session EXCEPT ![l].replies = Less(@, e)]
    /\ clean' = [clean EXCEPT ![l[1]] = FALSE]
    /\ UNCHANGED <<store, pending, alive, linked>>

Answer(l) ==
    \/ HandleHello(l)
    \/ ReceiveRejected(l)
    \/ ReceiveHeads(l)
    \/ \E e \in Event : HandleWant(l, e) \/ ReceiveRefused(l, e) \/ Receive(l, e)

Next ==
    \/ \E p \in Peer : Start(p) \/ Stop(p) \/ \E e \in Own : Author(p, e) \/ Redeem(p, e)
    \/ \E p, q \in Peer : Connect(p, q)
    \/ \E l \in Link :
          \/ Disconnect(l)
          \/ StartSync(l)
          \/ Answer(l)
          \/ LoseHello(l)
          \/ \E e \in Event : LoseWant(l, e) \/ LoseReply(l, e)

Spec == Init /\ [][Next]_vars

\* libp2p carries out what was asked for on a connection that stays up.
FairSpec == Spec /\ \A l \in Link : WF_vars(Answer(l))

----------------------------------------------------------------------------

(***************************************************************************)
(* Nothing waits that could be stored: an event stays in pending only for  *)
(* want of a parent, directly or through other pending events, so no       *)
(* arrival order leaves a complete history behind in memory.               *)
(***************************************************************************)
PendingWaits ==
    \A p \in Peer :
        /\ pending[p] \cap store[p] = {}
        /\ Insertable(store[p], pending[p]) = {}

\* The bytes p has stored or keeps waiting.
Usage(p) == Size(store[p]) + Size(pending[p])

(***************************************************************************)
(* docs/adr/0020: the projected usage counts what is stored, what waits    *)
(* and what is new, so whichever peers feed a process and in whatever      *)
(* order, it never takes in an event past its quota, nor lets more wait    *)
(* than it may.  The one exception is the redemption of an invitation.     *)
(***************************************************************************)
WithinBudget ==
    [][\A p \in Peer :
          /\ Cardinality(pending'[p]) <= MaxPending
          /\ Usage(p)' <= Quota[p] \/ Usage(p)' <= Usage(p) \/ \E e \in Own : Redeem(p, e)
             \/ ~alive[p]]_vars

\* Nothing p asked for is on its way any more.
Quiet(p) == \A l \in Link : l[1] = p => ~Busy(l)

(***************************************************************************)
(* A process that has lost nothing since it started has, once all it asked *)
(* for has been answered, stored every head it was told of: the recursion  *)
(* over missing parents leaves no gap, even when several peers answer in   *)
(* turn and are asked for events they do not have.                         *)
(***************************************************************************)
QuietIsComplete ==
    \A l \in Link :
        /\ alive[l[1]]
        /\ clean[l[1]]
        /\ Quiet(l[1])
        /\ session[l].phase = "told"
        => session[l].heads \subseteq store[l[1]]

\* Every head told of is stored in the end, unless something gets lost.
HeadsArrive ==
    \A l \in Link :
        session[l].phase = "told" ~>
            \/ session[l].heads \subseteq store[l[1]]
            \/ ~clean[l[1]]
            \/ ~alive[l[1]]

\* The messages implement the abstract replication of the stores.
Replicates == RSpec

(***************************************************************************)
(* docs/adr/0009: an event that arrives before its parents remains pending *)
(* and the missing parents are requested recursively.  So, on a connection *)
(* to a peer that has them and with nothing left on its way, no pending    *)
(* event should still miss a parent.                                       *)
(***************************************************************************)
MissingParentsRequested ==
    \A l \in Link :
        session[l].phase = "told" /\ Quiet(l[1])
        => Missing(store[l[1]], pending[l[1]]) \cap store[l[2]] = {}
=============================================================================
