------------------------------ MODULE CoreNode ------------------------------
(***************************************************************************)
(* One CoreNode over its SQLite EventStore (crates/node-core and           *)
(* crates/storage).  The store survives a crash; the community, the set of *)
(* known ids and the batch being ingested are process memory.  Ingesting   *)
(* is not one transaction: every event of a batch is an INSERT of its own, *)
(* so the process may stop, or SQLite may fail, between any two of them.   *)
(***************************************************************************)
EXTENDS EventDag

CONSTANTS
    NoCommunity,       \* a node that has not seen a genesis event
    MaxPendingEvents   \* MAX_PENDING_EVENTS: the largest batch ingest takes

ASSUME NoCommunityAssumption == NoCommunity \notin Event

ASSUME MaxPendingAssumption == MaxPendingEvents \in Nat \ {0}

VARIABLES
    store,      \* ids of the rows of the events table (durable)
    running,    \* whether a CoreNode is open
    community,  \* CoreNode.community
    known,      \* CoreNode.known
    pending,    \* the batch's events not inserted yet
    wave,       \* the ready events of the current round of the loop
    result,     \* what the last call returned, or "busy" inside ingest
    call        \* history: known at the start of the last ingest, and its batch

vars == <<store, running, community, known, pending, wave, result, call>>

Results == {"none", "busy", "ok", "UnknownCommunity", "WrongCommunity",
            "PendingLimitExceeded", "StorageError"}

NoCall == [known |-> {}, batch |-> {}]

TypeOK ==
    /\ store \subseteq Event
    /\ running \in BOOLEAN
    /\ community \in Event \cup {NoCommunity}
    /\ known \subseteq Event
    /\ pending \subseteq Event
    /\ wave \subseteq pending
    /\ result \in Results
    /\ call \in [known : SUBSET Event, batch : SUBSET Event]

Init ==
    /\ store = {}
    /\ running = FALSE
    /\ community = NoCommunity
    /\ known = {}
    /\ pending = {}
    /\ wave = {}
    /\ result = "none"
    /\ call = NoCall

----------------------------------------------------------------------------

\* EventStore::events: the rows of community c, its genesis included.
StoredEvents(c) == {e \in store : Belongs(e, c)}

(***************************************************************************)
(* CoreNode::open.  Every caller passes None exactly when the store is     *)
(* empty, and a community it has found events of otherwise.                *)
(***************************************************************************)
OpenEmpty ==
    /\ ~running
    /\ store = {}
    /\ running' = TRUE
    /\ community' = NoCommunity
    /\ known' = {}
    /\ UNCHANGED <<store, pending, wave, result, call>>

Open(c) ==
    /\ ~running
    /\ StoredEvents(c) # {}
    /\ running' = TRUE
    /\ community' = c
    /\ known' = StoredEvents(c)
    /\ UNCHANGED <<store, pending, wave, result, call>>

\* The community a batch is ingested into, NoCommunity when there is none.
IngestCommunity(batch) ==
    IF community # NoCommunity THEN community
    ELSE IF \E e \in batch : IsGenesis(e) THEN CHOOSE e \in batch : IsGenesis(e)
    ELSE NoCommunity

\* Mutant: events of another community are not looked for.
PreflightAnyCommunity(batch) ==
    IF Cardinality(batch) > MaxPendingEvents THEN "PendingLimitExceeded"
    ELSE IF IngestCommunity(batch) = NoCommunity THEN "UnknownCommunity"
    ELSE "busy"

\* The checks before the first insert, in their order; "busy" passes them all.
Preflight(batch) ==
    IF Cardinality(batch) > MaxPendingEvents THEN "PendingLimitExceeded"
    ELSE IF IngestCommunity(batch) = NoCommunity THEN "UnknownCommunity"
    ELSE IF \E e \in batch : ~Belongs(e, IngestCommunity(batch)) THEN "WrongCommunity"
    ELSE "busy"

BeginIngest(batch) ==
    /\ running
    /\ result # "busy"
    /\ Preflight(batch) = "busy"
    /\ pending' = batch
    /\ wave' = Ready(known, batch)
    /\ result' = "busy"
    /\ call' = [known |-> known, batch |-> batch]
    /\ UNCHANGED <<store, running, community, known>>

RejectBatch(batch) ==
    /\ running
    /\ result # "busy"
    /\ Preflight(batch) # "busy"
    /\ result' = Preflight(batch)
    /\ UNCHANGED <<store, running, community, known, pending, wave, call>>

\* Mutant: the event is known before its row is written, so a failed or
\* interrupted write leaves a node that knows what it does not have.
InsertKnownOnly(e) ==
    /\ known' = known \cup {e}
    /\ pending' = pending \ {e}
    /\ wave' = wave \ {e}
    /\ community' = IF IsGenesis(e) THEN e ELSE community
    /\ UNCHANGED <<store, running, result, call>>

\* EventStore::insert is INSERT OR IGNORE: a row already there stays as it is.
Insert(e) ==
    /\ store' = store \cup {e}
    /\ known' = known \cup {e}
    /\ pending' = pending \ {e}
    /\ wave' = wave \ {e}
    /\ community' = IF IsGenesis(e) THEN e ELSE community
    /\ UNCHANGED <<running, result, call>>

\* The body of the for loop: the ready events in the order of their ids.
InsertNext ==
    /\ result = "busy"
    /\ \E e \in wave : (\A f \in wave : e <= f) /\ Insert(e)

\* Mutant: the failing insert leaves the rest of its round behind.
InsertFailsKeepsWave ==
    /\ result = "busy"
    /\ wave # {}
    /\ result' = "StorageError"
    /\ pending' = {}
    /\ UNCHANGED <<store, running, community, known, wave, call>>

\* SQLite refuses the insert: ingest returns at once and forgets the batch.
InsertFails ==
    /\ result = "busy"
    /\ wave # {}
    /\ result' = "StorageError"
    /\ pending' = {}
    /\ wave' = {}
    /\ UNCHANGED <<store, running, community, known, call>>

\* The next round of the outer loop: collect what the last round made ready.
NextWave ==
    /\ result = "busy"
    /\ wave = {}
    /\ Ready(known, pending) # {}
    /\ wave' = Ready(known, pending)
    /\ UNCHANGED <<store, running, community, known, pending, result, call>>

\* Mutant: one round is taken to be enough.
FinishAfterOneRound ==
    /\ result = "busy"
    /\ wave = {}
    /\ result' = "ok"
    /\ pending' = {}
    /\ UNCHANGED <<store, running, community, known, wave, call>>

\* Nothing is ready: what is left is reported as unresolved and dropped.
FinishIngest ==
    /\ result = "busy"
    /\ wave = {}
    /\ Ready(known, pending) = {}
    /\ result' = "ok"
    /\ pending' = {}
    /\ UNCHANGED <<store, running, community, known, wave, call>>

\* The process ends, wherever it is: memory is gone, the rows stay.
Crash ==
    /\ running
    /\ running' = FALSE
    /\ community' = NoCommunity
    /\ known' = {}
    /\ pending' = {}
    /\ wave' = {}
    /\ result' = "none"
    /\ call' = NoCall
    /\ UNCHANGED store

Next ==
    \/ OpenEmpty
    \/ \E c \in Event : Open(c)
    \/ \E batch \in SUBSET Event : BeginIngest(batch) \/ RejectBatch(batch)
    \/ InsertNext
    \/ InsertFails
    \/ NextWave
    \/ FinishIngest
    \/ Crash

Spec == Init /\ [][Next]_vars

\* The loop of ingest is straight-line code: it runs on unless it is stopped.
FairSpec == Spec /\ WF_vars(InsertNext) /\ WF_vars(NextWave) /\ WF_vars(FinishIngest)

----------------------------------------------------------------------------

(***************************************************************************)
(* The rows on disk are a history at every instant, also between two       *)
(* inserts of a batch and after a crash there: every parent of a stored    *)
(* event is stored, and so is the genesis event of its community, without  *)
(* which the next open finds no community.  All rows are of one community. *)
(***************************************************************************)
StoreIsHistory ==
    /\ ParentClosed(store)
    /\ \A e \in store : Home[e] \in store
    /\ \A e, f \in store : Home[e] = Home[f]

(***************************************************************************)
(* An open node knows exactly what is on disk: a crash in the middle of a  *)
(* batch followed by open never yields a node that misses a stored event   *)
(* (and would fetch or re-reference it) or knows one that is not stored.   *)
(***************************************************************************)
KnownIsStored ==
    running => /\ known = store
               /\ community = NoCommunity <=> store = {}

(***************************************************************************)
(* A finished ingest left out nothing it could have inserted and inserted  *)
(* nothing it should not have: the rounds of the loop reach the largest    *)
(* part of the batch that rests on the history known before, whatever the  *)
(* order of the ids.                                                       *)
(***************************************************************************)
IngestComplete ==
    result = "ok" => known = call.known \cup Insertable(call.known, call.batch)
=============================================================================
