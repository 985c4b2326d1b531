------------------------------- MODULE Archive ------------------------------
(***************************************************************************)
(* Community archives (crates/storage, archive.rs) and the command that    *)
(* imports one (crates/cli, import-community).  An archive is a set of     *)
(* events that validate_wire accepts.  Its import is a process of its own: *)
(* it asks the chat profile for a projection of the archive, opens the     *)
(* node, puts what is new in a topological order and hands it to ingest in *)
(* batches of the node's limit, so that a failure or a crash leaves some   *)
(* batches, and part of one, behind.                                       *)
(***************************************************************************)
EXTENDS CoreNode, Sequences, SequencesExt

CONSTANTS
    Created,          \* the genesis events whose payload is a chat CommunityCreate
    MaxArchiveEvents  \* MAX_ARCHIVE_EVENTS

ASSUME CreatedAssumption == Created \subseteq {e \in Event : IsGenesis(e)}

ASSUME MaxArchiveAssumption == MaxArchiveEvents \in Nat \ {0}

VARIABLES
    importing,  \* whether the open node is that of an import
    archive,    \* the events of the archive of the last import
    plan,       \* the ids not handed to ingest yet
    outcome     \* what the last import returned, "busy" while it runs

importVars == <<importing, archive, plan, outcome>>
allVars == <<store, running, community, known, pending, wave, result, call,
             importing, archive, plan, outcome>>

ArchiveInit ==
    /\ Init
    /\ importing = FALSE
    /\ archive = {}
    /\ plan = {}
    /\ outcome = "none"

----------------------------------------------------------------------------
\* Mutant: the file is read in its order, and a parent has to come first.
validate_wire_inOrder(S, c) ==
    /\ S # {}
    /\ Cardinality(S) <= MaxArchiveEvents
    /\ {e \in S : IsGenesis(e)} = {c}
    /\ \A e \in S : Belongs(e, c)
    /\ \A e \in S : \A p \in Parents[e] : p \in S /\ p < e

\* validate_wire, of events that are valid themselves: sorted by their ids, they
\* are a set; export checks what it writes as import checks what it reads.
validate_wire(S, c) ==
    /\ S # {}
    /\ Cardinality(S) <= MaxArchiveEvents
    /\ {e \in S : IsGenesis(e)} = {c}
    /\ \A e \in S : Belongs(e, c)
    /\ ParentClosed(S)

\* Mutant: the events are taken in the order of the file.
TopologicalById(S) == SetToSortSeq(S, <)

\* The least id whose parents are not waiting themselves, again and again.
Topological(S) ==
    LET ready(rest) == {e \in rest : Parents[e] \cap rest = {}}
        first(rest) == CHOOSE e \in ready(rest) : \A f \in ready(rest) : e <= f
        order[rest \in SUBSET S] ==
            IF rest = {} THEN <<>> ELSE <<first(rest)>> \o order[rest \ {first(rest)}]
    IN  order[S]

\* An event that is new names a parent that is neither new nor stored.
Incomplete(new, stored) == \E e \in new : ~(Parents[e] \subseteq new \cup stored)

\* Of a history of community c, resolve makes a projection of c exactly when the
\* genesis event, which is judged first and on which everything rests, creates it.
projects(S, c) == c \in S \cap Created

\* The database is not empty and holds nothing of the community.
Foreign(c) == store # {} /\ StoredEvents(c) = {}

\* The refusals of import-community, before it opens the node.
RefuseImport(S, c) ==
    /\ ~running
    /\ validate_wire(S, c)
    /\ \/ ~projects(S, c) /\ outcome' = "ProfileRejected"
       \/ projects(S, c) /\ Foreign(c) /\ outcome' = "WrongDatabaseCommunity"
    /\ archive' = S
    /\ UNCHANGED <<store, running, community, known, pending, wave, result, call,
                   importing, plan>>

\* import-community from there to the first batch.
BeginImport(S, c) ==
    /\ ~running
    /\ validate_wire(S, c)
    /\ projects(S, c)
    /\ ~Foreign(c)
    /\ running' = TRUE
    /\ community' = IF store = {} THEN NoCommunity ELSE c
    /\ known' = StoredEvents(c)
    /\ importing' = TRUE
    /\ archive' = S
    /\ LET new == S \ StoredEvents(c)
       IN  IF Incomplete(new, StoredEvents(c))
           THEN plan' = {} /\ outcome' = "IncompleteArchive"
           ELSE plan' = new /\ outcome' = "busy"
    /\ UNCHANGED <<store, pending, wave, result, call>>

\* The last batch left nothing unresolved.
BatchDone == result = "none" \/ (result = "ok" /\ call.batch \subseteq known)

\* topological.chunks(MAX_PENDING_EVENTS)
Chunk ==
    LET order == Topological(plan)
    IN  {e \in plan : \E n \in 1..MaxPendingEvents : n <= Len(order) /\ order[n] = e}

ImportBatch ==
    /\ importing
    /\ outcome = "busy"
    /\ BatchDone
    /\ plan # {}
    /\ IF Preflight(Chunk) = "busy" THEN BeginIngest(Chunk) ELSE RejectBatch(Chunk)
    /\ plan' = plan \ Chunk
    /\ UNCHANGED <<importing, archive, outcome>>

\* Mutant: the command returns when there is no batch left, and only then.
ImportReturnsDone ==
    /\ importing
    /\ outcome = "busy"
    /\ BatchDone
    /\ plan = {}
    /\ outcome' = "ok"
    /\ UNCHANGED <<store, running, community, known, pending, wave, result, call,
                   importing, archive, plan>>

\* The community of a validated archive.
Genesis(S) == CHOOSE c \in S : IsGenesis(c)

\* The check of the final projection, of all that the node holds now.
FinalProjection ==
    IF projects(StoredEvents(community), Genesis(archive)) THEN "ok" ELSE "ProfileRejected"

\* The command has its answer.
ImportReturns ==
    /\ importing
    /\ outcome = "busy"
    /\ result # "busy"
    /\ ~(BatchDone /\ plan # {})
    /\ outcome' = IF BatchDone THEN FinalProjection
                  ELSE IF result = "ok" THEN "IncompleteArchive" ELSE result
    /\ UNCHANGED <<store, running, community, known, pending, wave, result, call,
                   importing, archive, plan>>

\* The process ends; if the command had no answer yet there is none.
Stop ==
    /\ Crash
    /\ importing' = FALSE
    /\ plan' = {}
    /\ outcome' = IF outcome = "busy" THEN "none" ELSE outcome
    /\ UNCHANGED archive

Loop == InsertNext \/ NextWave \/ FinishIngest

ArchiveNext ==
    \/ \E S \in SUBSET Event, c \in Event : RefuseImport(S, c) \/ BeginImport(S, c)
    \/ ImportBatch
    \/ ImportReturns
    \/ Stop
    \/ /\ OpenEmpty \/ \E c \in Event : Open(c)
       /\ UNCHANGED importVars
    \/ /\ ~importing
       /\ \E batch \in SUBSET Event : BeginIngest(batch) \/ RejectBatch(batch)
       /\ UNCHANGED importVars
    \/ /\ Loop \/ InsertFails
       /\ UNCHANGED importVars

ArchiveSpec == ArchiveInit /\ [][ArchiveNext]_allVars

\* ingest and import-community are straight-line code.
ArchiveFairSpec ==
    /\ ArchiveSpec
    /\ WF_allVars(Loop /\ UNCHANGED importVars)
    /\ WF_allVars(ImportBatch \/ ImportReturns)

----------------------------------------------------------------------------

\* An import that returns Ok has stored the whole archive.
SuccessIsWhole == outcome = "ok" => archive \subseteq store

(***************************************************************************)
(* The import of an archive that validates is refused before it stores     *)
(* anything, or fails for one reason only, the storage; and when it        *)
(* succeeds the whole archive is stored.  It is refused for a genesis      *)
(* event that the chat profile does not accept, or for a database that     *)
(* holds another community.  What got past both checks does not fail the   *)
(* check of the final projection, and no batch is cut so that it leaves a  *)
(* parent for a later one, whatever part of the history an import that was *)
(* stopped has left.                                                       *)
(***************************************************************************)
ImportIsComplete ==
    /\ importing => outcome \in {"busy", "ok", "StorageError"}
    /\ outcome \in {"none", "busy", "ok", "StorageError", "ProfileRejected",
                    "WrongDatabaseCommunity"}
    /\ outcome = "ProfileRejected" => archive \cap Created = {}
    /\ outcome = "WrongDatabaseCommunity" =>
           \E e \in store, f \in archive : Home[e] # Home[f]
    /\ SuccessIsWhole

(***************************************************************************)
(* What a node holds can be exported, and so imported elsewhere, at every  *)
(* moment and after every crash, as long as an archive may be that large.  *)
(***************************************************************************)
HistoryIsExportable ==
    running /\ store # {} /\ Cardinality(store) <= MaxArchiveEvents =>
        validate_wire(store, community)

(***************************************************************************)
(* Every ingest returns, also one of a batch that lacks parents, and so    *)
(* does every import, unless their process is stopped.                     *)
(***************************************************************************)
CallsReturn ==
    /\ result = "busy" ~> result # "busy"
    /\ outcome = "busy" ~> outcome # "busy"
=============================================================================
