# ChatCommons: a TLA+ verification project

ChatCommons is a chat system without a central service: a community is a DAG of
signed events that every member's node stores, synchronizes with other nodes and
projects into a community state by fixed rules. This directory models the parts
of the repository that make this work, checks them with TLC and proves the main
results with TLAPS.

## The system

| Part | Source | State | Operations |
| --- | --- | --- | --- |
| protocol | `crates/protocol` | none | `validate_event`, `create_signed`, `community_id`: an event names its parents by hash; it has none exactly when it is a genesis event |
| crypto | `crates/crypto` | none | Ed25519 |
| storage | `crates/storage` | the SQLite table of events | `insert` (autocommit, INSERT OR IGNORE), `events`, `get` |
| node-core | `crates/node-core` | `community`, `known` beside the table | `open`, `ingest`, `heads`, `ancestry` |
| profile-chat | `crates/profile-chat` | none (a pure projection) | `resolve`: which events count, who is owner, administrator, member, which invitations are open, which Home Server is bound |
| sync | `crates/sync/src/lib.rs` | `pending` in memory, the quota | `hello`, `head_messages`, `want_unknown`, `serve`, `accept` |
| sync network | `crates/sync/src/network.rs` | per peer: authenticated, accepted by remote, sync started, bootstrap steps | the swarm's event loop, one handler per event |
| auth, bootstrap | `crates/sync/src/auth.rs`, `bootstrap.rs` | none | device certificates, invitation codes, possession proofs |
| relay | `crates/relay` | libp2p's | configuration of a Relay v2 server |
| cli | `crates/cli` | the state directory with its identity and its lock, the database | `init`, `create-community`, `create-channel`, `send-message`, `create-invite`, `set-home-server`, `join`, `network`, `home-server`, `import`, `export` |
| desktop | `apps/desktop` | one running job, the snapshot on display, a draft, `client.json`; the feedback form and its receipt | launch, join, refresh, send, poll; report a problem, check for a reply |
| review prototype | `apps/review-prototype` | reviews with a status, screenshot files, an audit log | create, receipt, edit, withdraw, update |
| deployment | `deploy/bin` | snapshots of a server | backup, restore |

How they interact. A CLI command loads the state directory, takes its lock, opens
the store through `CoreNode` and either appends one event or runs the network
until it is stopped; the lock keeps the two apart. The network command drives a
`NetworkNode`, which hands `Sync` messages to a `SyncPeer`, which ingests into
the `CoreNode`. After every network event the command runs `resolve` on the whole
store and replaces the sets of users, devices and invitations the network accepts.
The desktop client runs such commands as sidecar processes, one after the other,
from the thread of its one job, and reads and writes `client.json` between them;
its feedback form talks to the review service over HTTP.

What is hard here: batches that are inserted row by row and may stop anywhere;
events that arrive in any order, more than once, from several peers; requests
that fail and are not repeated; limits that end the process; a projection whose
outcome depends on the order concurrent events are taken in; invitations that
two people redeem at once; authorization that changes under an open connection;
sidecars that outlive the window that started them; files that are written in
place; requests of several people that read a row and write it later.
`PROJECT.json` lists these as hazards, each at its line.

## Modules

    EventDag              the events, their parents and communities
     |- CoreNode          a node over its store           NodeProofs
     |   `- Archive       export and import               NodeProofs
     |- ChatRules         the rules of the chat profile
     |   `- Resolver      the loop of resolve             ResolverProofs
     `- Replication       what synchronization promises (abstract)
         `- Sync          SyncPeer and its transport      SyncProofs
    Session               the tables of a NetworkNode     SessionProofs
    Community             replicas, commands, snapshots   CommunityProofs
                          (instantiates ChatRules)
    Desktop               windows, threads and sidecars   DesktopProofs
    Review                the feedback service
     `- Feedback          and the desktop client's form   FeedbackProofs
    Recursion             what the proofs know of recursion over data

`MCx` instantiates module `x` for TLC; the `.cfg` files name the instances.

`EventDag` fixes what the core protocol guarantees of any set of valid events.
Event ids are natural numbers: the code orders hashes bytewise, and that order is
unrelated to causality, so the instances give parents larger ids than children
as well as smaller ones. Acyclicity is an assumption, since an id is a hash over
the parents' ids. `Heads`, `Ready`, `Ancestry` are the code's; `Insertable` is the
reference definition of what `ingest` should insert.

`CoreNode` models `CoreNode::open` and `ingest`. Each insert is a step, because
each is a transaction; between two of them the process may crash (memory is lost,
rows stay) or SQLite may fail (`ingest` returns). `Preflight` holds the early
returns in their order. `call` is a history variable that remembers the batch so
that `IngestComplete` can say what the loop should have reached.

`Archive` adds `import-community` to it: a process that asks `resolve` for a
projection of a valid archive, opens the node, orders the new events topologically,
hands them to `ingest` in batches of the node's limit and asks `resolve` again, of
all that the node holds then (`FinalProjection`). Its steps are those of `CoreNode`
between a `BeginImport` and an `ImportReturns`; a failing insert ends the import, a
crash ends the process, and the next import, or any other command, finds what is
left. `RefuseImport` is the import that ends before the node is open: the profile
projects another community or none (`ProfileRejected`), or the database holds
another community (`Foreign`). Whether `resolve` projects the archive's community
rests on its genesis event alone (`projects`), as `GenesisAlwaysDecides` proves of
`Resolver`; `Created` are the genesis events it accepts. `validate_wire` is both
what an import accepts and what an export checks before it writes.

`ChatRules` has the operators of `profile-chat`, under their own names: `decode`,
`priority`, `validate_context`, `apply`. A payload is a kind, a subject and a flag
`sound` that stands for its key lengths and capability signature. `resolve` is a
reference definition without a loop: judge the events once each in the order of
causal depth, priority and id. `Resolver` is the loop of the code, one event per
step, on any set of valid events.

`Replication` says what replicas may do: create an event on top of what they hold,
or copy events others hold, always keeping a closed history. `Sync` is the
protocol: processes start and end, connections open and close, a Hello per
connection is answered with heads, a Want per unknown head or missing parent with
an event or nothing. `wants` and `replies` count what is on its way per link and
event: libp2p carries requests as independent substreams, so they overtake each
other. One step of `Receive` is all of `accept`, including the ingest: the row by
row view is `CoreNode`'s. `Redeem` is an acceptance the Home Server ingests through
`node_mut`, past every limit. `clean` is a history variable: nothing this process had
asked for was lost since it started.

Errors of the network loop that the command does not handle (`Rejected`, quota,
pending limit, frame limit) are `Exit`: the process ends, its pending events and
connections are gone, its store stays.

`Session` is what happens before two peers synchronize, and what may happen to
them afterwards. `table[n][c]` is the collection `c` of node `n`'s `NetworkNode`
(`authenticated`, `authentication_sent`, `accepted_by_remote`, `sync_started`,
`provisional`, `pending_challenges`, `proved_bootstraps`), and each arm of
`handle_request` and `handle_response` is an action with what the command loop
does after it: `refresh_network_authorization` replaces the view and drops peers
(`Refreshed`), and an unhandled error ends the process (`End`). `view[n]` is what
`resolve` makes of the store, any value in which an invitation that `n` redeemed
is not active again. A node dials once, when it starts. A closed connection is
noticed by each side on its own (`stale`, `Notice`): a process that is killed
sends nothing, and libp2p only finds out after an idle timeout. Until then the
code keeps its tables, also when the peer has come back on another connection.
What is on its way on a connection that closes is gone.

`Community` composes the chat profile with the commands. The ids, authors and
payloads of the events are given and their parents are variables: an event is
made when its author's command runs, on top of all heads of its store, if the
candidate check of the command passes. The state directory's lock makes a
command one step, and `join`, which waits for an endpoint, several: `Prove`,
`ReceiveAncestry` (which stores the ancestry and the acceptance before anybody
has approved them), `Decide` at the endpoint, `Answer`; `Break` may end it
anywhere. `Synchronize` is the result of a session (`Replication`), allowed
between peers that admit each other. `Snapshot` and `Restore` are the deployment
scripts, `Import` is the export at one replica and the import at another.

`Desktop` is one state directory and the launches of the client over it. A window
has a slot for one job; `job[w].at` is where the thread of the job is,
`sidecar[w]` the process it waits for. `init` looks for `identity.json`, creates
it and writes it; the other commands read it, take the lock, or fail at once, and
release the lock when they end. A window may be closed at any moment: its thread
is gone, the sidecar runs on with the lock and the database, and a window launched
meanwhile meets it. `PowerLoss` leaves the disk alone. `save_config` is
`fs::write`, which truncates and writes. `list-channels` and `list-messages` print
what `resolve` accepts, so a stored message may disappear again: a synchronization
brings events of others, and `refused` is what the profile rejects of this
directory's events from then on, anything that holds with an event also those that
rest on it (`Refusals`); a new message, whose parents are all heads, is then
refused as well. `disputed` is a history variable, the texts that were ever
rejected. What a message says is told apart because `sent` and `failed` follow it
from the draft, which is cleared at once, to the database or the notice. The
network is what it does to a sidecar: it may answer, fail, or go silent
(`LoseConnection`) where the command only prints a closed connection.

`Review` is the service, a thread per request. A transaction is a step; `edit` and
`withdraw` read the row in one and write it by its number in another, since
Python's `sqlite3` opens a transaction only at the first write. `Restart` ends all
threads, `LoseAnswer` loses what one has answered. `Feedback` adds the form: one
slot for a report or a check, `feedback-receipt.json` truncated and written in
place, and a process that may be killed while its request goes on. `submitted` is
a history variable: what was on a form when its button was pressed.

## Runs

| Run | Checks | Instance |
| --- | --- | --- |
| `core_node` | `TypeOK`, `StoreIsHistory`, `KnownIsStored`, `IngestComplete`, `ImportIsComplete`, `HistoryIsExportable`, `CallsReturn` | a diamond-like history whose ids run against causality and a second community, whose genesis event the chat profile does not accept; batches and archives of every shape |
| `resolver` | `TypeOK`, `OwnerInCharge`, `SingleRedemption`, `AcceptedIsHistory`, `MembersWereAdmitted`, `RemovedStaySilent`, `LoopIsResolve` | all 2^15 subsets of a history of 15 events by three users |
| `home_server_order` | `HomeServerByEventId`, violated | four events by the owner |
| `sync` | `TypeOK`, `PendingWaits`, `QuietIsComplete`, `WithinBudget`, `Replicates`, `HeadsArrive` | two replicas of a forked history, one event of it redeemed past the limits, quota and pending limit small enough to be hit, faults of every kind |
| `pending_stuck` | `MissingParentsRequested`, violated | two replicas of a chain, one reconnect |
| `session` | `TypeOK`, `AuthorizedNow`, `AcceptanceIsMutual`, `OneRedemption`, `SessionOpens` | an endpoint and two joiners with codes of one invitation, four processes in all, one lost message, symmetry over the joiners |
| `half_open` | `BothSendHello`, violated | two members, one of which restarts |
| `community` | `TypeOK`, `JoinedIsMember`, `EndpointVouched`, `OwnerMaySelect`, `AcceptedForever` | owner, server and two people with one invitation, eight events, one snapshot, one restore, an archive, two parents at most |
| `restored_server` | `OwnerMaySelect`, violated | as `community`, the owner dials the server, one snapshot and one restore |
| `desktop` | `TypeOK`, `StoreIsOurs`, `ConfiguredIsJoined`, `FailedIsNotStored`, `LocalFirst`, `JobEnds` | two launches over one directory, one message |
| `desktop_blocked` | `ConversationShown`, violated | the same |
| `feedback` | `TypeOK`, `AuditReplays`, `InboxHoldsReports`, `ReceiptIsTrue` | one client, one browser, the owner, three rows in all |

What they show.

- *A store is a history at every instant* (`StoreIsHistory`), also between two
  inserts and after a crash there, and a reopened node knows exactly what is on
  disk (`KnownIsStored`). `ingest` inserts all it can and nothing else
  (`IngestComplete`), and ends (`CallsReturn`).
- *An import is refused before it stores anything, or fails for the storage alone,
  or stores all of its archive* (`ImportIsComplete`), whatever an interrupted
  import has left behind: it is refused only for a genesis event that the chat
  profile does not accept or a database of another community, and the check of the
  final projection refuses nothing that the first one let pass. It returns
  (`CallsReturn`); *what a node holds can be exported* (`HistoryIsExportable`)
  after any of this, within the limit on events.
- *Authority is never orphaned* (`OwnerInCharge`), *an invitation admits one
  person* (`SingleRedemption`, `MembersWereAdmitted`), *a removal silences*
  (`RemovedStaySilent`), *what counts is a history* (`AcceptedIsHistory`), and the
  loop computes its loop-free definition on every subset (`LoopIsResolve`), so the
  projection depends on the set of events alone.
- *Synchronization replicates* (`Replicates`: a step of `Sync` is a step of
  `Replication` or leaves the stores alone) and *leaves no gap* (`QuietIsComplete`,
  `HeadsArrive`): once everything a process asked for is answered and nothing got
  lost, every head it was told of is stored. The theorem adds any number of
  replicas, and Wants sent to a peer that does not have the event.
- *Nothing a peer receives takes it over its budget* (`WithinBudget`), an action
  property because a redeemed invitation may: from then on the peer refuses.
- *Nobody is answered who is not admitted now* (`AuthorizedNow`): replacing the
  authorization after each event reaches every open session. *A confirmation is
  never one of an earlier connection* (`AcceptanceIsMutual`). *An endpoint lets one
  of the people who proved an invitation in* (`OneRedemption`). *A session opens*
  (`SessionOpens`): on a new connection, whatever order the two authentications
  and the bootstrap run in, something is on its way until both have said Hello,
  unless a message is lost; a join never waits in silence on a live connection.
- *A join that reports success is one* (`JoinedIsMember`), *an invitation vouches
  for its endpoint* whatever happened since (`EndpointVouched`), and *no replica
  takes an accepted event back* although it judges the whole store anew
  (`AcceptedForever`), both until a snapshot is restored. From then on two
  acceptances of one invitation may be approved, and when they meet the one with the
  larger id is rejected, as ADR 0015 says of competing approvals (76-81); in the
  instance of `restored_server` they do meet. *The owner
  can select a Home Server* (`OwnerMaySelect`) as long as no invitation is redeemed
  twice and the heads stay within `MAX_PARENTS`.
- *A directory speaks with one voice* (`StoreIsOurs`): however many windows and
  orphaned sidecars race for `identity.json`, what is stored is signed with its
  keys. *A configured community is a joined one* (`ConfiguredIsJoined`). *What was
  reported to have failed was not stored* (`FailedIsNotStored`), so that typing the
  message again does not say it twice: this is not obvious, because a job lists
  channels and messages after it has stored, and rests on `client.json` and the
  identity staying readable once a window shows a conversation. *What is stored is
  shown first* (`LocalFirst`): while a window synchronizes it displays what it has
  stored, except for what the profile has rejected since, which no client renders
  (ADR 0022:20-22). *A job ends* (`JobEnds`) unless its sidecar hangs.
- *The audit log replays to the table* (`AuditReplays`) although threads interleave
  between reading and writing a row. *The inbox holds what was sent*
  (`InboxHoldsReports`), text and picture, whatever the form says by then. *A
  receipt shows a state its report was in* (`ReceiptIsTrue`), status and reply of
  one moment.

Five runs document where the code does something other than a document says.

- `home_server_order`: ADR 0017 says concurrent Home Server declarations are
  applied in the order of their ids. `resolve` works in waves by causal depth and
  sorts by id only within a wave, so the declaration with more ancestors wins.
  All replicas agree on the winner; it is not the one the ADR names.
- `pending_stuck`: ADR 0009 says the missing parents of a pending event are
  requested recursively. If the connection closes while a parent is on its way,
  the head stays pending; after a reconnect `want_unknown` leaves it out, and
  nobody asks for the parent again until the process restarts or another event
  arrives.
- `half_open`: ADR 0009 says both peers send Hello. A member that is killed and
  restarted while the other side still counts the old connection is accepted, but
  the other side has "sent" its certificate already and does not send it again, so
  the member never accepts it and neither of them says Hello on the new
  connection. A one-shot synchronization starts its timer with the first progress
  and waits. Closing of the old connection changes nothing while the new one is
  open (`num_established > 0`).
- `restored_server`: ADR 0017 says an owner may select a replacement server without
  anybody's cooperation. A restored server lets an invitation be redeemed a second
  time; the owner who synchronizes both acceptances has a rejected head, names it
  as a parent of every new event, and has each of them refused.
- `desktop_blocked`: the client's README says an unreachable server does not block
  the local conversation. The launch synchronizes before it lists anything, and
  the idle timeout of the synchronization starts with its first progress; a
  connection that is lost before that leaves the sidecar, the job and the window
  waiting, with the conversation on disk and not on display.

Bounds. Histories are small but contain each shape the code tells apart: a fork, a
merge, a chain longer than one round of the ingest loop, ids against and along
causality, a foreign genesis. Two peers show every interleaving of two links.
`MaxFaults` bounds lost messages, lost connections and stopped processes: one of
each suffices for each of the recovery paths. `Session`: `Link` says who may dial
whom (members dial the endpoint), `MaxStarts` = 4 gives each node a process and
one of them a second one, so that somebody restarts or comes back as a member,
`MaxLosses` = 1. (With any number of starts and no loss the five invariants hold
as well; that takes longer than is useful in a regression run.) `Community`:
`Dial`, `Handover`, `MaxBackups` and `MaxRestores` say who synchronizes, who is
given an archive and how often a server is saved and lost; `MaxParents` and
`MaxAncestry` are the code's limits, small enough to be reached. The state
constraint `MCScenario` of `MCCommunity` keeps two stories apart that would
multiply each other's states: the race of two people for an invitation while the
Home Server moves, without snapshots or messages; and the life of a community with
one other member, a snapshot, a restore and an archive, without a second Home
Server. It leaves out the race around a restore. That is what `restored_server`
runs without the constraint, and there acceptances do collide: so `JoinedIsMember`
and `AcceptedForever` speak of the time before a restore only, for which both are
proved without the constraint; `OwnerMaySelect`, which speaks of every moment, is
what fails in that run; and `EndpointVouched` is proved with any race and any restore.
`Desktop`: two launches are enough for every race, since a third meets only what
the first two have left on disk; one message may fail, be stored, be rejected and
accepted again, and a second one, which rests on the first or shares its channel,
only multiplies the states (the theorems are about any number of either).
`Feedback`: `MaxWrites` bounds the rows of both tables together, so that three
rows are two reports and a decision, or one report that is edited and decided; the
client is launched again only when the request of its killed predecessor has
ended. Deadlock is not checked where the system may stop: `resolve` returns, and
replicas that are up to date have nothing left to do.

Fairness. `CoreNode`: the loop of `ingest` is straight-line code, so its steps are
weakly fair; a crash may still cut it off. `Sync`: weak fairness of `Answer` on
each link, since libp2p delivers or fails a request on a connection that stays up
and the handlers run in one event loop. No fairness is assumed for connecting,
starting or authoring, and losses may happen instead of answers. `Archive`: the
import is straight-line code too. `Desktop`: a thread and a sidecar that are not
waiting for the network run, a dial ends (libp2p gives up), and `ui` asks to be
drawn again every 100 ms while a job runs, so that its answer is polled; nothing
makes a person press a button, a silent connection speak or a window stay open.
`Session`, `Feedback` and `Community` state what must have happened by the time
nothing is on its way, or never happens, and assume no fairness.

## Proofs

All theorems hold for every value of the constants that satisfies the named
assumptions (`EventAssumption` ... `LimitAssumption`): any set of events, any
parents, any number of peers and users, any limits. `Session` needs no more of its
constants than that joiners are nodes with a code each (`NodeAssumption` ...
`BoundAssumption`). Ids have 32 bytes, so there are finitely many events
(`FiniteAssumption` of `EventDag`); without it the recursive functions over sets
of events would define nothing.

- `Recursion`: lemmas about sets and functions that stand in for induction over
  data, where the library's theorems take an operator and cannot be used. Every
  set of numbers has a least one and every set of finite sets a smallest one
  (`LeastNumber`, `LeastSubset`), so an induction is an argument about a smallest
  counterexample; a function defined by recursion along a well-founded relation
  exists and is unique (`RecursionExists`, `RecursionUnique`), which is what a
  `CHOOSE` under a recursive function or a fold of the community modules needs
  (`FoldExists`). The depth of the nodes of an acyclic graph, which is what
  `resolve` orders events by, is treated once for every graph (`DepthExists`,
  `DepthFacts`, `DepthUnique`).
- `NodeProofs`, of a node: `TypeCorrect`, `StoreAlwaysHistory`, `KnownAlwaysStored`,
  `IngestAlwaysComplete`. The inductive invariant adds what holds inside the loop
  (`InLoop`): what is known beyond `call.known` comes from the batch and every
  insertable event is known or still pending, and that all of it belongs to one
  community (`OwnCommunity`). Completeness is a fact about largest fixed points:
  the union of all self-supporting parts of a batch is itself one, and by
  acyclicity a self-supporting part has a ready event unless it is empty.
- `ResolverProofs`: `TypeCorrect`, `OwnerAlwaysInCharge`, `RedeemedAtMostOnce`,
  `AcceptedAlwaysHistory`, `MembersAlwaysAdmitted`, `RemovedAlwaysSilent`,
  `LoopAlwaysResolve`, `GenesisAlwaysDecides`. The
  strengthening ties the state to the accepted events: an invitation in the state
  is an accepted event of that kind, a redeemed one has its acceptance, and a
  member removed and not accepted since is no member. One lemma per kind of
  payload says what `apply` does to each part of the state. For
  `LoopAlwaysResolve`, `Depth` is shown to be a function to the naturals that
  grows from parents to children, `Precedes` to be a total order, and `resolve` to
  be one step of `Judge` after another along it; the loop invariant (`InStep`) says
  that a wave has the events of one depth and that the loop has come to what the
  fold makes of the events judged so far. `GenesisAlwaysDecides` is about sets with
  one genesis event: it is of depth 0 and judged before anything else, and no other
  event sets the community.
- `SyncProofs`: `TypeCorrect`, `PendingAlwaysWaits`, `QuietAlwaysComplete`,
  `AlwaysWithinBudget`, `Refinement`. The inductive invariant says that stores are
  histories (`Histories`), that whatever is on its way or announced is stored by
  someone (`Held`), and, the heart of it (`Sought`), that in a process that lost
  nothing every announced head and every missing parent of a pending event is
  stored, pending or on its way. When nothing is on its way, no parent is missing,
  so by acyclicity nothing is pending. `AlwaysWithinBudget` is about steps; it
  needs that few events wait already (`FewWait`), and that the sizes of disjoint
  sets add up (`SizeOfBoth`), so that what `accept` stores and keeps weighs what
  it counted.
- `NodeProofs`, of an import: `ImportIsIngest`, `AlwaysExportable`, `SuccessAlwaysWhole`,
  `ImportAlwaysComplete`. The
  first is a refinement: an import takes only steps of `CoreNode`, so the
  invariants proved there hold while one runs. The others follow from them: a
  closed history of one community with its genesis event is an archive, and what
  is not yet handed to `ingest` or still missing from the store of a busy import
  is in `plan` or in the batch at hand. That no batch is refused or left half done
  (`Importable`) rests on `TopologicalIsInOrder`: the recursive function puts
  parents first, so a batch cut from its front rests on what is stored and on
  itself, and passes `Preflight`. What an import was refused for is part of the
  invariant (`RefusedForCause` shows it of the refusal), and so is that an archive
  which got as far as the node has an accepted genesis event, which the final
  projection then finds.
- `DesktopProofs`: `TypeCorrect`, `OneIdentity`, `ConfiguredAlwaysJoined`,
  `FailedNeverStored`, `AlwaysLocalFirst`, for any number of windows and messages.
  The inductive invariant has five parts: which job and which sidecar go together
  (`Slots`); that only the creator of `identity.json` writes it and every running
  command has the lock and has read it (`Keys`); that at most one join is ever on
  its way to `client.json` and never over a community (`Joins`, `Configured`);
  where each text is (`Texts`); and what a window displays of its own, up to what
  was rejected (`Display`).
  One lemma per action, with one step per part.
- `SessionProofs`: `TypeCorrect`, `AlwaysAuthorized`, `AlwaysOneRedemption`,
  `AlwaysMutual`, `AlwaysOpens`. A node
  may be started with any view, so the invariant says that a node which does not
  run has nobody authenticated; an approval must find the invitation unspent, so
  it says that no view grants what the node has redeemed; and since a joiner's
  database is filled when an ancestry arrives, that only joiners are sent one. The
  last two theorems need a second invariant on every two nodes (`PInv`): what is
  on its way or remembered needs a connection (`Grounded`), whoever is told that
  it is accepted is held by the other side (`Mutual`), Hello is sent as soon as it
  may be (`Hello`), and, on a connection without losses, what has become of the
  certificate each node has presented (`Opening`, `Heard`): it is on its way, or
  held and answered, or its refusal is, or a bootstrap goes on instead. When
  nothing is on its way, only one of these is left.
- `FeedbackProofs`: `TypeCorrect`, `LogReplays`, `InboxIsSent`, `ReceiptsTell`, for
  any number of clients, browsers, texts, pictures and rows. The inductive
  invariant adds what a request leans on while it is under way (`RequestsFit`):
  its text and picture are those of a report that was confirmed, its receipt, once
  answered, is a true one; that the log is about rows of the table; and that a
  picture has one owner (`FilesAreApart`), so that the removal of a screenshot
  after a failed insertion takes no report's picture away. What the first entries
  of the log say is read from the same entries later (`AfterStays`).

- `CommunityProofs`: `TypeCorrect`, `AlwaysVouched`, `AlwaysMember`, `AlwaysAccepted`,
  `AlwaysSelectable`. In `Community` the rules are an
  instance of `ChatRules` with the parents as a parameter, since an event gets its
  parents when it is made, and what is proved of `ChatRules` cannot be cited for
  such an instance. So the module proves, for every acyclic graph, that `resolve`
  returns a state whose administrators are members (`ResolveType`), that it looks
  at the parents of the events it is given and no others (`ResolveSame`), and that
  an event on top of all heads is judged last, on what `resolve` says of the others
  (`ResolveGrows`); and that the ancestry of an event is the smallest closed set it
  is in (`AncestryIs`), which for an event on top of a store is that store
  (`AncestryOnTop`). The inductive invariant (`IInv`) says that parents are acyclic and
  were made before (`GraphIsGood`), that stores and snapshots are closed under
  parents, and that the ancestry of every invitation with a code vouches for the
  endpoint of the code (`CodesAreVouched`): it does when the code is made, since the
  author was an administrator and the Home Server bound in the very events that are
  the ancestry, and a new event changes no ancestry that exists (`Grows`).

  The other three are about communities as `MCCommunity` has one, since their
  properties do not hold in all. `Separate` (in `Community`): nobody who accepts
  an invitation operates the Home Server, and none of them hands an archive on or
  gets one. A Home Server is let in as such although its own join has failed, and
  with it the acceptance that the join has stored, which may have the smaller id
  and make the one approved before a rejected event. (TLC shows it when the
  acceptances of `MCCommunity` are signed by `s`, event 1, and `j`, event 3.)
  `AlwaysMember` and `AlwaysAccepted` speak of the time before a restore, as their
  properties do; `AlwaysSelectable` excludes restored snapshots
  (`MaxRestores = 0`), and run `restored_server` shows that it has to. It also needs `MAX_PARENTS`
  to be larger than the number of invitations, and declarations whose keys and
  endpoints are sound. TLC evaluates all of these but `MaxRestores = 0` on
  `MCCommunity` (`MCHypotheses`); the theorems ask nothing else of the constants,
  so any number of people may race for any number of codes.

  The second invariant (`OrderInv`) says, until a snapshot is restored, that every
  event that was made is one its author's replica permitted then, readable from its
  ancestry (`Lawful`); that authors keep their events (`KeptByAuthor`), each on top
  of the ones before (`Chains`); that nobody accepts twice (`AcceptOnce`), and no
  replica has two acceptances of an invitation (`RedeemedOnce`). What makes the last
  one inductive is `KeptByEndpoint`: an acceptance is at its author and, once anybody
  else has it, at the endpoint of its code, which takes one only. Before that, nobody
  lets its author in, for whose members an author is has its acceptance (`Admitted`).
  `resolve` accepts all of such a history whatever the ids are, and its state can be
  told from the events without an order (`AllAccepted`, by a smallest set of events,
  complete in the order of `resolve`, of which it does not hold). From there
  `AlwaysMember` follows from the acceptance that the endpoint has stored
  (`JoinFits`), `AlwaysAccepted` from the invariant after the step, and
  `AlwaysSelectable` from an argument of pigeonholes: nobody has two heads
  (`OneHeadEach`), and every author is the owner or came by an invitation of its own
  (`HeadsAreFew`).

Only model-checked: liveness (`CallsReturn`, `HeadsArrive`, `JobEnds`), which the
prover does not reach.

## Plan

1. Done: all modules above, and proofs about all of them.
2. An ancestry that outgrows `MAX_BOOTSTRAP_ANCESTRY_EVENTS`, which makes every
   refresh of a Home Server fail (`main.rs:1153`).

## Not modelled

Cryptography, encodings and the wire format (a valid event is a member of
`Event`); relay, hole punching and address handling, which choose a route and not
what is exchanged; several connections to one peer at once; users admitted with
`--allow-user` and the revocation of devices; names and timestamps, which no rule
reads; drawing and languages of the user interface. A disk that fails is an action
of `CoreNode` (`InsertFails`) and `Review`, but not of `Desktop` and `Feedback`,
whose files are written whole or cut off by a crash; nor is a sidecar of `Desktop`
killed alone, between its commit and its exit, say, while the machine and its
window run on. A late edit or withdrawal may overwrite the outcome of a review:
`Review` does what the code does, and no property rules that out. The rate limit
of the review service is a request that may be refused at any time; the owner's
session, the browser pages and the limits on payloads are left out.
