------------------------------ MODULE Community -----------------------------
(***************************************************************************)
(* The replicas of one community and the commands that change them         *)
(* (crates/cli): authoring on top of one's heads, joining through an       *)
(* endpoint, synchronizing, archives, and the snapshots of a Home Server   *)
(* (deploy/bin).  Each user has one state directory; its lock makes every  *)
(* command one step, except join, which waits for the endpoint.            *)
(*                                                                         *)
(* The ids are fixed, with what the event of each id will say; parents are *)
(* what its author's heads were when it was made.  A synchronization is    *)
(* taken by its result, a larger history (module Replication).             *)
(***************************************************************************)
EXTENDS Naturals, FiniteSets

CONSTANTS
    Event, User, Channel, Author, Payload, None,  \* as in ChatRules
    Community,    \* the genesis event
    MaxParents,   \* MAX_PARENTS
    MaxAncestry,  \* MAX_BOOTSTRAP_ANCESTRY_EVENTS
    Dial,         \* bound: <<p, q>> when p may synchronize with q
    Handover,     \* bound: <<p, q>> when p may be given an archive of q
    Server,       \* the replicas an operator makes snapshots of
    MaxBackups,   \* bound: the snapshots of each server
    MaxRestores   \* bound: the restores in all

\* Ids have 32 bytes and are ordered bytewise.
ASSUME EventAssumption == Event \subseteq Nat /\ IsFiniteSet(Event)

ASSUME AuthorAssumption == \A e \in Event : Author[e] \in User

\* Payloads name users by their keys; a Home Server is named by a key as well.
ASSUME PayloadAssumption ==
    \A e \in Event :
        /\ Payload[e].kind \in {"create", "channel", "invite", "accept", "remove", "message",
                               "grant", "revoke", "transfer", "home", "other"}
        /\ Payload[e].kind = "accept" => Payload[e].subject \in Event
        /\ Payload[e].kind \in {"remove", "grant", "revoke", "transfer", "home"} =>
              Payload[e].subject \in User
        /\ Payload[e].kind = "channel" => Payload[e].subject \in Channel

ASSUME NoneAssumption == None \notin Event \cup User

ASSUME CommunityAssumption == Community \in Event /\ Payload[Community].kind = "create"

ASSUME ReplicaAssumption ==
    /\ Dial \subseteq User \X User
    /\ Handover \subseteq User \X User
    /\ Server \subseteq User

ASSUME RestoresAssumption == MaxRestores \in Nat

VARIABLES
    parents,   \* parents[e]: the parents of e, {} until e is made
    store,     \* store[u]: the events of u's database
    endpoint,  \* endpoint[i]: the replica the code of invitation i names
    join,      \* join[u]: how far u's join has come
    snapshot,  \* snapshot[u]: the archives of u's snapshots
    restores   \* bound: the restores so far

vars == <<parents, store, endpoint, join, snapshot, restores>>

\* The chat profile on events with the parents par.
Rules(par) == INSTANCE ChatRules
                WITH Parents <- par, Home <- [e \in Event |-> Community]

Invitation == {e \in Event : Payload[e].kind = "invite"}

\* proved and submitted: the endpoint holds a bootstrap of this peer.
Phase == {"idle", "proved", "submitted", "approved", "refused", "joined", "failed"}

NoJoin == [phase |-> "idle", invitation |-> None]

TypeOK ==
    /\ parents \in [Event -> SUBSET Event]
    /\ store \in [User -> SUBSET Event]
    /\ endpoint \in [Invitation -> User \cup {None}]
    /\ join \in [User -> [phase : Phase, invitation : Invitation \cup {None}]]
    /\ snapshot \in [Server -> SUBSET SUBSET Event]
    /\ restores \in 0..MaxRestores

Init ==
    /\ parents = [e \in Event |-> {}]
    /\ store = [u \in User |-> {}]
    /\ endpoint = [i \in Invitation |-> None]
    /\ join = [u \in User |-> NoJoin]
    /\ snapshot = [s \in Server |-> {}]
    /\ restores = 0

----------------------------------------------------------------------------

View(S) == Rules(parents)!resolve(S)

\* Mutant: all events are named as parents.
HeadsAll(u) == store[u]

\* A new event names all heads of its author's store.
Heads(u) == Rules(parents)!Heads(store[u])

ParentClosed(S) == Rules(parents)!ParentClosed(S)

Fresh(e) == parents[e] = {} /\ e # Community

\* u's join holds the lock of its state directory.
Locked(u) == join[u].phase \in {"proved", "submitted", "approved", "refused"}

\* No process of u's state directory waits or is waited for: a network command
\* that has to stop for another command closes its connections (Break).
Free(u) ==
    /\ ~Locked(u)
    /\ \A v \in User : Locked(v) => endpoint[join[v].invitation] # u

\* What resolve says of u's events together with a new one.
Candidate(u, e, on) ==
    Rules([parents EXCEPT ![e] = on])!resolve(store[u] \cup {e})

Append(u, e) ==
    /\ Free(u)
    /\ Fresh(e)
    /\ Author[e] = u
    /\ store[u] # {}
    /\ Cardinality(Heads(u)) <= MaxParents
    /\ parents' = [parents EXCEPT ![e] = Heads(u)]
    /\ store' = [store EXCEPT ![u] = @ \cup {e}]
    /\ UNCHANGED <<join, snapshot, restores>>

\* require_candidate_accepted
Permitted(u, e) == e \in Candidate(u, e, Heads(u)).accepted

CreateCommunity(u) ==
    /\ Free(u)
    /\ Author[Community] = u
    /\ store = [v \in User |-> {}]
    /\ store' = [store EXCEPT ![u] = {Community}]
    /\ UNCHANGED <<parents, endpoint, join, snapshot, restores>>

CreateChannel(u, e) ==
    /\ Payload[e].kind = "channel"
    /\ Append(u, e)
    /\ Permitted(u, e)
    /\ UNCHANGED endpoint

SendMessage(u, e) ==
    /\ Payload[e].kind = "message"
    /\ Append(u, e)
    /\ Permitted(u, e)
    /\ UNCHANGED endpoint

SetHomeServer(u, e) ==
    /\ Payload[e].kind = "home"
    /\ Append(u, e)
    /\ Candidate(u, e, Heads(u)).state.home_server = e
    /\ UNCHANGED endpoint

\* Mutant: the declaration is taken for the server it declares.
BoundServerId(state) == state.home_server

\* The replica that the binding of a state names.
BoundServer(state) ==
    IF state.home_server = None THEN None ELSE Payload[state.home_server].subject

\* The code names the author's own device, or the Home Server.
CreateInvite(u, e) ==
    LET outcome == Candidate(u, e, Heads(u))
    IN  /\ e \in Invitation
        /\ Append(u, e)
        /\ e \in outcome.accepted
        /\ e \in Rules(parents)!active_invitations(outcome.state)
        /\ \E q \in {u, BoundServer(View(store[u]).state)} \ {None} :
              endpoint' = [endpoint EXCEPT ![e] = q]

----------------------------------------------------------------------------
\* Between replicas

\* Mutant: the Home Server has to be a member.
AdmitsMembers(S, q) == q \in View(S).state.members

\* authenticate: q's user is a member, or q is the Home Server, in p's view.
Admits(S, q) ==
    LET state == View(S).state IN q \in state.members \/ q = BoundServer(state)

\* p synchronizes with q: each has authenticated the other.
Synchronize(p, q) ==
    /\ ~Locked(p) /\ ~Locked(q)
    /\ store[q] \ store[p] # {}
    /\ Admits(store[p], q) /\ Admits(store[q], p)
    /\ \E new \in SUBSET (store[q] \ store[p]) :
          /\ new # {}
          /\ ParentClosed(store[p] \cup new)
          /\ store' = [store EXCEPT ![p] = @ \cup new]
    /\ UNCHANGED <<parents, endpoint, join, snapshot, restores>>

\* Archives are written and read only when they are complete.
Archivable(S) == Community \in S /\ ParentClosed(S)

\* export-community at q, import-community at p.
Import(p, q) ==
    /\ Free(p) /\ Free(q)
    /\ Archivable(store[q])
    /\ View(store[q]).state.community = Community
    /\ store' = [store EXCEPT ![p] = @ \cup store[q]]
    /\ UNCHANGED <<parents, endpoint, join, snapshot, restores>>

Snapshot(s) ==
    /\ Free(s)
    /\ Archivable(store[s])
    /\ Cardinality(snapshot[s]) < MaxBackups
    /\ snapshot' = [snapshot EXCEPT ![s] = @ \cup {store[s]}]
    /\ UNCHANGED <<parents, store, endpoint, join, restores>>

\* The machine of s is lost and one of its snapshots restored on another.
Restore(s) ==
    /\ Free(s)
    /\ restores < MaxRestores
    /\ restores' = restores + 1
    /\ \E S \in snapshot[s] : store' = [store EXCEPT ![s] = S]
    /\ UNCHANGED <<parents, endpoint, join, snapshot>>

----------------------------------------------------------------------------
\* Joining

Ancestry(i) == Rules(parents)!Ancestry(i)

\* The endpoint grants the invitations that are active in its view; it ends
\* when it cannot hold the ancestry of one of them.
Granted(q, i) ==
    LET active == Rules(parents)!active_invitations(View(store[q]).state)
    IN  /\ i \in active
        /\ \A a \in active : Cardinality(Ancestry(a)) <= MaxAncestry

Move(u, phase) == join' = [join EXCEPT ![u].phase = phase]

\* BootstrapBegin, the challenge and BootstrapProve: nothing but the
\* endpoint's record of the peer comes of them before the ancestry is sent.
Prove(u, i) ==
    /\ store[u] = {}
    /\ ~Locked(u)
    /\ endpoint[i] \notin {None, u}
    /\ Granted(endpoint[i], i)
    /\ join' = [join EXCEPT ![u] = [phase |-> "proved", invitation |-> i]]
    /\ UNCHANGED <<parents, store, endpoint, snapshot, restores>>

\* What join asks of the ancestry before it stores anything.
Trusts(u) ==
    LET i == join[u].invitation
    IN  /\ join[u].phase = "proved"
        /\ i \in Rules(parents)!active_invitations(View(Ancestry(i)).state)
        /\ Admits(Ancestry(i), endpoint[i])

\* The ancestry is stored, and the acceptance with it, before the endpoint has
\* seen the acceptance.
ReceiveAncestry(u, e) ==
    LET i == join[u].invitation
        outcome == Rules([parents EXCEPT ![e] = {i}])!resolve(Ancestry(i) \cup {e})
    IN  /\ Trusts(u)
        /\ Fresh(e)
        /\ Author[e] = u
        /\ Payload[e].kind = "accept" /\ Payload[e].subject = i
        /\ e \in outcome.accepted
        /\ u \in outcome.state.members
        /\ parents' = [parents EXCEPT ![e] = {i}]
        /\ store' = [store EXCEPT ![u] = Ancestry(i) \cup {e}]
        /\ Move(u, "submitted")
        /\ UNCHANGED <<endpoint, snapshot, restores>>

\* The process ends while it stores the ancestry, or before the acceptance.
StoreInterrupted(u) ==
    /\ Trusts(u)
    /\ \E S \in SUBSET Ancestry(join[u].invitation) :
          /\ Community \in S
          /\ ParentClosed(S)
          /\ store' = [store EXCEPT ![u] = S]
    /\ Move(u, "failed")
    /\ UNCHANGED <<parents, endpoint, snapshot, restores>>

\* Mutant: the proof of possession is enough.
ApprovesProved(q, u, e) == TRUE

\* What the endpoint says to acceptance e of u.
Approves(q, u, e) ==
    LET outcome == View(store[q] \cup {e})
    IN  /\ Granted(q, Payload[e].subject)
        /\ e \in outcome.accepted
        /\ u \in outcome.state.members
        /\ Payload[e].subject \notin Rules(parents)!active_invitations(outcome.state)

\* Mutant: the endpoint answers before it stores, and never stores.
DecideWithoutIngest(u, e) ==
    LET q == endpoint[join[u].invitation]
    IN  /\ join[u].phase = "submitted"
        /\ e \in store[u]
        /\ Author[e] = u
        /\ Payload[e].kind = "accept"
        /\ ~Locked(q)
        /\ Move(u, IF Approves(q, u, e) THEN "approved" ELSE "refused")
        /\ UNCHANGED <<parents, store, endpoint, snapshot, restores>>

Decide(u, e) ==
    LET q == endpoint[join[u].invitation]
    IN  /\ join[u].phase = "submitted"
        /\ e \in store[u]
        /\ Author[e] = u
        /\ Payload[e].kind = "accept"
        /\ ~Locked(q)
        /\ IF Approves(q, u, e)
           THEN Move(u, "approved") /\ store' = [store EXCEPT ![q] = @ \cup {e}]
           ELSE Move(u, "refused") /\ UNCHANGED store
        /\ UNCHANGED <<parents, endpoint, snapshot, restores>>

\* The answer arrives: join returns, or ends with an error.
Answer(u) ==
    /\ \/ join[u].phase = "approved" /\ Move(u, "joined")
       \/ join[u].phase = "refused" /\ Move(u, "failed")
    /\ UNCHANGED <<parents, store, endpoint, snapshot, restores>>

\* The connection or either process is lost: nothing is undone.
Break(u) ==
    /\ Locked(u)
    /\ Move(u, "failed")
    /\ UNCHANGED <<parents, store, endpoint, snapshot, restores>>

Next ==
    \/ \E u \in User :
          \/ CreateCommunity(u)
          \/ StoreInterrupted(u) \/ Answer(u) \/ Break(u)
          \/ \E i \in Invitation : Prove(u, i)
          \/ \E e \in Event :
                \/ CreateChannel(u, e) \/ SendMessage(u, e)
                \/ SetHomeServer(u, e) \/ CreateInvite(u, e)
                \/ ReceiveAncestry(u, e) \/ Decide(u, e)
    \/ \E pair \in Dial : Synchronize(pair[1], pair[2])
    \/ \E pair \in Handover : Import(pair[1], pair[2])
    \/ \E s \in Server : Snapshot(s) \/ Restore(s)

Spec == Init /\ [][Next]_vars

----------------------------------------------------------------------------
\* What the theorems about joins suppose of a community

Acceptance == {e \in Event : Payload[e].kind = "accept"}

(***************************************************************************)
(* Nobody who accepts an invitation operates a Home Server, and no archive *)
(* is handed to or by such a person.  (A Home Server is let in whoever it  *)
(* is and whatever became of its own join, and an archive is not asked for *)
(* a membership: the acceptance of a join that was refused would get       *)
(* about with them, and meet the one that was approved.)                   *)
(***************************************************************************)
Separate ==
    \A a \in Acceptance :
        /\ \A h \in Event : Payload[h].kind = "home" => Payload[h].subject # Author[a]
        /\ \A pair \in Handover : Author[a] \notin {pair[1], pair[2]}

\* The key and the endpoints that a declaration names are well formed.
SoundDeclarations == \A e \in Event : Payload[e].kind = "home" => Payload[e].sound

----------------------------------------------------------------------------

(***************************************************************************)
(* docs/adr/0017: the owner may select a replacement for the Home Server   *)
(* without cooperation from anybody.  Whatever u has received, a           *)
(* declaration u makes as the owner on top of it is a valid event and      *)
(* passes the candidate check of set-home-server.                          *)
(***************************************************************************)
OwnerMaySelect ==
    \A u \in User, e \in Event :
        /\ Fresh(e)
        /\ Author[e] = u
        /\ Payload[e].kind = "home"
        /\ View(store[u]).state.owner = u
        => /\ Cardinality(Heads(u)) <= MaxParents
           /\ Candidate(u, e, Heads(u)).state.home_server = e

\* A join that reported success made its user a member at the endpoint, also
\* when others hold the same code, for as long as no older snapshot of it is
\* restored.  None of the others operates the Home Server (Separate).
JoinedIsMember ==
    \A u \in User :
        join[u].phase = "joined" /\ restores = 0 =>
            u \in View(store[endpoint[join[u].invitation]]).state.members

(***************************************************************************)
(* The ancestry of an invitation vouches for the endpoint its code names:  *)
(* whatever happened since it was made, a joiner sees the endpoint as a    *)
(* member or as the Home Server, and the invitation as active, and never   *)
(* ends with UntrustedBootstrapEndpoint or ProfileRejected.                *)
(***************************************************************************)
EndpointVouched ==
    \A u \in User :
        join[u].phase = "proved" =>
            LET i == join[u].invitation
            IN  /\ i \in Rules(parents)!active_invitations(View(Ancestry(i)).state)
                /\ Admits(Ancestry(i), endpoint[i])

(***************************************************************************)
(* What a replica has accepted it does not reject later, although resolve  *)
(* judges the whole store anew whenever it grows: docs/adr/0015 expects    *)
(* competing redemptions to be approved and one of them to be lost when    *)
(* they meet, but here a code names one endpoint, and however many people  *)
(* race for an invitation, an acceptance the endpoint has refused does not *)
(* get out of the replica it was made in.  This is so until a snapshot is  *)
(* restored: a restored endpoint approves a second acceptance, which meets *)
(* the first, and the one with the larger id is lost.  (Nor does it hold   *)
(* when one who races operates the Home Server, whose replica is let in    *)
(* whoever it is; Separate.)                                               *)
(***************************************************************************)
AcceptedForever ==
    [][restores' = 0 =>
          \A u \in {v \in User : store'[v] # store[v]} :
              View(store[u]).accepted \cap store'[u]
                  \subseteq Rules(parents')!resolve(store'[u]).accepted]_vars
=============================================================================
