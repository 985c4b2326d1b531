------------------------------ MODULE Resolver ------------------------------
(***************************************************************************)
(* The loop of resolve (crates/profile-chat), one event per step.  The     *)
(* projection is computed from a set of events, whatever order they came   *)
(* in; a wave is the undecided events that wait for no undecided parent.   *)
(***************************************************************************)
EXTENDS ChatRules, Sequences

VARIABLES
    events,             \* by_id: the events to project
    pending,            \* the events not looked at yet
    wave,               \* ready, what is left of it
    state,              \* the community state so far
    accepted,           \* the accepted events
    accepted_in_order,  \* and the order they were accepted in
    rejected,           \* the rejected events (their reasons are left out)
    done                \* resolve has returned

vars == <<events, pending, wave, state, accepted, accepted_in_order, rejected, done>>

TypeOK ==
    /\ events \subseteq Event
    /\ pending \subseteq events
    /\ wave \subseteq pending
    /\ accepted \subseteq events
    /\ rejected \subseteq events
    /\ accepted_in_order \in Seq(Event)
    /\ done \in BOOLEAN
    /\ state \in State

\* resolve is called on the whole store, but also on an archive, an ancestry
\* or a store and a candidate: any set of valid events.
Init ==
    /\ events \in SUBSET Event
    /\ pending = {e \in events : decode(e)}
    /\ rejected = {e \in events : ~decode(e)}
    /\ wave = {}
    /\ state = EmptyState
    /\ accepted = {}
    /\ accepted_in_order = <<>>
    /\ done = FALSE

----------------------------------------------------------------------------

ready == {e \in pending : Parents[e] \cap pending = {}}

NextWave ==
    /\ ~done
    /\ wave = {}
    /\ ready # {}
    /\ wave' = ready
    /\ UNCHANGED <<events, pending, state, accepted, accepted_in_order, rejected, done>>

\* Mutant: removals do not come first.
FirstById(e, S) == \A f \in S : e <= f

\* The sort key (priority, id).
First(e, S) ==
    \A f \in S : \/ priority(e) < priority(f)
                 \/ priority(e) = priority(f) /\ e <= f

\* A missing or rejected parent rejects the event before its rules are tried.
Acceptable(e) ==
    /\ Parents[e] \subseteq events
    /\ Parents[e] \cap rejected = {}
    /\ validate_context(state, e, accepted)

\* Mutant: a decided event is not taken off the list of ready ones.
TakePending(e) == pending' = pending \ {e} /\ UNCHANGED wave

Take(e) ==
    /\ pending' = pending \ {e}
    /\ wave' = wave \ {e}

Accept(e) ==
    /\ First(e, wave)
    /\ Acceptable(e)
    /\ Take(e)
    /\ state' = apply(state, e)
    /\ accepted' = accepted \cup {e}
    /\ accepted_in_order' = Append(accepted_in_order, e)
    /\ UNCHANGED <<events, rejected, done>>

Reject(e) ==
    /\ First(e, wave)
    /\ ~Acceptable(e)
    /\ Take(e)
    /\ rejected' = rejected \cup {e}
    /\ UNCHANGED <<events, state, accepted, accepted_in_order, done>>

\* Nothing is ready: whatever is left is rejected for a missing parent.
Return ==
    /\ ~done
    /\ wave = {}
    /\ ready = {}
    /\ rejected' = rejected \cup pending
    /\ pending' = {}
    /\ done' = TRUE
    /\ UNCHANGED <<events, wave, state, accepted, accepted_in_order>>

Next ==
    \/ NextWave
    \/ \E e \in wave : Accept(e) \/ Reject(e)
    \/ Return

Spec == Init /\ [][Next]_vars

----------------------------------------------------------------------------

OfKind(kind) == {e \in accepted : Payload[e].kind = kind}

(***************************************************************************)
(* The owner is always an administrator and every administrator a member,  *)
(* through every mix of removals, revocations, grants and transfers, so    *)
(* that removing a member never leaves an administrator behind and a       *)
(* community never has an owner without authority.                         *)
(***************************************************************************)
OwnerInCharge ==
    /\ state.owner # None => state.owner \in state.administrators
    /\ state.administrators \subseteq state.members

\* At most one acceptance of an invitation counts, however many were signed.
SingleRedemption ==
    \A e, f \in OfKind("accept") : Payload[e].subject = Payload[f].subject => e = f

(***************************************************************************)
(* The accepted events are a history of their own: closed under parents,   *)
(* accepted in causal order and of the one community that was created.     *)
(***************************************************************************)
AcceptedIsHistory ==
    /\ ParentClosed(accepted)
    /\ \A e \in accepted : Home[e] = state.community

\* Nobody is a member who did not create the community or redeem one of its
\* accepted invitations.
MembersWereAdmitted ==
    \A m \in state.members :
        \/ \E e \in OfKind("create") : Author[e] = m
        \/ \E e \in OfKind("accept") : Author[e] = m /\ Payload[e].subject \in OfKind("invite")

(***************************************************************************)
(* A removal silences: after an accepted removal of a member nothing that  *)
(* member signed is accepted, unless an acceptance by that member has been *)
(* accepted in between.                                                    *)
(***************************************************************************)
RemovedStaySilent ==
    \A i, j \in DOMAIN accepted_in_order :
        LET removal == accepted_in_order[i]
            later == accepted_in_order[j]
        IN  /\ i < j
            /\ Payload[removal].kind = "remove"
            /\ Author[later] = Payload[removal].subject
            => \E k \in (i + 1)..j :
                  /\ Payload[accepted_in_order[k]].kind = "accept"
                  /\ Author[accepted_in_order[k]] = Author[later]

\* The loop computes the reference definition of resolve, and leaves no event
\* over for the final MissingParent sweep.
LoopIsResolve ==
    done => LET outcome == resolve(events)
            IN  /\ state = outcome.state
                /\ accepted = outcome.accepted
                /\ rejected = outcome.rejected

(***************************************************************************)
(* docs/adr/0017: concurrent declarations are applied in the order of      *)
(* their ids and the binding is the last accepted one in that order.       *)
(***************************************************************************)
Concurrent(e, f) == e \notin Ancestry(f) /\ f \notin Ancestry(e)

HomeServerByEventId ==
    done => \A e \in OfKind("home") : Concurrent(e, state.home_server) => e < state.home_server
=============================================================================
