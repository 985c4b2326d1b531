------------------------------ MODULE ChatRules -----------------------------
(***************************************************************************)
(* The authorization rules of the chat profile (crates/profile-chat):      *)
(* which payload a given community state permits, what it does to that     *)
(* state, and in which order resolve takes the events.                     *)
(*                                                                         *)
(* A payload is its kind, its subject (the member, invitation, channel or  *)
(* server it names) and whether its own bytes are sound: the capability    *)
(* key has its length, the capability signature of an acceptance verifies  *)
(* against the key of the invitation it names for this community and this  *)
(* author, the home server's key and endpoint list are well formed.  Kind  *)
(* "other" is a payload decode refuses.                                    *)
(***************************************************************************)
EXTENDS EventDag, Folds

CONSTANTS
    User,     \* the users that sign events
    Channel,  \* the channel ids payloads name
    Author,   \* Author[e]: the user whose key signed e
    Payload,  \* Payload[e]: what e says
    None      \* Option::None

Kind == {"create", "channel", "invite", "accept", "remove", "message",
         "grant", "revoke", "transfer", "home", "other"}

\* Payloads that name a member.
AboutMember == {"remove", "grant", "revoke", "transfer"}

ASSUME AuthorAssumption == Author \in [Event -> User]

ASSUME PayloadAssumption ==
    \A e \in Event :
        /\ Payload[e].kind \in Kind
        /\ Payload[e].sound \in BOOLEAN
        /\ Payload[e].kind = "accept" => Payload[e].subject \in Event
        /\ Payload[e].kind \in AboutMember => Payload[e].subject \in User
        /\ Payload[e].kind = "channel" => Payload[e].subject \in Channel

ASSUME NoneAssumption == None \notin Event \cup User

----------------------------------------------------------------------------

State ==
    [community : Event \cup {None}, owner : User \cup {None},
     members : SUBSET User, administrators : SUBSET User, channels : SUBSET Channel,
     invitations : SUBSET Event, accepted_invitations : SUBSET Event,
     home_server : Event \cup {None}]

\* State::default().
EmptyState ==
    [community |-> None, owner |-> None, members |-> {}, administrators |-> {},
     channels |-> {}, invitations |-> {}, accepted_invitations |-> {},
     home_server |-> None]

\* content.community_id, absent exactly in a genesis event.
CommunityField(e) == IF IsGenesis(e) THEN None ELSE Home[e]

decode(e) == Payload[e].kind # "other"

priority(e) ==
    CASE Payload[e].kind = "create" -> 0
      [] Payload[e].kind \in {"remove", "revoke"} -> 1
      [] OTHER -> 2

require_admin(state, author) == author \in state.administrators

require_owner(state, author) == state.owner = author

\* Mutants: an invitation outlives its redemption; any id passes for one.
redeemable_again(state, invitation) == invitation \in state.invitations

redeemable_unknown(state, invitation) == invitation \notin state.accepted_invitations

redeemable(state, invitation) ==
    invitation \in state.invitations \ state.accepted_invitations

\* Mutant: nothing protects the owner from an administrator.
removable_owner(state, member) == member \in state.members

removable(state, member) == member \in state.members \ {state.owner}

\* The payload rules of validate_context.
permits(state, e) ==
    LET payload == Payload[e]
        author == Author[e]
    IN  CASE payload.kind = "channel" -> require_admin(state, author)
          [] payload.kind = "invite" -> require_admin(state, author) /\ payload.sound
          [] payload.kind = "accept" ->
                redeemable(state, payload.subject) /\ payload.sound
          [] payload.kind = "remove" ->
                require_admin(state, author) /\ removable(state, payload.subject)
          [] payload.kind = "message" ->
                author \in state.members /\ payload.subject \in state.channels
          [] payload.kind = "grant" ->
                /\ require_owner(state, author)
                /\ payload.subject \in state.members \ state.administrators
          [] payload.kind = "revoke" ->
                /\ require_owner(state, author)
                /\ payload.subject \in state.administrators \ {state.owner}
          [] payload.kind = "transfer" ->
                require_owner(state, author) /\ payload.subject \in state.members
          [] payload.kind = "home" -> require_owner(state, author) /\ payload.sound
          [] OTHER -> FALSE

\* Mutant: the community an event names is not compared.
validate_any_community(state, e, accepted) ==
    IF Payload[e].kind = "create" THEN state.community = None
    ELSE Parents[e] \subseteq accepted /\ permits(state, e)

validate_context(state, e, accepted) ==
    IF Payload[e].kind = "create" THEN state.community = None
    ELSE /\ CommunityField(e) = state.community
         /\ Parents[e] \subseteq accepted
         /\ permits(state, e)

\* Mutant: a removal takes the rights and leaves the membership.
without_rights(state, member) == [state EXCEPT !.administrators = @ \ {member}]

without(state, member) ==
    [state EXCEPT !.members = @ \ {member}, !.administrators = @ \ {member}]

apply(state, e) ==
    LET payload == Payload[e]
        author == Author[e]
    IN  CASE payload.kind = "create" ->
                [state EXCEPT !.community = e, !.owner = author,
                              !.members = @ \cup {author},
                              !.administrators = @ \cup {author}]
          [] payload.kind = "channel" ->
                [state EXCEPT !.channels = @ \cup {payload.subject}]
          [] payload.kind = "invite" ->
                [state EXCEPT !.invitations = @ \cup {e}]
          [] payload.kind = "accept" ->
                [state EXCEPT !.accepted_invitations = @ \cup {payload.subject},
                              !.members = @ \cup {author}]
          [] payload.kind = "remove" -> without(state, payload.subject)
          [] payload.kind = "grant" ->
                [state EXCEPT !.administrators = @ \cup {payload.subject}]
          [] payload.kind = "revoke" ->
                [state EXCEPT !.administrators = @ \ {payload.subject}]
          [] payload.kind = "transfer" ->
                [state EXCEPT !.owner = payload.subject,
                              !.administrators = @ \cup {payload.subject}]
          [] payload.kind = "home" -> [state EXCEPT !.home_server = e]
          [] OTHER -> state

active_invitations(state) == state.invitations \ state.accepted_invitations

----------------------------------------------------------------------------

(***************************************************************************)
(* What resolve returns for a set of events, without its loop: the events  *)
(* that decode are judged once each, in the order of their causal depth,   *)
(* then their priority, then their id.                                     *)
(***************************************************************************)
Depth(events) ==
    LET depth[e \in events] ==
            LET above == {depth[p] : p \in Parents[e] \cap events}
            IN  IF above = {} THEN 0 ELSE 1 + CHOOSE n \in above : \A m \in above : m <= n
    IN  [e \in events |-> depth[e]]

Judge(e, events, outcome) ==
    IF /\ Parents[e] \subseteq events \ outcome.rejected
       /\ validate_context(outcome.state, e, outcome.accepted)
    THEN [outcome EXCEPT !.state = apply(@, e), !.accepted = @ \cup {e}]
    ELSE [outcome EXCEPT !.rejected = @ \cup {e}]

resolve(events) ==
    LET decoded == {e \in events : decode(e)}
        depth == Depth(decoded)
        Precedes(e, f) ==
            \/ depth[e] < depth[f]
            \/ depth[e] = depth[f] /\ priority(e) < priority(f)
            \/ depth[e] = depth[f] /\ priority(e) = priority(f) /\ e <= f
        Last(S) == CHOOSE f \in S : \A e \in S : Precedes(e, f)
    IN  MapThenFoldSet(LAMBDA e, outcome : Judge(e, events, outcome),
                       [state |-> EmptyState, accepted |-> {}, rejected |-> events \ decoded],
                       LAMBDA e : e, Last, decoded)
=============================================================================
