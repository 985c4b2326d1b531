--------------------------- MODULE ResolverProofs ---------------------------
(***************************************************************************)
(* What the chat profile guarantees of every projection, for every set of  *)
(* events, users and payloads; and that the loop of resolve computes the   *)
(* fold that ChatRules defines, which the other modules go by.             *)
(***************************************************************************)
EXTENDS Resolver, Recursion

----------------------------------------------------------------------------
\* The causal depth

LEMMA EventsFinite ==
    ASSUME NEW D \in SUBSET Event
    PROVE  IsFiniteSet(D) /\ Acyclic(Parents, D)
BY FiniteAssumption, AcyclicAssumption, FS_Subset DEF Acyclic

\* Depth is the depth of the graph of parents.
LEMMA DepthDeepens ==
    ASSUME NEW D \in SUBSET Event
    PROVE  Deepens(Depth(D), Parents, D)
<1>1. PICK depth : depth = CHOOSE d : Deepens(d, Parents, D)
  OBVIOUS
<1>2. Deepens(depth, Parents, D)
  BY <1>1, EventsFinite, DepthExists
<1>3. Depth(D) = [e \in D |-> depth[e]]
  BY <1>1 DEF Depth, Deepens, Deeper
<1>4. depth = [e \in D |-> depth[e]]
  BY <1>2 DEF Deepens
<1> QED
  BY <1>2, <1>3, <1>4

\* An event is deeper than its parents, and no deeper than it has to be.
LEMMA EventDepth ==
    ASSUME NEW D \in SUBSET Event
    PROVE  /\ Depth(D) \in [D -> Nat]
           /\ \A e \in D : \A p \in Parents[e] \cap D : Depth(D)[p] < Depth(D)[e]
           /\ \A e \in D : \A k \in Nat :
                 (\A p \in Parents[e] \cap D : Depth(D)[p] < k) => Depth(D)[e] <= k
BY EventsFinite, DepthDeepens, DepthFacts

----------------------------------------------------------------------------
\* The order of resolve

Decoded(S) == {e \in S : decode(e)}

\* By causal depth among the decoded events D, then by priority, then by id.
Precedes(D, e, f) ==
    \/ Depth(D)[e] < Depth(D)[f]
    \/ Depth(D)[e] = Depth(D)[f] /\ priority(e) < priority(f)
    \/ Depth(D)[e] = Depth(D)[f] /\ priority(e) = priority(f) /\ e <= f

Last(D, T) == CHOOSE f \in T : \A e \in T : Precedes(D, e, f)

LEMMA PrecedesIsOrder ==
    ASSUME NEW D \in SUBSET Event
    PROVE  /\ \A e, f \in D : Precedes(D, e, f) \/ Precedes(D, f, e)
           /\ \A e, f \in D : Precedes(D, e, f) /\ Precedes(D, f, e) => e = f
           /\ \A e, f, g \in D : Precedes(D, e, f) /\ Precedes(D, f, g) => Precedes(D, e, g)
<1>1. \A e \in D : Depth(D)[e] \in Nat /\ priority(e) \in Nat /\ e \in Nat
  <2>1. Depth(D) \in [D -> Nat]
    BY EventDepth
  <2>2. \A e \in D : priority(e) \in Nat
    BY DEF priority
  <2> QED
    BY <2>1, <2>2, EventAssumption
<1> QED
  BY <1>1 DEF Precedes

\* The last event of a set is the one that the others precede.
LEMMA LastIs ==
    ASSUME NEW D \in SUBSET Event, NEW T \in SUBSET D, T # {}
    PROVE  /\ Last(D, T) \in T
           /\ \A f \in T : (\A e \in T : Precedes(D, e, f)) => Last(D, T) = f
<1>1. IsFiniteSet(T)
  BY FiniteAssumption, FS_Subset
<1> DEFINE before == {pair \in T \X T : Precedes(D, pair[1], pair[2])}
<1>2. \A x, y \in T : <<x, y>> \in before <=> Precedes(D, x, y)
  OBVIOUS
<1> HIDE DEF before
<1>3. /\ \A x, y \in T : <<x, y>> \in before \/ <<y, x>> \in before
      /\ \A x, y, z \in T : <<x, y>> \in before /\ <<y, z>> \in before => <<x, z>> \in before
  <2>1. \A x \in T : x \in D
    OBVIOUS
  <2> QED
    BY <1>2, <2>1, PrecedesIsOrder
<1>4. PICK x \in T : \A y \in T : <<y, x>> \in before
  BY <1>1, <1>3, LastElement
<1>5. \E f \in T : \A e \in T : Precedes(D, e, f)
  BY <1>2, <1>4
<1>6. Last(D, T) \in T /\ \A e \in T : Precedes(D, e, Last(D, T))
  BY <1>5 DEF Last
<1>7. ASSUME NEW f \in T, \A e \in T : Precedes(D, e, f)
      PROVE  Last(D, T) = f
  BY <1>6, <1>7, PrecedesIsOrder
<1> QED
  BY <1>6, <1>7

----------------------------------------------------------------------------
\* What is accepted

USE EventAssumption, ParentsAssumption, HomeAssumption, AuthorAssumption,
    PayloadAssumption, NoneAssumption

\* A state without a community is the initial one; the owner administers,
\* and the administrators are members.
Sane(s) ==
    /\ s.owner # None => s.owner \in s.administrators
    /\ s.administrators \subseteq s.members
    /\ s.community = None => s = EmptyState

----------------------------------------------------------------------------

\* What accepting a payload does to the community state, kind by kind.
LEMMA ApplyType ==
    ASSUME NEW s \in State, NEW e \in Event
    PROVE  apply(s, e) \in State
<1> DEFINE kind == Payload[e].kind
<1>1. CASE kind = "create"
  <2>1. Author[e] \in User
    OBVIOUS
  <2> QED
    BY <1>1, <2>1 DEF apply, State
<1>2. CASE kind = "channel"
  BY <1>2 DEF apply, State
<1>3. CASE kind = "invite"
  BY <1>3 DEF apply, State
<1>4. CASE kind = "accept"
  <2>1. Author[e] \in User /\ Payload[e].subject \in Event
    BY <1>4
  <2> QED
    BY <1>4, <2>1 DEF apply, State
<1>5. CASE kind = "remove"
  BY <1>5 DEF apply, State, without
<1>6. CASE kind = "grant"
  BY <1>6 DEF apply, State, AboutMember
<1>7. CASE kind = "revoke"
  BY <1>7 DEF apply, State
<1>8. CASE kind = "transfer"
  BY <1>8 DEF apply, State, AboutMember
<1>9. CASE kind = "home"
  BY <1>9 DEF apply, State
<1>10. CASE kind \in {"message", "other"}
  BY <1>10 DEF apply
<1> QED
  BY <1>1, <1>2, <1>3, <1>4, <1>5, <1>6, <1>7, <1>8, <1>9, <1>10 DEF Kind

LEMMA ApplySane ==
    ASSUME NEW s \in State, NEW e \in Event, NEW acc \in SUBSET Event, Sane(s),
           validate_context(s, e, acc)
    PROVE  Sane(apply(s, e)) /\ apply(s, e).community # None
<1> DEFINE kind == Payload[e].kind
<1> USE DEF Sane, validate_context, permits, require_admin, require_owner
<1>1. CASE kind = "create"
  BY <1>1 DEF apply, State, EmptyState
<1>0. ASSUME kind # "create"
      PROVE  s.community # None
  <2> SUFFICES ASSUME s = EmptyState
               PROVE  FALSE
    BY <1>0
  <2> QED
    BY <1>0 DEF EmptyState, redeemable, removable, Kind
<1>2. CASE kind = "channel"
  BY <1>0, <1>2 DEF apply, State
<1>3. CASE kind = "invite"
  BY <1>0, <1>3 DEF apply, State
<1>4. CASE kind = "accept"
  BY <1>0, <1>4 DEF apply, State
<1>5. CASE kind = "remove"
  BY <1>0, <1>5 DEF apply, State, without, removable
<1>6. CASE kind = "grant"
  BY <1>0, <1>6 DEF apply, State
<1>7. CASE kind = "revoke"
  BY <1>0, <1>7 DEF apply, State
<1>8. CASE kind = "transfer"
  BY <1>0, <1>8 DEF apply, State
<1>9. CASE kind = "home"
  BY <1>0, <1>9 DEF apply, State
<1>10. CASE kind \in {"message", "other"}
  BY <1>0, <1>10 DEF apply, State
<1> QED
  BY <1>1, <1>2, <1>3, <1>4, <1>5, <1>6, <1>7, <1>8, <1>9, <1>10 DEF Kind

\* Only its creator and those who redeem an invitation enter a community.
LEMMA ApplyEffects ==
    ASSUME NEW s \in State, NEW e \in Event
    PROVE  LET t == apply(s, e)
               kind == Payload[e].kind
           IN  /\ \A m \in t.members \ s.members : m = Author[e] /\ kind \in {"create", "accept"}
               /\ \A i \in t.invitations \ s.invitations : i = e /\ kind = "invite"
               /\ s.accepted_invitations \subseteq t.accepted_invitations
               /\ kind = "accept" => Payload[e].subject \in t.accepted_invitations
               /\ kind = "remove" => Payload[e].subject \notin t.members
               /\ t.community = IF kind = "create" THEN e ELSE s.community
<1> DEFINE kind == Payload[e].kind
<1>1. CASE kind = "create"
  BY <1>1 DEF apply, State
<1>2. CASE kind = "channel"
  BY <1>2 DEF apply, State
<1>3. CASE kind = "invite"
  BY <1>3 DEF apply, State
<1>4. CASE kind = "accept"
  BY <1>4 DEF apply, State
<1>5. CASE kind = "remove"
  BY <1>5 DEF apply, State, without
<1>6. CASE kind = "grant"
  BY <1>6 DEF apply, State
<1>7. CASE kind = "revoke"
  BY <1>7 DEF apply, State
<1>8. CASE kind = "transfer"
  BY <1>8 DEF apply, State
<1>9. CASE kind = "home"
  BY <1>9 DEF apply, State
<1>10. CASE kind \in {"message", "other"}
  BY <1>10 DEF apply, State
<1> QED
  BY <1>1, <1>2, <1>3, <1>4, <1>5, <1>6, <1>7, <1>8, <1>9, <1>10 DEF Kind

\* Whoever gets anything but a creation or a redemption accepted is a member.
LEMMA AuthorIsMember ==
    ASSUME NEW s \in State, NEW e \in Event, NEW acc \in SUBSET Event, Sane(s),
           validate_context(s, e, acc), Payload[e].kind \notin {"create", "accept"}
    PROVE  Author[e] \in s.members
<1>1. Author[e] \in User /\ Author[e] # None
  OBVIOUS
<1>2. CASE require_admin(s, Author[e])
  BY <1>2 DEF require_admin, Sane
<1>3. CASE require_owner(s, Author[e])
  BY <1>1, <1>3 DEF require_owner, Sane
<1>4. CASE Payload[e].kind = "message"
  BY <1>4 DEF validate_context, permits
<1> QED
  BY <1>2, <1>3, <1>4 DEF validate_context, permits, Kind

----------------------------------------------------------------------------

\* Every event is waiting, accepted or rejected, and never two of these.
Partition ==
    /\ events = pending \cup accepted \cup rejected
    /\ pending \cap (accepted \cup rejected) = {}
    /\ accepted \cap rejected = {}

WaveReady == \A e \in wave : Parents[e] \cap pending = {}

\* How the community state reflects the accepted events.
Reflects ==
    /\ state.community = None => accepted = {}
    /\ state.invitations \subseteq OfKind("invite")
    /\ \A e \in OfKind("accept") : Payload[e].subject \in state.accepted_invitations
    /\ \A i \in DOMAIN accepted_in_order : accepted_in_order[i] \in accepted

\* A member removed and not readmitted since is not a member now.
Silenced ==
    \A i \in DOMAIN accepted_in_order :
        LET removal == accepted_in_order[i]
        IN  /\ Payload[removal].kind = "remove"
            /\ Payload[removal].subject \in state.members
            => \E k \in (i + 1)..Len(accepted_in_order) :
                  /\ Payload[accepted_in_order[k]].kind = "accept"
                  /\ Author[accepted_in_order[k]] = Payload[removal].subject

IInv ==
    /\ TypeOK
    /\ Sane(state)
    /\ Partition
    /\ WaveReady
    /\ Reflects
    /\ AcceptedIsHistory
    /\ SingleRedemption
    /\ MembersWereAdmitted
    /\ Silenced
    /\ RemovedStaySilent

LEMMA InitIInv == Init => IInv
<1> SUFFICES ASSUME Init
             PROVE  IInv
  OBVIOUS
<1>1. EmptyState \in State
  BY DEF EmptyState, State
<1>2. TypeOK
  <2>1. accepted_in_order \in Seq(Event)
    BY DEF Init
  <2>2. events \subseteq Event /\ pending \subseteq events /\ rejected \subseteq events
    BY DEF Init
  <2> QED
    BY <1>1, <2>1, <2>2 DEF Init, TypeOK
<1>3. Sane(state)
  BY DEF Init, Sane, EmptyState
<1>4. Partition /\ WaveReady
  BY DEF Init, Partition, WaveReady
<1>5. Reflects /\ AcceptedIsHistory /\ SingleRedemption /\ MembersWereAdmitted
  BY DEF Init, Reflects, AcceptedIsHistory, SingleRedemption, MembersWereAdmitted,
         OfKind, EmptyState, ParentClosed
<1>6. DOMAIN accepted_in_order = {}
  BY DEF Init
<1>7. Silenced /\ RemovedStaySilent
  BY <1>6 DEF Silenced, RemovedStaySilent
<1> QED
  BY <1>2, <1>3, <1>4, <1>5, <1>7 DEF IInv

(***************************************************************************)
(* Accepting an event: its parents are accepted, it is of the community,   *)
(* and the state it leaves reflects it.                                    *)
(***************************************************************************)
LEMMA AcceptIInv ==
    ASSUME IInv, NEW e \in wave, Accept(e)
    PROVE  IInv'
<1> USE DEF IInv
<1>1. /\ e \in Event /\ e \in pending /\ e \notin accepted
      /\ state \in State /\ accepted \in SUBSET Event /\ accepted_in_order \in Seq(Event)
      /\ validate_context(state, e, accepted)
      /\ state' = apply(state, e) /\ accepted' = accepted \cup {e}
  BY DEF TypeOK, Partition, Accept, Acceptable
<1>2. Parents[e] \subseteq accepted
  BY <1>1 DEF Accept, Acceptable, Partition, WaveReady
<1>3. state' \in State /\ Sane(state') /\ state'.community # None
  BY <1>1, ApplyType, ApplySane
<1>4. TypeOK'
  BY <1>1, <1>3 DEF TypeOK, Accept, Take
<1>5. Partition' /\ WaveReady'
  BY <1>1 DEF TypeOK, Partition, WaveReady, Accept, Take
<1>6. /\ \A m \in state'.members \ state.members :
            m = Author[e] /\ Payload[e].kind \in {"create", "accept"}
      /\ \A i \in state'.invitations \ state.invitations : i = e /\ Payload[e].kind = "invite"
      /\ state.accepted_invitations \subseteq state'.accepted_invitations
      /\ Payload[e].kind = "accept" => Payload[e].subject \in state'.accepted_invitations
      /\ Payload[e].kind = "remove" => Payload[e].subject \notin state'.members
      /\ state'.community = IF Payload[e].kind = "create" THEN e ELSE state.community
  BY <1>1, ApplyEffects
<1>7. \A kind : OfKind(kind)' = OfKind(kind) \cup {f \in {e} : Payload[f].kind = kind}
  BY <1>1 DEF OfKind
<1>9. AcceptedIsHistory'
  <2>1. ParentClosed(accepted')
    BY <1>1, <1>2 DEF AcceptedIsHistory, ParentClosed
  <2>2. CASE Payload[e].kind = "create"
    <3>1. accepted = {}
      BY <1>1, <2>2 DEF validate_context, Reflects
    <3> QED
      BY <1>1, <1>2, <1>6, <2>1, <2>2, <3>1 DEF AcceptedIsHistory
  <2>3. CASE Payload[e].kind # "create"
    <3>1. state'.community = state.community /\ CommunityField(e) = state.community
      BY <1>1, <1>6, <2>3 DEF validate_context
    <3>2. Home[e] = state.community
      BY <1>3, <3>1 DEF CommunityField
    <3> QED
      BY <1>1, <2>1, <3>1, <3>2 DEF AcceptedIsHistory
  <2> QED
    BY <2>2, <2>3
<1>10. Payload[e].kind = "accept" =>
          /\ Payload[e].subject \in state.invitations
          /\ Payload[e].subject \notin state.accepted_invitations
  BY <1>1 DEF validate_context, permits, redeemable
<1>11. SingleRedemption'
  BY <1>7, <1>10 DEF SingleRedemption, Reflects, OfKind
<1>12. MembersWereAdmitted'
  <2> SUFFICES ASSUME NEW m \in state'.members
               PROVE  \/ \E f \in OfKind("create")' : Author[f] = m
                      \/ \E f \in OfKind("accept")' :
                            Author[f] = m /\ Payload[f].subject \in OfKind("invite")'
    BY DEF MembersWereAdmitted
  <2>1. CASE m \in state.members
    BY <1>7, <2>1 DEF MembersWereAdmitted
  <2>2. CASE m \notin state.members /\ Payload[e].kind = "create"
    BY <1>6, <1>7, <2>2
  <2>3. CASE m \notin state.members /\ Payload[e].kind = "accept"
    <3>1. Payload[e].subject \in OfKind("invite")'
      BY <1>7, <1>10, <2>3 DEF Reflects
    <3>2. e \in OfKind("accept")' /\ Author[e] = m
      BY <1>6, <1>7, <2>3
    <3> QED
      BY <3>1, <3>2
  <2> QED
    BY <1>6, <2>1, <2>2, <2>3
<1> DEFINE old == accepted_in_order
           n == Len(accepted_in_order)
<1>13. /\ n \in Nat /\ DOMAIN old = 1..n
       /\ accepted_in_order' = Append(old, e)
       /\ DOMAIN accepted_in_order' = 1..(n + 1) /\ Len(accepted_in_order') = n + 1
       /\ accepted_in_order'[n + 1] = e
       /\ \A i \in 1..n : accepted_in_order'[i] = old[i]
  BY <1>1 DEF Accept
<1>8. Reflects'
  <2>1. \A i \in DOMAIN accepted_in_order' : accepted_in_order'[i] \in accepted'
    <3> SUFFICES ASSUME NEW i \in 1..(n + 1)
                 PROVE  accepted_in_order'[i] \in accepted'
      BY <1>13
    <3>1. CASE i \in 1..n
      BY <1>1, <1>13, <3>1 DEF Reflects
    <3>2. CASE i = n + 1
      BY <1>1, <1>13, <3>2
    <3> QED
      BY <1>13, <3>1, <3>2
  <2>2. state'.invitations \subseteq OfKind("invite")'
    BY <1>6, <1>7 DEF Reflects
  <2>3. \A f \in OfKind("accept")' : Payload[f].subject \in state'.accepted_invitations
    BY <1>6, <1>7 DEF Reflects
  <2> QED
    BY <1>3, <2>1, <2>2, <2>3 DEF Reflects
<1>14. Silenced'
  <2> SUFFICES ASSUME NEW i \in 1..(n + 1),
                      Payload[accepted_in_order'[i]].kind = "remove",
                      Payload[accepted_in_order'[i]].subject \in state'.members
               PROVE  \E k \in (i + 1)..(n + 1) :
                          /\ Payload[accepted_in_order'[k]].kind = "accept"
                          /\ Author[accepted_in_order'[k]]
                                = Payload[accepted_in_order'[i]].subject
    BY <1>13 DEF Silenced
  <2>1. i \in 1..n /\ accepted_in_order'[i] = old[i]
    BY <1>6, <1>13
  <2>2. CASE Payload[old[i]].subject \in state.members
    <3>1. PICK k \in (i + 1)..n : /\ Payload[old[k]].kind = "accept"
                                  /\ Author[old[k]] = Payload[old[i]].subject
      BY <1>13, <2>1, <2>2 DEF Silenced
    <3>2. k \in (i + 1)..(n + 1) /\ k \in 1..n
      BY <1>13, <2>1
    <3> QED
      BY <1>13, <2>1, <3>1, <3>2
  <2>3. CASE Payload[old[i]].subject \notin state.members
    <3>1. Payload[old[i]].subject = Author[e] /\ Payload[e].kind \in {"create", "accept"}
      BY <1>6, <2>1, <2>3
    <3>2. Payload[e].kind # "create"
      <4>1. state.community # None
        BY <1>13, <2>1 DEF Reflects
      <4> QED
        BY <1>1, <4>1 DEF validate_context
    <3>3. n + 1 \in (i + 1)..(n + 1)
      BY <1>13, <2>1
    <3> QED
      BY <1>13, <2>1, <3>1, <3>2, <3>3
  <2> QED
    BY <2>2, <2>3
<1>15. RemovedStaySilent'
  <2> SUFFICES ASSUME NEW i \in 1..(n + 1), NEW j \in 1..(n + 1), i < j,
                      Payload[accepted_in_order'[i]].kind = "remove",
                      Author[accepted_in_order'[j]] = Payload[accepted_in_order'[i]].subject
               PROVE  \E k \in (i + 1)..j :
                          /\ Payload[accepted_in_order'[k]].kind = "accept"
                          /\ Author[accepted_in_order'[k]] = Author[accepted_in_order'[j]]
    <3>1. 1..(n + 1) = DOMAIN accepted_in_order'
      BY <1>13
    <3> HIDE DEF n
    <3> QED
      BY <3>1, Zenon DEF RemovedStaySilent
  <2>1. i \in 1..n /\ accepted_in_order'[i] = old[i]
    BY <1>13
  <2>2. CASE j \in 1..n
    <3>1. PICK k \in (i + 1)..j : /\ Payload[old[k]].kind = "accept"
                                  /\ Author[old[k]] = Author[old[j]]
      BY <1>13, <2>1, <2>2 DEF RemovedStaySilent
    <3>2. k \in 1..n
      BY <1>13, <2>1, <2>2
    <3> QED
      BY <1>13, <2>2, <3>1, <3>2
  <2>3. CASE j = n + 1
    <3>1. Author[e] = Payload[old[i]].subject
      BY <1>13, <2>1, <2>3
    <3>2. CASE Payload[e].kind = "accept"
      BY <1>13, <2>1, <2>3, <3>2
    <3>3. Payload[e].kind # "create"
      <4>1. state.community # None
        BY <1>13, <2>1 DEF Reflects
      <4> QED
        BY <1>1, <4>1 DEF validate_context
    <3>4. CASE Payload[e].kind # "accept"
      <4>1. Payload[old[i]].subject \in state.members
        BY <1>1, <3>1, <3>3, <3>4, AuthorIsMember
      <4>2. PICK k \in (i + 1)..n : /\ Payload[old[k]].kind = "accept"
                                    /\ Author[old[k]] = Payload[old[i]].subject
        BY <1>13, <2>1, <4>1 DEF Silenced
      <4>3. k \in (i + 1)..j /\ k \in 1..n
        BY <1>13, <2>1, <2>3
      <4> QED
        BY <1>13, <2>3, <3>1, <4>2, <4>3
    <3> QED
      BY <3>2, <3>4
  <2> QED
    BY <2>2, <2>3
<1> QED
  BY <1>3, <1>4, <1>5, <1>8, <1>9, <1>11, <1>12, <1>14, <1>15

LEMMA NextIInv == IInv /\ [Next]_vars => IInv'
<1> SUFFICES ASSUME IInv, [Next]_vars
             PROVE  IInv'
  OBVIOUS
<1> DEFINE View == <<state, accepted, accepted_in_order>>
\* The steps that accept nothing leave the projection alone.
<1>0. ASSUME UNCHANGED View
      PROVE  /\ Sane(state)' /\ Reflects' /\ AcceptedIsHistory' /\ SingleRedemption'
             /\ MembersWereAdmitted' /\ Silenced' /\ RemovedStaySilent'
  BY <1>0 DEF IInv, Reflects, AcceptedIsHistory, SingleRedemption, MembersWereAdmitted,
              Silenced, RemovedStaySilent, OfKind
<1>1. CASE NextWave
  <2>1. TypeOK' /\ Partition' /\ WaveReady'
    BY <1>1 DEF NextWave, IInv, TypeOK, Partition, WaveReady, ready
  <2> QED
    BY <1>0, <1>1, <2>1 DEF NextWave, IInv
<1>2. ASSUME NEW e \in wave, Accept(e)
      PROVE  IInv'
  BY <1>2, AcceptIInv
<1>3. ASSUME NEW e \in wave, Reject(e)
      PROVE  IInv'
  <2>1. TypeOK' /\ Partition' /\ WaveReady'
    BY <1>3 DEF Reject, Take, IInv, TypeOK, Partition, WaveReady
  <2> QED
    BY <1>0, <1>3, <2>1 DEF Reject, IInv
<1>4. CASE Return
  <2>1. TypeOK' /\ Partition' /\ WaveReady'
    BY <1>4 DEF Return, IInv, TypeOK, Partition, WaveReady
  <2> QED
    BY <1>0, <1>4, <2>1 DEF Return, IInv
<1>5. CASE UNCHANGED vars
  <2>1. TypeOK' /\ Partition' /\ WaveReady'
    BY <1>5 DEF vars, IInv, TypeOK, Partition, WaveReady
  <2> QED
    BY <1>0, <1>5, <2>1 DEF vars, IInv
<1> QED
  BY <1>1, <1>2, <1>3, <1>4, <1>5 DEF Next

LEMMA SpecIInv == Spec => []IInv
BY InitIInv, NextIInv, PTL DEF Spec

----------------------------------------------------------------------------

\* The variables of resolve keep their types.
THEOREM TypeCorrect == Spec => []TypeOK
BY SpecIInv, PTL DEF IInv

(***************************************************************************)
(* In every projection the owner is an administrator and the               *)
(* administrators are members: validate_context protects the owner from    *)
(* removal and revocation, and apply removes an administrator's rights     *)
(* with the membership.                                                    *)
(***************************************************************************)
THEOREM OwnerAlwaysInCharge == Spec => []OwnerInCharge
<1>1. IInv => OwnerInCharge
  BY DEF IInv, Sane, OwnerInCharge
<1> QED
  BY <1>1, SpecIInv, PTL

\* An invitation admits at most once: accepted_invitations is checked before
\* and filled by every accepted chat.member.accept.
THEOREM RedeemedAtMostOnce == Spec => []SingleRedemption
BY SpecIInv, PTL DEF IInv

\* The accepted events are closed under parents and of one community.
THEOREM AcceptedAlwaysHistory == Spec => []AcceptedIsHistory
BY SpecIInv, PTL DEF IInv

\* Every member created the community or redeemed an accepted invitation.
THEOREM MembersAlwaysAdmitted == Spec => []MembersWereAdmitted
BY SpecIInv, PTL DEF IInv

\* Once removed, a user gets nothing accepted before being admitted anew.
THEOREM RemovedAlwaysSilent == Spec => []RemovedStaySilent
BY SpecIInv, PTL DEF IInv

----------------------------------------------------------------------------
\* The community of a projection

\* c is the only genesis event there is.
SoleGenesis(c) == {e \in events : IsGenesis(e)} = {c}

\* A genesis event that creates the community is not rejected, and no other is
\* accepted.
GenesisJudged ==
    \A c \in events :
        SoleGenesis(c) => IF Payload[c].kind = "create" THEN c \notin rejected
                          ELSE c \notin accepted

\* Nothing waits when resolve returns.
AllJudged == done => pending = {}

\* Only what is accepted makes a community.
Untouched == accepted = {} => state.community = None

\* Whatever is accepted rests on the genesis event, which names the community.
LEMMA AcceptedRestOnGenesis ==
    ASSUME IInv, Untouched, NEW c \in events, SoleGenesis(c)
    PROVE  /\ accepted # {} => c \in accepted
           /\ state.community # None => state.community = c /\ c \in accepted
           /\ c \in accepted => state.community = c
<1>1. accepted \in SUBSET Event /\ accepted \subseteq events /\ c \in Event /\ Home[c] = c
  BY DEF IInv, TypeOK, SoleGenesis, IsGenesis
<1>2. ASSUME accepted # {} PROVE c \in accepted
  <2>1. PICK e \in accepted : Parents[e] \cap accepted = {}
    BY <1>1, <1>2, AcyclicAssumption
  <2>2. Parents[e] = {}
    BY <2>1 DEF IInv, AcceptedIsHistory, ParentClosed
  <2> QED
    BY <1>1, <2>1, <2>2 DEF SoleGenesis, IsGenesis
<1>3. c \in accepted => state.community = c
  BY <1>1 DEF IInv, AcceptedIsHistory
<1>4. state.community # None => accepted # {}
  BY DEF Untouched
<1> QED
  BY <1>2, <1>3, <1>4

LEMMA GenesisStep == IInv /\ Untouched /\ GenesisJudged /\ [Next]_vars => GenesisJudged'
<1> SUFFICES ASSUME IInv, Untouched, GenesisJudged, [Next]_vars, NEW c \in events', SoleGenesis(c)'
             PROVE  IF Payload[c].kind = "create" THEN c \notin rejected'
                    ELSE c \notin accepted'
  BY DEF GenesisJudged
<1>1. events' = events
  BY DEF Next, NextWave, Accept, Reject, Return, vars
<1>2. c \in events /\ SoleGenesis(c) /\ IsGenesis(c) /\ Parents[c] = {}
  BY <1>1 DEF SoleGenesis, IsGenesis
<1>3. IF Payload[c].kind = "create" THEN c \notin rejected ELSE c \notin accepted
  BY <1>2 DEF GenesisJudged
<1>4. CASE NextWave \/ UNCHANGED vars
  BY <1>3, <1>4 DEF NextWave, vars
<1>5. ASSUME NEW e \in wave, Accept(e)
      PROVE  IF Payload[c].kind = "create" THEN c \notin rejected' ELSE c \notin accepted'
  <2>1. rejected' = rejected /\ accepted' = accepted \cup {e}
        /\ validate_context(state, e, accepted)
    BY <1>5 DEF Accept, Acceptable
  <2>2. ASSUME e = c, Payload[c].kind # "create" PROVE FALSE
    <3>1. state.community = None
      BY <1>2, <2>1, <2>2 DEF validate_context, CommunityField
    <3>2. state = EmptyState
      BY <3>1 DEF IInv, Sane
    <3>3. permits(EmptyState, c)
      BY <2>1, <2>2, <3>2 DEF validate_context
    <3>4. Author[c] \in User
      BY <1>2 DEF IInv, TypeOK
    <3> QED
      BY <3>3, <3>4 DEF permits, EmptyState, require_admin, require_owner, redeemable
  <2> QED
    BY <1>3, <2>1, <2>2
<1>6. ASSUME NEW e \in wave, Reject(e)
      PROVE  IF Payload[c].kind = "create" THEN c \notin rejected' ELSE c \notin accepted'
  <2>1. rejected' = rejected \cup {e} /\ accepted' = accepted /\ ~Acceptable(e)
        /\ e \in pending
    BY <1>6 DEF Reject, IInv, TypeOK
  <2>2. ASSUME e = c, Payload[c].kind = "create" PROVE FALSE
    <3>1. state.community # None
      BY <1>2, <2>1, <2>2 DEF Acceptable, validate_context
    <3>2. c \in accepted
      BY <1>2, <3>1, AcceptedRestOnGenesis
    <3> QED
      BY <2>1, <2>2, <3>2 DEF IInv, Partition
  <2> QED
    BY <1>3, <2>1, <2>2
<1>7. CASE Return
  <2>1. rejected' = rejected \cup pending /\ accepted' = accepted /\ ready = {}
    BY <1>7 DEF Return
  <2>2. c \notin pending
    BY <1>2, <2>1 DEF ready
  <2> QED
    BY <1>3, <2>1, <2>2
<1> QED
  BY <1>4, <1>5, <1>6, <1>7 DEF Next

(***************************************************************************)
(* A set of events with one genesis event projects a community, which is   *)
(* the one the genesis event names, exactly when that event is a           *)
(* CommunityCreate.  import-community asks resolve for no more, so an      *)
(* archive is refused for its genesis event or not at all.                 *)
(***************************************************************************)
GenesisDecides ==
    done => \A c \in events :
        SoleGenesis(c) => (state.community = c <=> Payload[c].kind = "create")

THEOREM GenesisAlwaysDecides == Spec => []GenesisDecides
<1>1. Init => GenesisJudged
  BY DEF Init, GenesisJudged, decode
<1>2. IInv /\ Untouched /\ GenesisJudged /\ [Next]_vars => GenesisJudged'
  BY GenesisStep
<1>3. IInv /\ Untouched /\ GenesisJudged /\ AllJudged => GenesisDecides
  <2> SUFFICES ASSUME IInv, Untouched, GenesisJudged, AllJudged, done, NEW c \in events, SoleGenesis(c)
               PROVE  state.community = c <=> Payload[c].kind = "create"
    BY DEF GenesisDecides
  <2>1. c \in accepted \/ c \in rejected
    BY DEF IInv, Partition, AllJudged
  <2>2. c # None
    BY DEF IInv, TypeOK
  <2> QED
    BY <2>1, <2>2, AcceptedRestOnGenesis DEF GenesisJudged, IInv, Partition
<1>4. Init => AllJudged /\ Untouched
  BY DEF Init, AllJudged, Untouched, EmptyState
<1>5. IInv /\ AllJudged /\ [Next]_vars => AllJudged'
  BY DEF IInv, TypeOK, AllJudged, Next, NextWave, Accept, Reject, Take, Return, vars
<1>6. Untouched /\ [Next]_vars => Untouched'
  BY DEF Untouched, Next, NextWave, Accept, Reject, Return, vars
<1> QED
  BY <1>1, <1>2, <1>3, <1>4, <1>5, <1>6, SpecIInv, PTL DEF Spec

----------------------------------------------------------------------------
\* The fold of resolve

Outcome == [state : State, accepted : SUBSET Event, rejected : SUBSET Event]

Blank(S) == [state |-> EmptyState, accepted |-> {}, rejected |-> S \ Decoded(S)]

\* verdict is the function that the fold of resolve defines by recursion: what
\* has become of the events of S when those of T are judged.
Judges(verdict, S) ==
    verdict = [T \in SUBSET Decoded(S) |->
                  IF T = {} THEN Blank(S)
                  ELSE Judge(Last(Decoded(S), T), S, verdict[T \ {Last(Decoded(S), T)}])]

Verdict(S) == CHOOSE verdict : Judges(verdict, S)

LEMMA ResolveIsVerdict == \A S : resolve(S) = Verdict(S)[Decoded(S)]
  BY DEF resolve, MapThenFoldSet, Verdict, Judges, Blank, Last, Precedes, Decoded

LEMMA JudgeType ==
    ASSUME NEW S \in SUBSET Event, NEW e \in Event, NEW outcome \in Outcome
    PROVE  Judge(e, S, outcome) \in Outcome
<1>1. outcome.state \in State /\ outcome.accepted \in SUBSET Event
      /\ outcome.rejected \in SUBSET Event
  BY DEF Outcome
<1>2. apply(outcome.state, e) \in State
  BY <1>1, ApplyType
<1>3. [outcome EXCEPT !.state = apply(@, e), !.accepted = @ \cup {e}] \in Outcome
  BY <1>1, <1>2 DEF Outcome
<1>4. [outcome EXCEPT !.rejected = @ \cup {e}] \in Outcome
  BY <1>1 DEF Outcome
<1> QED
  BY <1>3, <1>4 DEF Judge

LEMMA VerdictExists ==
    ASSUME NEW S \in SUBSET Event
    PROVE  Judges(Verdict(S), S)
<1> DEFINE D == Decoded(S)
           pick == [T \in SUBSET D |-> Last(D, T)]
           op == [x \in D \X Outcome |-> Judge(x[1], S, x[2])]
<1>1. D \in SUBSET Event /\ IsFiniteSet(D)
  <2>1. D \in SUBSET Event
    BY DEF Decoded
  <2> HIDE DEF D
  <2> QED
    BY <2>1, FiniteAssumption, FS_Subset
<1>2. Blank(S) \in Outcome
  BY DEF Blank, Outcome, EmptyState, State
<1>3. \A T \in SUBSET D : T # {} => pick[T] \in T
  BY <1>1, LastIs
<1>4. \A e \in D, outcome \in Outcome : op[<<e, outcome>>] \in Outcome
  <2>1. ASSUME NEW e \in D, NEW outcome \in Outcome
        PROVE  op[<<e, outcome>>] \in Outcome
    <3>1. op[<<e, outcome>>] = Judge(e, S, outcome) /\ e \in Event
      BY <1>1
    <3>2. Judge(e, S, outcome) \in Outcome
      BY <3>1, JudgeType
    <3> QED
      BY <3>1, <3>2
  <2> QED
    BY <2>1
<1>5. PICK f \in [SUBSET D -> Outcome] : IsFold(f, D, Blank(S), pick, op)
  <2> HIDE DEF D, pick, op
  <2> QED
    BY <1>1, <1>2, <1>3, <1>4, FoldExists
<1>6. ASSUME NEW T \in SUBSET D
      PROVE  f[T] = IF T = {} THEN Blank(S) ELSE Judge(Last(D, T), S, f[T \ {Last(D, T)}])
  <2>1. f[T] = IF T = {} THEN Blank(S) ELSE op[<<pick[T], f[T \ {pick[T]}]>>]
    <3> HIDE DEF D, pick, op
    <3> QED
      BY <1>5 DEF IsFold
  <2>2. CASE T = {}
    BY <2>1, <2>2
  <2>3. CASE T # {}
    <3>1. PICK e : e = Last(D, T)
      OBVIOUS
    <3>2. pick[T] = e /\ e \in D
      BY <1>1, <2>3, <3>1, LastIs
    <3>3. f[T \ {e}] \in Outcome
      BY <1>5
    <3>4. op[<<e, f[T \ {e}]>>] = Judge(e, S, f[T \ {e}])
      BY <3>2, <3>3
    <3> HIDE DEF D, pick, op
    <3> QED
      BY <2>1, <2>3, <3>1, <3>2, <3>4
  <2> QED
    BY <2>2, <2>3
<1>7. Judges(f, S)
  BY <1>5, <1>6 DEF Judges
<1> QED
  BY <1>7 DEF Verdict

\* Judging one event more, that the others precede.
LEMMA VerdictStep ==
    ASSUME NEW S \in SUBSET Event
    PROVE  /\ Verdict(S)[{}] = Blank(S)
           /\ \A T \in SUBSET Decoded(S) : \A e \in Decoded(S) \ T :
                 (\A f \in T : Precedes(Decoded(S), f, e)) =>
                     Verdict(S)[T \cup {e}] = Judge(e, S, Verdict(S)[T])
<1>1. PICK D : D = Decoded(S)
  OBVIOUS
<1>2. D \in SUBSET Event
  BY <1>1 DEF Decoded
<1>3. PICK verdict : verdict = Verdict(S)
  OBVIOUS
<1>4. verdict = [T \in SUBSET D |->
                    IF T = {} THEN Blank(S)
                    ELSE Judge(Last(D, T), S, verdict[T \ {Last(D, T)}])]
  BY <1>1, <1>3, VerdictExists DEF Judges
<1>5. verdict[{}] = Blank(S)
  BY <1>4
<1>6. ASSUME NEW T \in SUBSET D, NEW e \in D \ T, \A f \in T : Precedes(D, f, e)
      PROVE  verdict[T \cup {e}] = Judge(e, S, verdict[T])
  <2>1. PICK U : U = T \cup {e}
    OBVIOUS
  <2>2. Precedes(D, e, e)
    BY <1>2, PrecedesIsOrder
  <2>3. U \in SUBSET D /\ U # {} /\ e \in U /\ \A f \in U : Precedes(D, f, e)
    BY <1>6, <2>1, <2>2
  <2>4. Last(D, U) = e
    BY <1>2, <2>3, LastIs
  <2>5. U \ {e} = T
    BY <2>1
  <2>6. verdict[U] = Judge(e, S, verdict[U \ {e}])
    BY <1>4, <2>3, <2>4
  <2> QED
    BY <2>1, <2>5, <2>6
<1> QED
  BY <1>1, <1>3, <1>5, <1>6

----------------------------------------------------------------------------
\* The loop of resolve takes the events in that order

Judged == Decoded(events) \ pending

\* A wave is a level of the causal order: what is judged comes before level k,
\* the wave is of the level before it, what waits for a later wave does not.
Level(k) ==
    LET depth == Depth(Decoded(events))
    IN  /\ \A e \in Judged : depth[e] < k
        /\ \A e \in wave : depth[e] + 1 = k
        /\ \A e \in pending \ wave : k <= depth[e]

\* So far the loop has come to what the fold makes of the events judged.
InStep ==
    /\ pending \subseteq Decoded(events)
    /\ \E k \in Nat : Level(k)
    /\ \A e \in Judged, f \in wave : Precedes(Decoded(events), e, f)
    /\ [state |-> state, accepted |-> accepted, rejected |-> rejected] = Verdict(events)[Judged]
    /\ done => pending = {}

LEMMA InitInStep == ASSUME Init PROVE InStep
<1>1. /\ events \in SUBSET Event /\ pending = Decoded(events)
      /\ rejected = events \ Decoded(events)
      /\ wave = {} /\ state = EmptyState /\ accepted = {} /\ done = FALSE
  BY DEF Init, Decoded
<1>2. Judged = {}
  BY <1>1 DEF Judged
<1>3. PICK D : D = Decoded(events)
  OBVIOUS
<1>4. D \in SUBSET Event
  BY <1>1, <1>3 DEF Decoded
<1>5. Depth(D) \in [D -> Nat]
  BY <1>4, EventDepth
<1>6. Level(0)
  BY <1>1, <1>2, <1>3, <1>5 DEF Level
<1>7. Verdict(events)[Judged] = Blank(events)
  BY <1>1, <1>2, VerdictStep
<1> QED
  BY <1>1, <1>2, <1>6, <1>7 DEF InStep, Blank

LEMMA NextWaveInStep == ASSUME IInv, InStep, NextWave PROVE InStep'
<1>1. PICK D : D = Decoded(events)
  OBVIOUS
<1>2. D \in SUBSET Event /\ pending \subseteq D
  BY <1>1 DEF Decoded, IInv, TypeOK, InStep
<1>3. PICK depth : depth = Depth(D)
  OBVIOUS
<1>4. /\ depth \in [D -> Nat]
      /\ \A e \in D : \A p \in Parents[e] \cap D : depth[p] < depth[e]
      /\ \A e \in D : \A k \in Nat :
            (\A p \in Parents[e] \cap D : depth[p] < k) => depth[e] <= k
  BY <1>2, <1>3, EventDepth
<1>5. PICK J : J = D \ pending
  OBVIOUS
<1>6. PICK k \in Nat : /\ \A e \in J : depth[e] < k
                       /\ \A e \in pending : k <= depth[e]
  BY <1>1, <1>3, <1>5 DEF InStep, Level, NextWave, Judged
<1>7. /\ wave' = {e \in pending : Parents[e] \cap pending = {}}
      /\ UNCHANGED <<events, pending, state, accepted, rejected, done>>
  BY DEF NextWave, ready
<1>8. \A e \in wave' : e \in D /\ depth[e] = k
  <2>1. ASSUME NEW e \in wave' PROVE e \in D /\ depth[e] = k
    <3>1. e \in D /\ e \in pending /\ \A p \in Parents[e] \cap D : depth[p] < k
      BY <1>2, <1>5, <1>6, <1>7
    <3>2. depth[e] <= k /\ k <= depth[e] /\ depth[e] \in Nat
      BY <1>4, <1>6, <3>1
    <3> QED
      BY <3>1, <3>2
  <2> QED
    BY <2>1
<1>9. \A e \in pending \ wave' : k + 1 <= depth[e]
  <2>1. ASSUME NEW e \in pending \ wave' PROVE k + 1 <= depth[e]
    <3>1. PICK p \in Parents[e] \cap pending : TRUE
      BY <1>7, <2>1
    <3>2. e \in D /\ p \in D /\ depth[p] \in Nat /\ depth[e] \in Nat
      BY <1>2, <1>4, <3>1
    <3>3. depth[p] < depth[e] /\ k <= depth[p]
      BY <1>4, <1>6, <3>1, <3>2
    <3> QED
      BY <3>2, <3>3
  <2> QED
    BY <2>1
<1>10. D = Decoded(events)' /\ J = Judged' /\ J = Judged
  BY <1>1, <1>5, <1>7 DEF Judged, Decoded
<1>11. Level(k + 1)'
  <2>1. /\ \A e \in J : depth[e] < k + 1
        /\ \A e \in wave' : depth[e] + 1 = k + 1
    BY <1>4, <1>5, <1>6, <1>8
  <2>2. depth = Depth(Decoded(events))'
    BY <1>1, <1>3, <1>7 DEF Decoded
  <2> QED
    BY <1>7, <1>9, <1>10, <2>1, <2>2 DEF Level
<1>12. \A e \in J, f \in wave' : Precedes(D, e, f)
  BY <1>3, <1>4, <1>6, <1>8 DEF Precedes
<1>13. k + 1 \in Nat
  OBVIOUS
<1> QED
  BY <1>1, <1>2, <1>7, <1>10, <1>11, <1>12, <1>13 DEF InStep

\* What Accept and Reject do is what Judge does.
LEMMA TakeInStep ==
    ASSUME IInv, InStep, NEW e \in wave, Accept(e) \/ Reject(e)
    PROVE  InStep'
<1>1. PICK D : D = Decoded(events)
  OBVIOUS
<1>2. /\ D \in SUBSET Event /\ pending \subseteq D
      /\ wave \subseteq pending /\ e \in pending /\ e \in D
  BY <1>1 DEF Decoded, IInv, TypeOK, InStep
<1>3. PICK depth : depth = Depth(D)
  OBVIOUS
<1>4. depth \in [D -> Nat]
  BY <1>2, <1>3, EventDepth
<1>5. PICK J : J = D \ pending
  OBVIOUS
<1>6. PICK k \in Nat : /\ \A f \in J : depth[f] < k
                       /\ \A f \in wave : depth[f] + 1 = k
                       /\ \A f \in pending \ wave : k <= depth[f]
  BY <1>1, <1>3, <1>5 DEF InStep, Level, Judged
<1>7. /\ pending' = pending \ {e} /\ wave' = wave \ {e} /\ First(e, wave)
      /\ UNCHANGED <<events, done>>
  BY DEF Accept, Reject, Take
<1>8. Decoded(events)' = D /\ Judged = J /\ Judged' = J \cup {e} /\ e \notin J
  BY <1>1, <1>2, <1>5, <1>7 DEF Judged, Decoded
<1>9. Level(k)'
  <2>1. /\ \A f \in J \cup {e} : depth[f] < k
        /\ \A f \in wave' : depth[f] + 1 = k
        /\ \A f \in pending' \ wave' : k <= depth[f]
    BY <1>2, <1>4, <1>6, <1>7
  <2>2. depth = Depth(Decoded(events))'
    BY <1>1, <1>3, <1>7 DEF Decoded
  <2> QED
    BY <1>8, <2>1, <2>2 DEF Level
<1>10. \A f \in J, g \in wave : Precedes(D, f, g)
  BY <1>1, <1>8 DEF InStep
<1>11. \A g \in wave : Precedes(D, e, g)
  <2>1. ASSUME NEW g \in wave PROVE Precedes(D, e, g)
    <3>1. depth[e] = depth[g]
      BY <1>2, <1>4, <1>6
    <3> QED
      BY <1>3, <1>7, <3>1 DEF First, Precedes
  <2> QED
    BY <2>1
<1>12. \A f \in J \cup {e}, g \in wave' : Precedes(D, f, g)
  BY <1>7, <1>10, <1>11
<1>13. Verdict(events)[J \cup {e}] = Judge(e, events, Verdict(events)[J])
  <2>1. events \in SUBSET Event /\ J \in SUBSET D /\ e \in D \ J
    BY <1>2, <1>5, <1>8 DEF IInv, TypeOK
  <2>2. \A f \in J : Precedes(D, f, e)
    BY <1>10
  <2> QED
    BY <1>1, <2>1, <2>2, VerdictStep
<1>14. PICK now : now = [state |-> state, accepted |-> accepted, rejected |-> rejected]
  OBVIOUS
<1>15. Verdict(events)[J] = now
  BY <1>8, <1>14 DEF InStep
<1>16. Judge(e, events, now) = [state |-> state', accepted |-> accepted', rejected |-> rejected']
  <2>1. Acceptable(e) <=> /\ Parents[e] \subseteq events \ now.rejected
                          /\ validate_context(now.state, e, now.accepted)
    BY <1>14 DEF Acceptable
  <2>2. CASE Accept(e)
    <3>1. Judge(e, events, now) = [now EXCEPT !.state = apply(@, e), !.accepted = @ \cup {e}]
      BY <2>1, <2>2 DEF Judge, Accept
    <3>2. state' = apply(state, e) /\ accepted' = accepted \cup {e} /\ rejected' = rejected
      BY <2>2 DEF Accept
    <3> QED
      BY <1>14, <3>1, <3>2
  <2>3. CASE Reject(e)
    <3>1. Judge(e, events, now) = [now EXCEPT !.rejected = @ \cup {e}]
      BY <2>1, <2>3 DEF Judge, Reject
    <3>2. state' = state /\ accepted' = accepted /\ rejected' = rejected \cup {e}
      BY <2>3 DEF Reject
    <3> QED
      BY <1>14, <3>1, <3>2
  <2> QED
    BY <2>2, <2>3
<1>17. [state |-> state', accepted |-> accepted', rejected |-> rejected']
           = Verdict(events)[J \cup {e}]
  BY <1>13, <1>15, <1>16
<1>18. done' => pending' = {}
  BY <1>2, <1>7 DEF InStep
<1> QED
  BY <1>2, <1>7, <1>8, <1>9, <1>12, <1>17, <1>18 DEF InStep

\* Nothing is left over: a set of events in which each waits for another is
\* empty.
LEMMA ReturnInStep == ASSUME IInv, InStep, Return PROVE InStep'
<1>1. pending = {}
  <2>1. pending \in SUBSET Event
    BY DEF IInv, TypeOK
  <2> QED
    BY <2>1, AcyclicAssumption DEF Return, ready
<1>2. /\ pending' = pending /\ rejected' = rejected
      /\ UNCHANGED <<events, wave, state, accepted>>
  BY <1>1 DEF Return
<1>3. Judged' = Judged /\ Decoded(events)' = Decoded(events)
  BY <1>2 DEF Judged, Decoded
<1>4. \A k \in Nat : Level(k) => Level(k)'
  BY <1>2, <1>3 DEF Level
<1> QED
  BY <1>1, <1>2, <1>3, <1>4 DEF InStep

LEMMA NextInStep == ASSUME IInv, InStep, [Next]_vars PROVE InStep'
<1>1. CASE UNCHANGED vars
  <2>1. UNCHANGED <<events, pending, wave, state, accepted, rejected, done>>
    BY <1>1 DEF vars
  <2>2. Judged' = Judged /\ Decoded(events)' = Decoded(events)
    BY <2>1 DEF Judged, Decoded
  <2>3. \A k \in Nat : Level(k) => Level(k)'
    BY <2>1, <2>2 DEF Level
  <2> QED
    BY <2>1, <2>2, <2>3 DEF InStep
<1> QED
  BY <1>1, NextWaveInStep, TakeInStep, ReturnInStep DEF Next

(***************************************************************************)
(* The loop of resolve, wave after wave, computes the fold over the events *)
(* in the order of depth, priority and id: no event is left for the sweep  *)
(* at its end, and none is judged before one that precedes it.             *)
(***************************************************************************)
THEOREM LoopAlwaysResolve == Spec => []LoopIsResolve
<1>1. Spec => []InStep
  BY InitInStep, NextInStep, SpecIInv, PTL DEF Spec
<1>2. ASSUME InStep PROVE LoopIsResolve
  <2>1. SUFFICES ASSUME done
                 PROVE  LET outcome == resolve(events)
                        IN  /\ state = outcome.state
                            /\ accepted = outcome.accepted
                            /\ rejected = outcome.rejected
    BY DEF LoopIsResolve
  <2>2. Judged = Decoded(events)
    BY <1>2, <2>1 DEF InStep, Judged
  <2>3. resolve(events) = [state |-> state, accepted |-> accepted, rejected |-> rejected]
    BY <1>2, <2>2, ResolveIsVerdict DEF InStep
  <2> QED
    BY <2>3
<1> QED
  BY <1>1, <1>2, PTL
=============================================================================
