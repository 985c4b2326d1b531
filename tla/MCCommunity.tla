----------------------------- MODULE MCCommunity ----------------------------
(***************************************************************************)
(* An owner, the operator of a Home Server and two people who join.  The   *)
(* second declaration is the replacement the owner may choose.             *)
(***************************************************************************)
EXTENDS Community

CONSTANTS o, s, j, k

Says(kind, subject) == [kind |-> kind, subject |-> subject, sound |-> TRUE]

MCAuthor == <<j, o, k, o, o, o, o, j>>

MCPayload ==
    <<Says("accept", 6), Says("home", s), Says("accept", 6), Says("create", None),
      Says("channel", 5), Says("invite", None), Says("home", o), Says("message", 5)>>

\* Two people race for an invitation.
MCRace == {1, 2, 3, 4, 6, 7}

MCAnyone == {pair \in User \X User : pair[1] # pair[2]}

\* The owner calls the server.
MCServer == {<<o, s>>}

\* A server is set up from the owner's archive.
MCHandover == {<<s, o>>}

Unmade(e) == \A u \in User : e \notin store[u]

\* Two people race for an invitation, at the owner or at the Home Server.
InRace == Unmade(5) /\ snapshot = [r \in Server |-> {}]

\* One joins and talks; the owner runs the Home Server and may lose it.
InLife == Unmade(2) /\ Unmade(7) /\ join[k] = NoJoin /\ store[s] = {}

\* bound: one of the two at a time.  Together they are what RestoredServer.cfg is
\* about, and neither JoinedIsMember nor AcceptedForever speaks of them.
MCScenario == InRace \/ InLife

\* The hypotheses of the theorems about joins.  (That no snapshot is ever restored,
\* which AlwaysSelectable asks for, does not hold here.)
ASSUME MCHypotheses ==
    Separate /\ SoundDeclarations /\ Cardinality(Invitation) < MaxParents
=============================================================================
