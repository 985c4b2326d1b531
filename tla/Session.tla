------------------------------- MODULE Session ------------------------------
(***************************************************************************)
(* The tables a NetworkNode (crates/sync/src/network.rs) keeps of the      *)
(* peers it is connected to, and how they open a session: authentication   *)
(* on both sides, the bootstrap of a joiner, and the authorization that    *)
(* the network command replaces after every event (crates/cli).            *)
(*                                                                         *)
(* What is exchanged once two peers synchronize is module Sync; here it is *)
(* a request and an answer, after which the community may look different.  *)
(* What resolve makes of it is module Resolver; here it is any view in     *)
(* which an invitation the node saw redeemed is not active.                *)
(***************************************************************************)
EXTENDS Naturals, FiniteSets

CONSTANTS
    Node,        \* devices, one of each user
    Joiner,      \* the ones that have a code and an empty database
    Invitation,
    Code,        \* Code[n]: the endpoint and the invitation joiner n has a code of
    Link,        \* bound: <<n, p>> when n may dial p
    MaxStarts,   \* bound: the processes that are started
    MaxLosses    \* bound: the requests and answers that get lost

ASSUME NodeAssumption == Joiner \subseteq Node

ASSUME CodeAssumption == Code \in [Joiner -> [peer : Node, invitation : Invitation]]

ASSUME LinkAssumption == Link \subseteq {pair \in Node \X Node : pair[1] # pair[2]}

ASSUME BoundAssumption == MaxStarts \in Nat /\ MaxLosses \in Nat

VARIABLES
    running,    \* the nodes whose process runs
    joining,    \* the ones of them that run join
    dialed,     \* the ones of them that have dialed, once and for all
    view,       \* view[n]: whom n admits and which invitations it grants
    redeemed,   \* redeemed[n]: <<p, i>> for each acceptance n approved
    stored,     \* the joiners whose database is not empty any more
    table,      \* table[n][column]: the peers in that collection of n
    connected,  \* the connections, sets of two nodes
    stale,      \* <<n, p>> when n has not noticed that a connection to p closed
    wire,       \* requests and responses on their way
    starts,     \* bound: how many processes were started so far
    losses      \* bound: how many messages were lost so far

processes == <<running, joining, dialed>>

replicas == <<view, redeemed, stored>>

network == <<connected, stale>>

bounds == <<starts, losses>>

vars == <<processes, replicas, table, network, wire, bounds>>

Column == {"authenticated", "authentication_sent", "accepted_by_remote",
           "sync_started", "provisional", "pending_challenges", "proved_bootstraps"}

Request == {"authenticate", "sync", "begin", "prove", "accept"}

\* refused is the rejection UserNotAllowed, rejected any other.
Response == {"authenticated", "messages", "challenge", "ancestry", "accepted",
             "refused", "rejected"}

Message == [from : Node, to : Node, kind : Request \cup Response]

View == [users : SUBSET Node, invitations : SUBSET Invitation]

NoPeers == [c \in Column |-> {}]

TypeOK ==
    /\ running \subseteq Node
    /\ joining \subseteq running \cap Joiner
    /\ dialed \subseteq running
    /\ view \in [Node -> View]
    /\ redeemed \in [Node -> SUBSET (Joiner \X Invitation)]
    /\ stored \subseteq Joiner
    /\ table \in [Node -> [Column -> SUBSET Node]]
    /\ connected \subseteq {{pair[1], pair[2]} : pair \in Link}
    /\ stale \subseteq Node \X Node
    /\ wire \subseteq Message
    /\ starts \in 0..MaxStarts
    /\ losses \in 0..MaxLosses

Nobody == [users |-> {}, invitations |-> {}]

Init ==
    /\ running = {}
    /\ joining = {}
    /\ dialed = {}
    /\ view = [n \in Node |-> Nobody]
    /\ redeemed = [n \in Node |-> {}]
    /\ stored = {}
    /\ table = [n \in Node |-> NoPeers]
    /\ connected = {}
    /\ stale = {}
    /\ wire = {}
    /\ starts = 0
    /\ losses = 0

----------------------------------------------------------------------------

Msg(n, p, kind) == [from |-> n, to |-> p, kind |-> kind]

Between(n, p) == {m \in wire : {m.from, m.to} = {n, p}}

\* The peers and the invitations that n can meet.
Known(n) ==
    [users |-> {p \in Node : <<n, p>> \in Link \/ <<p, n>> \in Link},
     invitations |-> {Code[p].invitation : p \in {q \in Joiner : Code[q].peer = n}}]

Spent(n) == {pair[2] : pair \in redeemed[n]}

\* What n may find in its store.
Views(n) ==
    [users : SUBSET Known(n).users,
     invitations : SUBSET (Known(n).invitations \ Spent(n))]

Insert(t, c, p) == [t EXCEPT ![c] = @ \cup {p}]

Remove(t, c, p) == [t EXCEPT ![c] = @ \ {p}]

\* Whether p is where the code of joiner n leads.
IsTarget(n, p) == n \in joining /\ Code[n].peer = p

\* What joiner p asks n for is granted.
Granted(n, p) == p \in Joiner /\ Code[p].invitation \in view[n].invitations

\* Mutant: sessions that are open stay.
RefreshedLater(t, users) == t

\* replace_authorization: peers that are no longer admitted are dropped, and
\* their connection is going to be closed.
Refreshed(t, users) ==
    LET rejected == t["authenticated"] \ users
    IN  [c \in Column |->
            IF c \in {"authenticated", "authentication_sent",
                      "accepted_by_remote", "sync_started"}
            THEN t[c] \ rejected
            ELSE t[c]]

\* Each side has to have accepted the other before either says Hello.
StartsSync(t, p) ==
    /\ p \in t["authenticated"]
    /\ p \in t["accepted_by_remote"]
    /\ p \notin t["sync_started"]

\* n's tables become t and n sends p what out names, and Hello if it may.
\* arrived is the message that n has handled.
Step(n, p, t, arrived, out) ==
    LET hello == StartsSync(t, p)
    IN  /\ table' = [table EXCEPT ![n] = IF hello THEN Insert(t, "sync_started", p) ELSE t]
        /\ wire' = (wire \ {Msg(p, n, arrived)})
                      \cup {Msg(n, p, kind) : kind \in out}
                      \cup (IF hello THEN {Msg(n, p, "sync")} ELSE {})

Arrives(n, p, kind) ==
    /\ n \in running
    /\ Msg(p, n, kind) \in wire

\* Mutant: a join that ends is not taken for ended.
EndStillJoining(n) ==
    /\ running' = running \ {n}
    /\ table' = [table EXCEPT ![n] = NoPeers]
    /\ connected' = {pair \in connected : n \notin pair}
    /\ wire' = {m \in wire : n \notin {m.from, m.to}}
    /\ UNCHANGED <<joining, dialed, stale>>

\* The process ends.  Its peers have not noticed yet.
End(n) ==
    LET peers == {p \in Node : {n, p} \in connected}
    IN  /\ running' = running \ {n}
        /\ joining' = joining \ {n}
        /\ dialed' = dialed \ {n}
        /\ table' = [table EXCEPT ![n] = NoPeers]
        /\ connected' = {pair \in connected : n \notin pair}
        /\ stale' = {pair \in stale : pair[1] # n} \cup {<<p, n>> : p \in peers}
        /\ wire' = {m \in wire : n \notin {m.from, m.to}}

----------------------------------------------------------------------------
\* Processes and connections

\* run or serve-community
Start(n) ==
    /\ n \in Node \ running
    /\ n \in Joiner => n \in stored
    /\ starts < MaxStarts
    /\ starts' = starts + 1
    /\ running' = running \cup {n}
    /\ \E v \in Views(n) : view' = [view EXCEPT ![n] = v]
    /\ UNCHANGED <<joining, dialed, redeemed, stored, table, network, wire, losses>>

\* join
StartJoin(n) ==
    /\ n \in Joiner \ (running \cup stored)
    /\ starts < MaxStarts
    /\ starts' = starts + 1
    /\ running' = running \cup {n}
    /\ joining' = joining \cup {n}
    /\ UNCHANGED <<dialed, replicas, table, network, wire, losses>>

Stop(n) ==
    /\ n \in running
    /\ End(n)
    /\ UNCHANGED <<replicas, bounds>>

\* n presents its certificate unless it has done so to p already.
Greets(n, p) ==
    /\ p \notin table[n]["authenticated"]
    /\ p \notin table[n]["authentication_sent"]

Connect(n, p) ==
    LET greeting == {pair \in {<<n, p>>, <<p, n>>} : Greets(pair[1], pair[2])}
    IN  /\ {n, p} \subseteq running
        /\ n \in joining => IsTarget(n, p)
        /\ n \notin dialed
        /\ {n, p} \notin connected /\ <<n, p>> \notin stale
        /\ dialed' = dialed \cup {n}
        /\ connected' = connected \cup {{n, p}}
        /\ table' = [m \in Node |->
                        [table[m] EXCEPT !["authentication_sent"] =
                            @ \cup {q \in Node : <<m, q>> \in greeting}]]
        /\ wire' = wire \cup {Msg(pair[1], pair[2], "authenticate") : pair \in greeting}
        /\ UNCHANGED <<running, joining, replicas, stale, bounds>>

\* A connection breaks, and what is on its way with it.
Disconnect(n, p) ==
    /\ {n, p} \in connected
    /\ connected' = connected \ {{n, p}}
    /\ stale' = stale \cup {<<n, p>>, <<p, n>>}
    /\ wire' = wire \ Between(n, p)
    /\ UNCHANGED <<processes, replicas, table, bounds>>

\* Mutant: what a peer was told of itself outlives its connection.
ForgetAccepted(t, p) ==
    [c \in Column |-> IF c = "accepted_by_remote" THEN t[c] ELSE t[c] \ {p}]

\* Mutant: a peer that comes back is not authenticated again.
ForgetUnsent(t, p) ==
    [c \in Column |-> IF c = "authentication_sent" THEN t[c] ELSE t[c] \ {p}]

\* What is kept of p when the last connection to it is closed: nothing.
Forget(t, p) == [c \in Column |-> t[c] \ {p}]

\* n notices that its last connection to p is closed.  A request that fails
\* with it ends a join, and nothing else.
Notice(n, p) ==
    /\ <<n, p>> \in stale
    /\ {n, p} \notin connected
    /\ \/ /\ stale' = stale \ {<<n, p>>}
          /\ table' = [table EXCEPT ![n] = Forget(@, p)]
          /\ UNCHANGED <<processes, connected, wire>>
       \/ /\ n \in joining
          /\ End(n)
    /\ UNCHANGED <<replicas, bounds>>

\* A request or its answer is lost, or takes too long: an error to a join,
\* whether it asked or answered.
Lose(m) ==
    LET asking == IF m.kind \in Request THEN m.from ELSE m.to
    IN  /\ m \in wire
        /\ losses < MaxLosses
        /\ losses' = losses + 1
        /\ \/ /\ asking \in joining
              /\ End(asking)
           \/ /\ asking \notin joining
              /\ m.from \in joining
              /\ End(m.from)
           \/ /\ asking \notin joining
              /\ wire' = wire \ {m}
              /\ UNCHANGED <<processes, table, network>>
        /\ UNCHANGED <<replicas, starts>>

----------------------------------------------------------------------------
\* Authentication and synchronization, n handling a message of p

HandleAuthenticate(n, p) ==
    /\ Arrives(n, p, "authenticate")
    /\ \/ /\ p \in view[n].users
          /\ Step(n, p, Insert(table[n], "authenticated", p), "authenticate",
                  {"authenticated"})
       \/ /\ p \notin view[n].users
          /\ IsTarget(n, p)
          /\ Step(n, p, Insert(table[n], "provisional", p), "authenticate",
                  {"authenticated", "begin"})
       \/ /\ p \notin view[n].users
          /\ ~IsTarget(n, p)
          /\ Step(n, p, table[n], "authenticate", {"refused"})
    /\ UNCHANGED <<processes, replicas, network, bounds>>

ReceiveAuthenticated(n, p) ==
    /\ Arrives(n, p, "authenticated")
    /\ Step(n, p, Insert(table[n], "accepted_by_remote", p), "authenticated", {})
    /\ UNCHANGED <<processes, replicas, network, bounds>>

\* Any rejection is an error of the process, except that a joiner is not
\* admitted by its target.
ReceiveRejection(n, p) ==
    \E kind \in {"refused", "rejected"} :
        /\ Arrives(n, p, kind)
        /\ IF kind = "refused" /\ IsTarget(n, p)
           THEN wire' = wire \ {Msg(p, n, kind)} /\ UNCHANGED <<processes, table, network>>
           ELSE End(n)
        /\ UNCHANGED <<replicas, bounds>>

HandleSync(n, p) ==
    /\ Arrives(n, p, "sync")
    /\ Step(n, p, table[n], "sync",
            IF p \in table[n]["authenticated"] THEN {"messages"} ELSE {"rejected"})
    /\ UNCHANGED <<processes, replicas, network, bounds>>

\* New events may change the view, and more may be missing.
ReceiveMessages(n, p) ==
    /\ Arrives(n, p, "messages")
    /\ p \in table[n]["authenticated"]
    /\ \E v \in Views(n), more \in {{}, {"sync"}} :
          /\ view' = [view EXCEPT ![n] = v]
          /\ Step(n, p, Refreshed(table[n], v.users), "messages", more)
    /\ UNCHANGED <<processes, redeemed, stored, network, bounds>>

\* The answer of a peer that was dropped meanwhile is an error.
ReceiveUnauthorized(n, p) ==
    /\ Arrives(n, p, "messages")
    /\ p \notin table[n]["authenticated"]
    /\ End(n)
    /\ UNCHANGED <<replicas, bounds>>

----------------------------------------------------------------------------
\* Bootstrap, n the endpoint and p the joiner or the other way round

HandleBegin(n, p) ==
    /\ Arrives(n, p, "begin")
    /\ IF Granted(n, p)
       THEN Step(n, p, Insert(table[n], "pending_challenges", p), "begin", {"challenge"})
       ELSE Step(n, p, table[n], "begin", {"rejected"})
    /\ UNCHANGED <<processes, replicas, network, bounds>>

ReceiveChallenge(n, p) ==
    /\ Arrives(n, p, "challenge")
    /\ Step(n, p, table[n], "challenge", {"prove"})
    /\ UNCHANGED <<processes, replicas, network, bounds>>

HandleProve(n, p) ==
    LET unchallenged == Remove(table[n], "pending_challenges", p)
    IN  /\ Arrives(n, p, "prove")
        /\ IF p \in table[n]["pending_challenges"] /\ Granted(n, p)
           THEN Step(n, p, Insert(unchallenged, "proved_bootstraps", p), "prove",
                     {"ancestry"})
           ELSE Step(n, p, unchallenged, "prove", {"rejected"})
        /\ UNCHANGED <<processes, replicas, network, bounds>>

\* The joiner checks the ancestry (module Community), stores it and accepts,
\* or ends.
ReceiveAncestry(n, p) ==
    /\ Arrives(n, p, "ancestry")
    /\ \/ /\ p \in table[n]["provisional"]
          /\ stored' = stored \cup {n}
          /\ Step(n, p, table[n], "ancestry", {"accept"})
          /\ UNCHANGED <<processes, network>>
       \/ /\ stored' \in {stored, stored \cup {n}}
          /\ End(n)
    /\ UNCHANGED <<view, redeemed, bounds>>

\* Mutant: the grant is not looked up again.
AcceptableProved(n, p) == p \in table[n]["proved_bootstraps"]

Acceptable(n, p) == p \in table[n]["proved_bootstraps"] /\ Granted(n, p)

\* The profile may still turn an acceptance down.
HandleAccept(n, p) ==
    LET unproved == Remove(table[n], "proved_bootstraps", p)
        i == Code[p].invitation
        users == view[n].users \cup {p}
    IN  /\ Arrives(n, p, "accept")
        /\ \/ /\ Acceptable(n, p)
              /\ redeemed' = [redeemed EXCEPT ![n] = @ \cup {<<p, i>>}]
              /\ view' = [view EXCEPT ![n] =
                            [users |-> users, invitations |-> @.invitations \ {i}]]
              /\ Step(n, p, Refreshed(Insert(unproved, "authenticated", p), users),
                      "accept", {"accepted"})
           \/ /\ Step(n, p, unproved, "accept", {"rejected"})
              /\ UNCHANGED <<redeemed, view>>
        /\ UNCHANGED <<processes, stored, network, bounds>>

\* JOIN_COMPLETE: join returns.
ReceiveAccepted(n, p) ==
    /\ Arrives(n, p, "accepted")
    /\ End(n)
    /\ UNCHANGED <<replicas, bounds>>

Next ==
    \/ \E n \in Node : Start(n) \/ StartJoin(n) \/ Stop(n)
    \/ \E pair \in Link : Connect(pair[1], pair[2]) \/ Disconnect(pair[1], pair[2])
    \/ \E pair \in stale : Notice(pair[1], pair[2])
    \/ \E m \in wire : Lose(m)
    \/ \E n, p \in Node :
          \/ HandleAuthenticate(n, p) \/ ReceiveAuthenticated(n, p) \/ ReceiveRejection(n, p)
          \/ HandleSync(n, p) \/ ReceiveMessages(n, p) \/ ReceiveUnauthorized(n, p)
          \/ HandleBegin(n, p) \/ ReceiveChallenge(n, p)
          \/ HandleProve(n, p) \/ ReceiveAncestry(n, p)
          \/ HandleAccept(n, p) \/ ReceiveAccepted(n, p)

Spec == Init /\ [][Next]_vars

----------------------------------------------------------------------------

(***************************************************************************)
(* docs/adr/0018: removed members immediately lose network sync            *)
(* authorization.  Whoever n answers is admitted by n's latest view, also  *)
(* the peers that were admitted by an earlier one.                         *)
(***************************************************************************)
AuthorizedNow ==
    \A n \in running : table[n]["authenticated"] \subseteq view[n].users

\* Neither side has forgotten to close anything to the other.
Fresh(n, p) == <<n, p>> \notin stale /\ <<p, n>> \notin stale

\* One side has dropped the other, and the connection is going to be closed.
Closing(n, p) ==
    \/ p \notin table[n]["authentication_sent"]
    \/ n \notin table[p]["authentication_sent"]

\* A node counts itself accepted only by a peer it is connected to and that has
\* it in a table, or has dropped it and closes the connection: no answer of an
\* earlier connection or process is taken for one of this.
AcceptanceIsMutual ==
    \A n \in running : \A p \in table[n]["accepted_by_remote"] :
        <<n, p>> \in stale
        \/ /\ {n, p} \in connected
           /\ n \in table[p]["authenticated"] \cup table[p]["provisional"] \/ Closing(n, p)

\* However many hold the code of an invitation and have proved it at n, n
\* approves one of them.
OneRedemption ==
    \A n \in Node : \A x, y \in redeemed[n] : x[2] = y[2] => x = y

\* Nothing is on its way between two nodes that are connected.
Settled(n, p) ==
    /\ {n, p} \in connected
    /\ Between(n, p) = {}
    /\ ~Closing(n, p)
    /\ losses = 0

\* Both have sent Hello, and neither is still joining.
Synchronized(n, p) ==
    /\ {n, p} \cap joining = {}
    /\ p \in table[n]["sync_started"]
    /\ n \in table[p]["sync_started"]

(***************************************************************************)
(* Unless a message is lost, a new connection never falls silent before    *)
(* both nodes synchronize, whatever the order the two authentications and  *)
(* their answers arrive in; a join on it is over.                          *)
(***************************************************************************)
SessionOpens ==
    \A n, p \in Node : Settled(n, p) /\ Fresh(n, p) => Synchronized(n, p)

(***************************************************************************)
(* docs/adr/0009: both peers send Hello, so independent branches are       *)
(* exchanged in both directions.  Also when one of them has been restarted *)
(* or the connection replaced.                                             *)
(***************************************************************************)
BothSendHello ==
    \A n, p \in Node \ joining : Settled(n, p) => Synchronized(n, p)
=============================================================================
