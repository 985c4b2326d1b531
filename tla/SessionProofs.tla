---------------------------- MODULE SessionProofs ---------------------------
(***************************************************************************)
(* Type correctness of Session, that nobody stays authorized whom the      *)
(* latest view does not admit, that an endpoint redeems an invitation      *)
(* once, that acceptance is mutual and that a session opens on every       *)
(* connection that has fallen silent, for any nodes, codes, links and      *)
(* bounds.                                                                 *)
(*                                                                         *)
(* The inductive invariant adds to the first three that a node which does  *)
(* not run has empty tables (it may be started with any view), that no     *)
(* view grants an invitation the node has redeemed, and that only joiners  *)
(* are sent an ancestry.  The last two need to know, of every two nodes,   *)
(* what became of the certificate each has presented to the other: PInv.   *)
(***************************************************************************)
EXTENDS Session, TLAPS

Table == [Column -> SUBSET Node]

NobodyUnlessRunning == \A n \in Node \ running : table[n]["authenticated"] = {}

GrantsUnspent == \A n \in Node : view[n].invitations \cap Spent(n) = {}

AncestryToJoiners == \A m \in wire : m.kind = "ancestry" => m.to \in Joiner

IInv ==
    /\ TypeOK
    /\ AuthorizedNow
    /\ OneRedemption
    /\ NobodyUnlessRunning
    /\ GrantsUnspent
    /\ AncestryToJoiners

----------------------------------------------------------------------------
\* The operators on a table

LEMMA NoPeersType == NoPeers \in Table
  BY DEF NoPeers, Table

LEMMA InsertType ==
    ASSUME NEW t \in Table, NEW c \in Column, NEW p \in Node
    PROVE  /\ Insert(t, c, p) \in Table
           /\ Remove(t, c, p) \in Table
           /\ Forget(t, p) \in Table
           /\ Forget(t, p)["authenticated"] \subseteq t["authenticated"]
           /\ c # "authenticated" =>
                /\ Insert(t, c, p)["authenticated"] = t["authenticated"]
                /\ Remove(t, c, p)["authenticated"] = t["authenticated"]
  BY DEF Insert, Remove, Forget, Table, Column

\* The other columns leave the authenticated peers alone.
LEMMA OtherColumns ==
    ASSUME NEW t \in Table, NEW p \in Node,
           NEW c \in {"accepted_by_remote", "provisional", "pending_challenges",
                      "proved_bootstraps", "sync_started"}
    PROVE  /\ Insert(t, c, p) \in Table /\ Remove(t, c, p) \in Table
           /\ Insert(t, c, p)["authenticated"] = t["authenticated"]
           /\ Remove(t, c, p)["authenticated"] = t["authenticated"]
  <1>1. c \in Column /\ c # "authenticated"
    BY DEF Column
  <1>. QED
    BY <1>1, InsertType

LEMMA RefreshedType ==
    ASSUME NEW t \in Table, NEW users
    PROVE  /\ Refreshed(t, users) \in Table
           /\ Refreshed(t, users)["authenticated"] \subseteq users
           /\ Refreshed(t, users)["authenticated"] \subseteq t["authenticated"]
  BY DEF Refreshed, Table, Column

\* What a node may find in its store is a view.
LEMMA ViewsType ==
    ASSUME NEW n \in Node, NEW v \in Views(n)
    PROVE  /\ v \in View
           /\ v.invitations \cap Spent(n) = {}
  <1>1. Known(n).users \subseteq Node /\ Known(n).invitations \subseteq Invitation
    BY CodeAssumption DEF Known
  <1>. QED
    BY <1>1 DEF Views, View

LEMMA MsgType ==
    ASSUME NEW n \in Node, NEW p \in Node, NEW kind \in Request \cup Response
    PROVE  /\ Msg(n, p, kind) \in Message
           /\ Msg(n, p, kind).kind = kind /\ Msg(n, p, kind).to = p
  BY DEF Msg, Message

\* A step of n changes no other table, and n's peers only as told.
LEMMA StepType ==
    ASSUME NEW n \in Node, NEW p \in Node, NEW t \in Table, NEW arrived,
           NEW out \in SUBSET (Request \cup Response),
           table \in [Node -> Table], wire \subseteq Message,
           Step(n, p, t, arrived, out)
    PROVE  /\ table' \in [Node -> Table]
           /\ wire' \subseteq Message
           /\ table'[n]["authenticated"] = t["authenticated"]
           /\ \A m \in Node \ {n} : table'[m] = table[m]
           /\ AncestryToJoiners /\ ("ancestry" \in out => p \in Joiner)
                => AncestryToJoiners'
  <1>1. "sync" \in Request
    BY DEF Request
  <1>2. /\ Insert(t, "sync_started", p) \in Table
        /\ Insert(t, "sync_started", p)["authenticated"] = t["authenticated"]
    BY OtherColumns
  <1>3. /\ table' \in [Node -> Table]
        /\ table'[n]["authenticated"] = t["authenticated"]
        /\ \A m \in Node \ {n} : table'[m] = table[m]
    BY <1>2 DEF Step
  <1>4. \A m \in wire' : \/ m \in wire
                         \/ \E kind \in out \cup {"sync"} : m = Msg(n, p, kind)
    BY DEF Step
  <1>5. wire' \subseteq Message
    BY <1>1, <1>4, MsgType
  <1>6. ASSUME AncestryToJoiners, "ancestry" \in out => p \in Joiner
        PROVE  AncestryToJoiners'
    BY <1>1, <1>4, <1>6, MsgType DEF AncestryToJoiners
  <1>. QED
    BY <1>3, <1>5, <1>6

\* A process that ends leaves an empty table and nothing on the wire.
LEMMA EndType ==
    ASSUME NEW n \in Node, TypeOK, End(n)
    PROVE  /\ running' \subseteq Node
           /\ joining' \subseteq running' \cap Joiner
           /\ dialed' \subseteq running'
           /\ table' \in [Node -> Table]
           /\ connected' \subseteq {{pair[1], pair[2]} : pair \in Link}
           /\ stale' \subseteq Node \X Node
           /\ wire' \subseteq wire
           /\ running' = running \ {n}
           /\ table'[n]["authenticated"] = {}
           /\ \A m \in Node \ {n} : table'[m] = table[m]
  <1>1. table' \in [Node -> Table]
    BY NoPeersType DEF End, TypeOK, Table
  <1>2. NoPeers["authenticated"] = {}
    BY DEF NoPeers, Column
  <1>3. /\ table'[n]["authenticated"] = {}
        /\ \A m \in Node \ {n} : table'[m] = table[m]
    BY <1>2 DEF End, TypeOK
  <1>4. stale' \subseteq Node \X Node
    <2> DEFINE peers == {q \in Node : {n, q} \in connected}
    <2>1. peers \subseteq Node
      OBVIOUS
    <2>2. stale' = {pair \in stale : pair[1] # n} \cup {<<p, n>> : p \in peers}
      BY DEF End
    <2>. HIDE DEF peers
    <2>. QED
      BY <2>1, <2>2 DEF TypeOK
  <1>. QED
    BY <1>1, <1>3, <1>4 DEF End, TypeOK

----------------------------------------------------------------------------
\* The parts of the invariant that a step may disturb

\* A process that ends takes nothing from the others.
LEMMA EndInv ==
    ASSUME IInv, NEW n \in Node, End(n),
           view' = view, redeemed' = redeemed, stored' \subseteq Joiner,
           starts' \in 0..MaxStarts, losses' \in 0..MaxLosses
    PROVE  IInv'
  <1>. USE DEF IInv
  <1>1. TypeOK'
    BY EndType DEF TypeOK, Table
  <1>2. AuthorizedNow'
    BY EndType DEF AuthorizedNow, TypeOK
  <1>3. OneRedemption' /\ GrantsUnspent'
    BY DEF OneRedemption, GrantsUnspent, Spent
  <1>4. NobodyUnlessRunning'
    BY EndType DEF NobodyUnlessRunning
  <1>5. AncestryToJoiners'
    BY EndType DEF AncestryToJoiners
  <1>. QED
    BY <1>1, <1>2, <1>3, <1>4, <1>5

\* A step of a running node whose peers are all admitted by its view.
LEMMA StepInv ==
    ASSUME IInv, NEW n \in running, NEW p \in Node, NEW t \in Table, NEW arrived,
           NEW out \in SUBSET (Request \cup Response),
           Step(n, p, t, arrived, out),
           "ancestry" \in out => p \in Joiner,
           view' \in [Node -> View],
           \A m \in Node \ {n} : view'[m] = view[m],
           t["authenticated"] \subseteq view'[n].users,
           redeemed' \in [Node -> SUBSET (Joiner \X Invitation)],
           OneRedemption', GrantsUnspent',
           stored' \subseteq Joiner,
           UNCHANGED <<processes, network, bounds>>
    PROVE  IInv'
  <1>. USE DEF IInv
  <1>0. n \in Node /\ table \in [Node -> Table] /\ wire \subseteq Message
    BY DEF TypeOK, Table
  <1>1. /\ table' \in [Node -> Table]
        /\ wire' \subseteq Message
        /\ table'[n]["authenticated"] = t["authenticated"]
        /\ \A m \in Node \ {n} : table'[m] = table[m]
        /\ AncestryToJoiners'
    BY <1>0, StepType
  <1>2. TypeOK'
    BY <1>1 DEF TypeOK, Table, processes, network, bounds
  <1>3. AuthorizedNow'
    BY <1>0, <1>1 DEF AuthorizedNow, TypeOK, processes
  <1>4. NobodyUnlessRunning'
    BY <1>1 DEF NobodyUnlessRunning, processes
  <1>. QED
    BY <1>1, <1>2, <1>3, <1>4

\* A step that leaves views and replicas alone and adds no peer.
LEMMA PlainStepInv ==
    ASSUME IInv, NEW n \in running, NEW p \in Node, NEW t \in Table, NEW arrived,
           NEW out \in SUBSET (Request \cup Response),
           Step(n, p, t, arrived, out),
           "ancestry" \in out => p \in Joiner,
           t["authenticated"] \subseteq view[n].users,
           stored' \subseteq Joiner,
           UNCHANGED <<processes, view, redeemed, network, bounds>>
    PROVE  IInv'
  <1>1. /\ view' \in [Node -> View]
        /\ \A m \in Node \ {n} : view'[m] = view[m]
        /\ t["authenticated"] \subseteq view'[n].users
        /\ redeemed' \in [Node -> SUBSET (Joiner \X Invitation)]
    BY DEF IInv, TypeOK
  <1>2. OneRedemption' /\ GrantsUnspent'
    BY DEF IInv, OneRedemption, GrantsUnspent, Spent
  <1>3. UNCHANGED <<processes, network, bounds>>
    OBVIOUS
  <1>. QED
    BY <1>1, <1>2, <1>3, StepInv

----------------------------------------------------------------------------

LEMMA InitInv == ASSUME Init PROVE IInv
  <1>1. view \in [Node -> View]
    BY DEF Init, Nobody, View
  <1>2. table \in [Node -> Table]
    BY NoPeersType DEF Init
  <1>3. \A n \in Node : table[n]["authenticated"] = {}
    BY DEF Init, NoPeers, Column
  <1>4. TypeOK
    BY <1>1, <1>2, BoundAssumption DEF Init, TypeOK, Table
  <1>5. OneRedemption /\ GrantsUnspent /\ AncestryToJoiners
    BY DEF Init, OneRedemption, GrantsUnspent, Spent, Nobody, AncestryToJoiners
  <1>. QED
    BY <1>3, <1>4, <1>5 DEF IInv, AuthorizedNow, NobodyUnlessRunning, Init

\* Processes and connections
LEMMA ProcessInv ==
    ASSUME IInv, NEW n \in Node, Start(n) \/ StartJoin(n) \/ Stop(n)
    PROVE  IInv'
  <1>. USE DEF IInv
  <1>1. CASE Start(n)
    <2>1. PICK v \in Views(n) : view' = [view EXCEPT ![n] = v]
      BY <1>1 DEF Start
    <2>2. /\ view' \in [Node -> View]
          /\ view'[n] = v /\ \A m \in Node \ {n} : view'[m] = view[m]
      BY <2>1, ViewsType DEF TypeOK
    <2>3. TypeOK'
      BY <1>1, <2>2, BoundAssumption DEF Start, TypeOK, network
    <2>4. AuthorizedNow'
      BY <1>1, <2>2 DEF Start, AuthorizedNow, NobodyUnlessRunning, TypeOK
    <2>5. OneRedemption' /\ AncestryToJoiners' /\ NobodyUnlessRunning'
      BY <1>1 DEF Start, OneRedemption, AncestryToJoiners, NobodyUnlessRunning
    <2>6. GrantsUnspent'
      BY <1>1, <2>2, ViewsType DEF Start, GrantsUnspent, Spent
    <2>. QED
      BY <2>3, <2>4, <2>5, <2>6
  <1>2. CASE StartJoin(n)
    <2>1. TypeOK'
      BY <1>2, BoundAssumption DEF StartJoin, TypeOK, replicas, network
    <2>2. AuthorizedNow' /\ NobodyUnlessRunning'
      BY <1>2 DEF StartJoin, AuthorizedNow, NobodyUnlessRunning, replicas
    <2>3. OneRedemption' /\ GrantsUnspent' /\ AncestryToJoiners'
      BY <1>2 DEF StartJoin, OneRedemption, GrantsUnspent, Spent, AncestryToJoiners, replicas
    <2>. QED
      BY <2>1, <2>2, <2>3
  <1>3. CASE Stop(n)
    <2>1. /\ End(n)
          /\ view' = view /\ redeemed' = redeemed /\ stored' \subseteq Joiner
          /\ starts' \in 0..MaxStarts /\ losses' \in 0..MaxLosses
      BY <1>3 DEF Stop, replicas, bounds, TypeOK
    <2>. QED
      BY <2>1, EndInv
  <1>. QED
    BY <1>1, <1>2, <1>3

LEMMA ConnectInv ==
    ASSUME IInv, NEW pair \in Link, Connect(pair[1], pair[2])
    PROVE  IInv'
  <1>. USE DEF IInv
  <1> DEFINE n == pair[1]
             p == pair[2]
             greeting == {q \in {<<n, p>>, <<p, n>>} : Greets(q[1], q[2])}
  <1>0. n \in Node /\ p \in Node /\ "authenticate" \in Request
    BY LinkAssumption DEF Request
  <1>1. greeting \subseteq Node \X Node
    BY <1>0
  <1>2. /\ {n, p} \subseteq running
        /\ connected' = connected \cup {{n, p}}
        /\ dialed' = dialed \cup {n}
        /\ table' = [m \in Node |->
                        [table[m] EXCEPT !["authentication_sent"] =
                            @ \cup {q \in Node : <<m, q>> \in greeting}]]
        /\ wire' = wire \cup {Msg(q[1], q[2], "authenticate") : q \in greeting}
        /\ UNCHANGED <<running, joining, replicas, stale, bounds>>
    BY DEF Connect
  <1>. HIDE DEF greeting, n, p
  <1>3. /\ table' \in [Node -> Table]
        /\ \A m \in Node : table'[m]["authenticated"] = table[m]["authenticated"]
    BY <1>2 DEF TypeOK, Table, Column
  <1>4. \A m \in wire' : m \in wire \/ \E q \in greeting : m = Msg(q[1], q[2], "authenticate")
    BY <1>2
  <1>5. wire' \subseteq Message /\ AncestryToJoiners'
    BY <1>0, <1>1, <1>4, MsgType DEF TypeOK, AncestryToJoiners
  <1>6. {n, p} \in {{q[1], q[2]} : q \in Link}
    BY DEF n, p
  <1>7. TypeOK'
    BY <1>2, <1>3, <1>5, <1>6 DEF TypeOK, Table, replicas, bounds
  <1>8. AuthorizedNow' /\ NobodyUnlessRunning'
    BY <1>2, <1>3 DEF AuthorizedNow, NobodyUnlessRunning, TypeOK, replicas
  <1>9. OneRedemption' /\ GrantsUnspent'
    BY <1>2 DEF OneRedemption, GrantsUnspent, Spent, replicas
  <1>. QED
    BY <1>5, <1>7, <1>8, <1>9

LEMMA CloseInv ==
    ASSUME IInv, NEW n \in Node, NEW p \in Node, Disconnect(n, p) \/ Notice(n, p)
    PROVE  IInv'
  <1>. USE DEF IInv
  <1>1. CASE Disconnect(n, p)
    <2>1. TypeOK'
      BY <1>1 DEF Disconnect, TypeOK, processes, replicas, bounds
    <2>2. AuthorizedNow' /\ NobodyUnlessRunning'
      BY <1>1 DEF Disconnect, AuthorizedNow, NobodyUnlessRunning, processes, replicas
    <2>3. OneRedemption' /\ GrantsUnspent' /\ AncestryToJoiners'
      BY <1>1 DEF Disconnect, OneRedemption, GrantsUnspent, Spent, AncestryToJoiners, replicas
    <2>. QED
      BY <2>1, <2>2, <2>3
  <1>2. CASE Notice(n, p) /\ End(n)
    <2>1. /\ view' = view /\ redeemed' = redeemed /\ stored' \subseteq Joiner
          /\ starts' \in 0..MaxStarts /\ losses' \in 0..MaxLosses
      BY <1>2 DEF Notice, replicas, bounds, TypeOK
    <2>. QED
      BY <1>2, <2>1, EndInv
  <1>3. CASE Notice(n, p) /\ ~End(n)
    <2>1. /\ stale' = stale \ {<<n, p>>}
          /\ table' = [table EXCEPT ![n] = Forget(table[n], p)]
          /\ UNCHANGED <<processes, connected, wire>>
          /\ UNCHANGED <<replicas, bounds>>
      BY <1>3 DEF Notice
    <2>2. table[n] \in Table /\ "authenticated" \in Column
      BY DEF TypeOK, Table, Column
    <2>3. /\ Forget(table[n], p) \in Table
          /\ Forget(table[n], p)["authenticated"] \subseteq table[n]["authenticated"]
      BY <2>2, InsertType
    <2>4. TypeOK'
      BY <2>1, <2>3 DEF TypeOK, Table, processes, replicas, bounds
    <2>5. AuthorizedNow' /\ NobodyUnlessRunning'
      BY <2>1, <2>3 DEF AuthorizedNow, NobodyUnlessRunning, TypeOK, processes, replicas
    <2>6. OneRedemption' /\ GrantsUnspent' /\ AncestryToJoiners'
      BY <2>1 DEF OneRedemption, GrantsUnspent, Spent, AncestryToJoiners, replicas
    <2>. QED
      BY <2>4, <2>5, <2>6
  <1>. QED
    BY <1>1, <1>2, <1>3

LEMMA LoseInv ==
    ASSUME IInv, NEW m \in wire, Lose(m)
    PROVE  IInv'
  <1>. USE DEF IInv
  <1>0. m.from \in Node /\ m.to \in Node
    BY DEF TypeOK, Message
  <1>1. /\ view' = view /\ redeemed' = redeemed /\ stored' \subseteq Joiner
        /\ starts' \in 0..MaxStarts /\ losses' \in 0..MaxLosses
    BY BoundAssumption DEF Lose, replicas, TypeOK
  <1>2. CASE End(m.from) \/ End(m.to)
    BY <1>0, <1>1, <1>2, EndInv
  <1>3. CASE wire' = wire \ {m} /\ UNCHANGED <<processes, table, network>>
    <2>1. TypeOK'
      BY <1>1, <1>3 DEF TypeOK, processes, network
    <2>2. AuthorizedNow' /\ NobodyUnlessRunning'
      BY <1>1, <1>3 DEF AuthorizedNow, NobodyUnlessRunning, processes
    <2>3. OneRedemption' /\ GrantsUnspent' /\ AncestryToJoiners'
      BY <1>1, <1>3 DEF OneRedemption, GrantsUnspent, Spent, AncestryToJoiners
    <2>. QED
      BY <2>1, <2>2, <2>3
  <1>. QED
    BY <1>2, <1>3 DEF Lose

\* What every handler starts from.
LEMMA ArrivesFacts ==
    ASSUME IInv, NEW n \in Node, NEW p \in Node, NEW kind, Arrives(n, p, kind)
    PROVE  /\ n \in running /\ table[n] \in Table
           /\ table[n]["authenticated"] \subseteq view[n].users
  BY DEF IInv, TypeOK, Table, Arrives, AuthorizedNow

LEMMA KindsAndColumns ==
    /\ \A c \in {"authenticated", "accepted_by_remote", "provisional",
                 "pending_challenges", "proved_bootstraps"} : c \in Column
    /\ {"authenticated", "begin", "refused", "messages", "rejected", "sync", "challenge",
        "prove", "ancestry", "accept", "accepted"} \subseteq Request \cup Response
  BY DEF Column, Request, Response

\* Authentication and synchronization
LEMMA SessionInv ==
    ASSUME IInv, NEW n \in Node, NEW p \in Node,
           \/ HandleAuthenticate(n, p) \/ ReceiveAuthenticated(n, p)
           \/ HandleSync(n, p) \/ ReceiveMessages(n, p)
    PROVE  IInv'
  <1>0. stored \subseteq Joiner
    BY DEF IInv, TypeOK
  <1>1. CASE HandleAuthenticate(n, p)
    <2>1. /\ n \in running /\ table[n] \in Table
          /\ table[n]["authenticated"] \subseteq view[n].users
      BY <1>1, ArrivesFacts DEF HandleAuthenticate
    <2>2. UNCHANGED <<processes, view, redeemed, network, bounds>> /\ stored' \subseteq Joiner
      BY <1>0, <1>1 DEF HandleAuthenticate, replicas
    <2>3. CASE /\ p \in view[n].users
               /\ Step(n, p, Insert(table[n], "authenticated", p), "authenticate",
                       {"authenticated"})
      <3>1. Insert(table[n], "authenticated", p) \in Table
        BY <2>1, InsertType, KindsAndColumns
      <3>2. Insert(table[n], "authenticated", p)["authenticated"] \subseteq view[n].users
        BY <2>1, <2>3, KindsAndColumns DEF Insert, Table
      <3>3. /\ {"authenticated"} \in SUBSET (Request \cup Response)
            /\ "ancestry" \notin {"authenticated"}
        BY KindsAndColumns
      <3>. QED
        BY <2>1, <2>2, <2>3, <3>1, <3>2, <3>3, PlainStepInv
    <2>4. CASE Step(n, p, Insert(table[n], "provisional", p), "authenticate",
                    {"authenticated", "begin"})
      <3>1. /\ Insert(table[n], "provisional", p) \in Table
            /\ Insert(table[n], "provisional", p)["authenticated"] \subseteq view[n].users
        BY <2>1, OtherColumns
      <3>2. /\ {"authenticated", "begin"} \in SUBSET (Request \cup Response)
            /\ "ancestry" \notin {"authenticated", "begin"}
        BY KindsAndColumns
      <3>. QED
        BY <2>1, <2>2, <2>4, <3>1, <3>2, PlainStepInv
    <2>5. CASE Step(n, p, table[n], "authenticate", {"refused"})
      <3>1. {"refused"} \in SUBSET (Request \cup Response) /\ "ancestry" \notin {"refused"}
        BY KindsAndColumns
      <3>. QED
        BY <2>1, <2>2, <2>5, <3>1, PlainStepInv
    <2>. QED
      BY <1>1, <2>3, <2>4, <2>5 DEF HandleAuthenticate
  <1>2. CASE ReceiveAuthenticated(n, p)
    <2>1. /\ n \in running /\ table[n] \in Table
          /\ table[n]["authenticated"] \subseteq view[n].users
      BY <1>2, ArrivesFacts DEF ReceiveAuthenticated
    <2>2. /\ UNCHANGED <<processes, view, redeemed, network, bounds>> /\ stored' \subseteq Joiner
          /\ Step(n, p, Insert(table[n], "accepted_by_remote", p), "authenticated", {})
      BY <1>0, <1>2 DEF ReceiveAuthenticated, replicas
    <2>3. /\ Insert(table[n], "accepted_by_remote", p) \in Table
          /\ Insert(table[n], "accepted_by_remote", p)["authenticated"] \subseteq view[n].users
      BY <2>1, OtherColumns
    <2>. QED
      BY <2>1, <2>2, <2>3, PlainStepInv
  <1>3. CASE HandleSync(n, p)
    <2>1. /\ n \in running /\ table[n] \in Table
          /\ table[n]["authenticated"] \subseteq view[n].users
      BY <1>3, ArrivesFacts DEF HandleSync
    <2>2. UNCHANGED <<processes, view, redeemed, network, bounds>> /\ stored' \subseteq Joiner
      BY <1>0, <1>3 DEF HandleSync, replicas
    <2>3. PICK out \in {{"messages"}, {"rejected"}} : Step(n, p, table[n], "sync", out)
      BY <1>3 DEF HandleSync
    <2>4. out \in SUBSET (Request \cup Response) /\ "ancestry" \notin out
      BY <2>3, KindsAndColumns
    <2>. QED
      BY <2>1, <2>2, <2>3, <2>4, PlainStepInv
  <1>4. CASE ReceiveMessages(n, p)
    <2>1. n \in running /\ table[n] \in Table
      BY <1>4, ArrivesFacts DEF ReceiveMessages
    <2>2. PICK v \in Views(n), more \in {{}, {"sync"}} :
              /\ view' = [view EXCEPT ![n] = v]
              /\ Step(n, p, Refreshed(table[n], v.users), "messages", more)
      BY <1>4 DEF ReceiveMessages
    <2>3. UNCHANGED <<processes, redeemed, stored, network, bounds>>
      BY <1>4 DEF ReceiveMessages
    <2>4. /\ view' \in [Node -> View]
          /\ view'[n] = v /\ \A m \in Node \ {n} : view'[m] = view[m]
      BY <2>2, ViewsType DEF IInv, TypeOK
    <2>5. /\ Refreshed(table[n], v.users) \in Table
          /\ Refreshed(table[n], v.users)["authenticated"] \subseteq view'[n].users
      BY <2>1, <2>4, RefreshedType
    <2>6. more \in SUBSET (Request \cup Response) /\ "ancestry" \notin more
      BY <2>2, KindsAndColumns
    <2>7. /\ OneRedemption' /\ redeemed' \in [Node -> SUBSET (Joiner \X Invitation)]
          /\ stored' \subseteq Joiner
      BY <1>0, <2>3 DEF IInv, TypeOK, OneRedemption
    <2>8. GrantsUnspent'
      BY <2>3, <2>4, ViewsType DEF IInv, GrantsUnspent, Spent
    <2>9. UNCHANGED <<processes, network, bounds>>
      BY <2>3
    <2>. QED
      BY <2>1, <2>2, <2>4, <2>5, <2>6, <2>7, <2>8, <2>9, StepInv
  <1>. QED
    BY <1>1, <1>2, <1>3, <1>4

\* The answers that end a process
LEMMA FailureInv ==
    ASSUME IInv, NEW n \in Node, NEW p \in Node,
           \/ ReceiveRejection(n, p) \/ ReceiveUnauthorized(n, p) \/ ReceiveAccepted(n, p)
    PROVE  IInv'
  <1>. USE DEF IInv
  <1>1. /\ view' = view /\ redeemed' = redeemed /\ stored' \subseteq Joiner
        /\ starts' \in 0..MaxStarts /\ losses' \in 0..MaxLosses
    BY DEF ReceiveRejection, ReceiveUnauthorized, ReceiveAccepted, replicas, bounds, TypeOK
  <1>2. CASE End(n)
    BY <1>1, <1>2, EndInv
  <1>3. CASE ~End(n)
    <2>1. wire' \subseteq wire /\ UNCHANGED <<processes, table, network>>
      BY <1>3 DEF ReceiveRejection, ReceiveUnauthorized, ReceiveAccepted
    <2>2. TypeOK'
      BY <1>1, <2>1 DEF TypeOK, processes, network
    <2>3. AuthorizedNow' /\ NobodyUnlessRunning'
      BY <1>1, <2>1 DEF AuthorizedNow, NobodyUnlessRunning, processes
    <2>4. OneRedemption' /\ GrantsUnspent' /\ AncestryToJoiners'
      BY <1>1, <2>1 DEF OneRedemption, GrantsUnspent, Spent, AncestryToJoiners
    <2>. QED
      BY <2>2, <2>3, <2>4
  <1>. QED
    BY <1>2, <1>3

\* The bootstrap, up to the acceptance
LEMMA BootstrapInv ==
    ASSUME IInv, NEW n \in Node, NEW p \in Node,
           \/ HandleBegin(n, p) \/ ReceiveChallenge(n, p)
           \/ HandleProve(n, p) \/ ReceiveAncestry(n, p)
    PROVE  IInv'
  <1>0. stored \subseteq Joiner
    BY DEF IInv, TypeOK
  <1>1. CASE HandleBegin(n, p)
    <2>1. /\ n \in running /\ table[n] \in Table
          /\ table[n]["authenticated"] \subseteq view[n].users
      BY <1>1, ArrivesFacts DEF HandleBegin
    <2>2. UNCHANGED <<processes, view, redeemed, network, bounds>> /\ stored' \subseteq Joiner
      BY <1>0, <1>1 DEF HandleBegin, replicas
    <2>3. PICK t \in {table[n], Insert(table[n], "pending_challenges", p)},
               out \in {{"challenge"}, {"rejected"}} : Step(n, p, t, "begin", out)
      BY <1>1 DEF HandleBegin
    <2>4. t \in Table /\ t["authenticated"] \subseteq view[n].users
      <3>1. /\ Insert(table[n], "pending_challenges", p) \in Table
            /\ Insert(table[n], "pending_challenges", p)["authenticated"]
                  = table[n]["authenticated"]
        BY <2>1, OtherColumns
      <3>. QED
        BY <2>1, <2>3, <3>1
    <2>5. out \in SUBSET (Request \cup Response) /\ "ancestry" \notin out
      BY <2>3, KindsAndColumns
    <2>. QED
      BY <2>1, <2>2, <2>3, <2>4, <2>5, PlainStepInv
  <1>2. CASE ReceiveChallenge(n, p)
    <2>1. /\ n \in running /\ table[n] \in Table
          /\ table[n]["authenticated"] \subseteq view[n].users
      BY <1>2, ArrivesFacts DEF ReceiveChallenge
    <2>2. /\ UNCHANGED <<processes, view, redeemed, network, bounds>> /\ stored' \subseteq Joiner
          /\ Step(n, p, table[n], "challenge", {"prove"})
      BY <1>0, <1>2 DEF ReceiveChallenge, replicas
    <2>3. {"prove"} \in SUBSET (Request \cup Response) /\ "ancestry" \notin {"prove"}
      BY KindsAndColumns
    <2>. QED
      BY <2>1, <2>2, <2>3, PlainStepInv
  <1>3. CASE HandleProve(n, p)
    <2> DEFINE unchallenged == Remove(table[n], "pending_challenges", p)
    <2>1. /\ n \in running /\ table[n] \in Table
          /\ table[n]["authenticated"] \subseteq view[n].users
      BY <1>3, ArrivesFacts DEF HandleProve
    <2>2. UNCHANGED <<processes, view, redeemed, network, bounds>> /\ stored' \subseteq Joiner
      BY <1>0, <1>3 DEF HandleProve, replicas
    <2>3. PICK t \in {unchallenged, Insert(unchallenged, "proved_bootstraps", p)},
               out \in {{"ancestry"}, {"rejected"}} :
               Step(n, p, t, "prove", out) /\ ("ancestry" \in out => Granted(n, p))
      BY <1>3 DEF HandleProve
    <2>4. unchallenged \in Table /\ unchallenged["authenticated"] \subseteq view[n].users
      BY <2>1, OtherColumns
    <2>. HIDE DEF unchallenged
    <2>5. t \in Table /\ t["authenticated"] \subseteq view[n].users
      <3>1. /\ Insert(unchallenged, "proved_bootstraps", p) \in Table
            /\ Insert(unchallenged, "proved_bootstraps", p)["authenticated"]
                  = unchallenged["authenticated"]
        BY <2>4, OtherColumns
      <3>. QED
        BY <2>3, <2>4, <3>1
    <2>6. out \in SUBSET (Request \cup Response)
      BY <2>3, KindsAndColumns
    <2>7. "ancestry" \in out => p \in Joiner
      BY <2>3 DEF Granted
    <2>. QED
      BY <2>1, <2>2, <2>3, <2>5, <2>6, <2>7, PlainStepInv
  <1>4. CASE ReceiveAncestry(n, p)
    <2>1. /\ n \in running /\ table[n] \in Table
          /\ table[n]["authenticated"] \subseteq view[n].users
      BY <1>4, ArrivesFacts DEF ReceiveAncestry
    <2>2. n \in Joiner
      <3>1. "ancestry" \in Request \cup Response
        BY KindsAndColumns
      <3>. QED
        BY <1>4, <3>1, MsgType DEF ReceiveAncestry, Arrives, IInv, AncestryToJoiners
    <2>3. stored' \subseteq Joiner /\ UNCHANGED <<view, redeemed, bounds>>
      BY <1>0, <1>4, <2>2 DEF ReceiveAncestry
    <2>4. CASE End(n)
      <3>1. starts' \in 0..MaxStarts /\ losses' \in 0..MaxLosses
        BY <2>3 DEF bounds, IInv, TypeOK
      <3>. QED
        BY <2>3, <2>4, <3>1, EndInv
    <2>5. CASE ~End(n)
      <3>1. Step(n, p, table[n], "ancestry", {"accept"}) /\ UNCHANGED <<processes, network>>
        BY <1>4, <2>5 DEF ReceiveAncestry
      <3>2. {"accept"} \in SUBSET (Request \cup Response) /\ "ancestry" \notin {"accept"}
        BY KindsAndColumns
      <3>3. UNCHANGED <<processes, view, redeemed, network, bounds>>
        BY <2>3, <3>1
      <3>. QED
        BY <2>1, <2>3, <3>1, <3>2, <3>3, PlainStepInv
    <2>. QED
      BY <2>4, <2>5
  <1>. QED
    BY <1>1, <1>2, <1>3, <1>4

\* The acceptance: the invitation was still granted, so nobody had it before.
LEMMA AcceptInv ==
    ASSUME IInv, NEW n \in Node, NEW p \in Node, HandleAccept(n, p)
    PROVE  IInv'
  <1> DEFINE unproved == Remove(table[n], "proved_bootstraps", p)
             i == Code[p].invitation
             users == view[n].users \cup {p}
  <1>1. /\ n \in running /\ table[n] \in Table
        /\ table[n]["authenticated"] \subseteq view[n].users
    BY ArrivesFacts DEF HandleAccept
  <1>2. unproved \in Table /\ unproved["authenticated"] \subseteq view[n].users
    BY <1>1, OtherColumns
  <1>3. UNCHANGED <<processes, stored, network, bounds>> /\ stored' \subseteq Joiner
    BY DEF HandleAccept, IInv, TypeOK
  <1>4. CASE Step(n, p, unproved, "accept", {"rejected"}) /\ UNCHANGED <<redeemed, view>>
    <2>1. {"rejected"} \in SUBSET (Request \cup Response) /\ "ancestry" \notin {"rejected"}
      BY KindsAndColumns
    <2>2. UNCHANGED <<processes, view, redeemed, network, bounds>>
      BY <1>3, <1>4
    <2>. HIDE DEF unproved
    <2>. QED
      BY <1>1, <1>2, <1>3, <1>4, <2>1, <2>2, PlainStepInv
  <1>5. CASE /\ Acceptable(n, p)
             /\ redeemed' = [redeemed EXCEPT ![n] = @ \cup {<<p, i>>}]
             /\ view' = [view EXCEPT ![n] =
                            [users |-> users, invitations |-> @.invitations \ {i}]]
             /\ Step(n, p, Refreshed(Insert(unproved, "authenticated", p), users),
                     "accept", {"accepted"})
    <2>1. p \in Joiner /\ i \in view[n].invitations /\ i \in Invitation
      BY <1>5, CodeAssumption DEF Acceptable, Granted
    <2>. HIDE DEF unproved, i
    <2>2. Insert(unproved, "authenticated", p) \in Table
      BY <1>2, InsertType, KindsAndColumns
    <2>3. users \subseteq Node /\ view[n].invitations \subseteq Invitation
      BY DEF IInv, TypeOK, View
    <2>4. /\ view'[n] = [users |-> users, invitations |-> view[n].invitations \ {i}]
          /\ \A m \in Node \ {n} : view'[m] = view[m]
      BY <1>5 DEF IInv, TypeOK
    <2>5. view' \in [Node -> View]
      BY <1>5, <2>3 DEF IInv, TypeOK, View
    <2>6. /\ redeemed' \in [Node -> SUBSET (Joiner \X Invitation)]
          /\ redeemed'[n] = redeemed[n] \cup {<<p, i>>}
          /\ \A m \in Node \ {n} : redeemed'[m] = redeemed[m]
      BY <1>5, <2>1 DEF IInv, TypeOK
    <2>7. \A x \in redeemed[n] : x[2] # i
      BY <2>1 DEF IInv, GrantsUnspent, Spent
    <2>8. OneRedemption'
      BY <2>6, <2>7 DEF IInv, OneRedemption
    <2>9. GrantsUnspent'
      <3>1. ASSUME NEW m \in Node PROVE (view[m].invitations \cap Spent(m) = {})'
        <4>1. CASE m = n
          BY <2>4, <2>6, <4>1 DEF IInv, GrantsUnspent, Spent
        <4>2. CASE m # n
          BY <2>4, <2>6, <4>2 DEF IInv, GrantsUnspent, Spent
        <4>. QED
          BY <4>1, <4>2
      <3>. QED
        BY <3>1 DEF GrantsUnspent
    <2>. HIDE DEF users
    <2>10. /\ Refreshed(Insert(unproved, "authenticated", p), users) \in Table
           /\ Refreshed(Insert(unproved, "authenticated", p), users)["authenticated"]
                 \subseteq view'[n].users
      BY <2>2, <2>4, RefreshedType
    <2>11. {"accepted"} \in SUBSET (Request \cup Response) /\ "ancestry" \notin {"accepted"}
      BY KindsAndColumns
    <2>12. UNCHANGED <<processes, network, bounds>>
      BY <1>3
    <2>. QED
      BY <1>1, <1>3, <1>5, <2>4, <2>5, <2>6, <2>8, <2>9, <2>10, <2>11, <2>12, StepInv
  <1>. QED
    BY <1>4, <1>5 DEF HandleAccept

----------------------------------------------------------------------------

LEMMA NextInv == ASSUME IInv, [Next]_vars PROVE IInv'
  <1>1. CASE UNCHANGED vars
    BY <1>1 DEF vars, processes, replicas, network, bounds, IInv, TypeOK, AuthorizedNow,
                OneRedemption, NobodyUnlessRunning, GrantsUnspent, Spent, AncestryToJoiners
  <1>2. CASE Next
    <2>1. stale \subseteq Node \X Node
      BY DEF IInv, TypeOK
    <2>. QED
      BY <1>2, <2>1, LinkAssumption, ProcessInv, ConnectInv, CloseInv, LoseInv, SessionInv,
         FailureInv, BootstrapInv, AcceptInv
         DEF Next
  <1>. QED
    BY <1>1, <1>2

\* The inductive invariant.
THEOREM InvHolds == Spec => []IInv
  BY InitInv, NextInv, PTL DEF Spec

\* The tables of a NetworkNode, its views and the wire stay well typed.
THEOREM TypeCorrect == Spec => []TypeOK
  <1>1. IInv => TypeOK
    BY DEF IInv
  <1>. QED
    BY <1>1, InvHolds, PTL

\* replace_authorization after every event is enough: nobody is answered whom
\* the latest view does not admit, however many connections are open.
THEOREM AlwaysAuthorized == Spec => []AuthorizedNow
  <1>1. IInv => AuthorizedNow
    BY DEF IInv
  <1>. QED
    BY <1>1, InvHolds, PTL

\* Any number of joiners may have proved an invitation: one is approved.
THEOREM AlwaysOneRedemption == Spec => []OneRedemption
  <1>1. IInv => OneRedemption
    BY DEF IInv
  <1>. QED
    BY <1>1, InvHolds, PTL

----------------------------------------------------------------------------
\* What holds of every two nodes

Kind == Request \cup Response

\* A message of n to p is on its way.
On(n, p, kind) == Msg(n, p, kind) \in wire

\* p has n in a table, or one of the two is about to close the connection.
Held(n, p) == n \in table[p]["authenticated"] \cup table[p]["provisional"] \/ Closing(n, p)

\* The bootstrap of joiner p at n goes on: the next message of it is on its way.
Bootstrapping(p, n) ==
    /\ IsTarget(p, n)
    /\ \/ \E kind \in {"begin", "prove", "accept"} : On(p, n, kind)
       \/ \E kind \in {"challenge", "ancestry", "accepted", "rejected"} : On(n, p, kind)

\* What has become of the certificate that n has presented to p.
Heard(n, p) ==
    \/ On(n, p, "authenticate")
    \/ /\ n \in table[p]["authenticated"]
       /\ On(p, n, "authenticated") \/ p \in table[n]["accepted_by_remote"]
    \/ On(p, n, "refused") /\ ~IsTarget(p, n)
    \/ IsTarget(n, p) /\ ~IsTarget(p, n)
    \/ Bootstrapping(p, n)

\* Messages need a connection; so does what n remembers of p, until n notices
\* that the connection is closed.
Grounded(n, p) ==
    /\ \A kind \in Request \cup Response : On(n, p, kind) => {n, p} \in connected
    /\ \A c \in Column : p \in table[n][c] => {n, p} \in connected \/ <<n, p>> \in stale

\* n counts itself accepted, or is about to, by a peer that holds it.
Mutual(n, p) ==
    /\ p \in table[n]["accepted_by_remote"] =>
          <<n, p>> \in stale \/ ({n, p} \in connected /\ Held(n, p))
    /\ On(p, n, "authenticated") => Held(n, p)

\* Hello has been sent as soon as it may be.
Hello(n, p) ==
    p \in table[n]["authenticated"] \cap table[n]["accepted_by_remote"] =>
        p \in table[n]["sync_started"]

Opening(n, p) ==
    /\ losses = 0
    /\ {n, p} \in connected
    /\ Fresh(n, p)
    /\ ~Closing(n, p)
    => Heard(n, p)

Pair(n, p) == Grounded(n, p) /\ Mutual(n, p) /\ Hello(n, p) /\ Opening(n, p)

\* Connections are of processes that run; a joiner that has not joined, or is
\* still about it, has no view of the community.
RunAndJoin ==
    /\ \A n, p \in Node : {n, p} \in connected => n \in running /\ n # p
    /\ \A n \in Joiner : n \in joining \/ n \notin stored => view[n] = Nobody

PInv == RunAndJoin /\ \A n, p \in Node : Pair(n, p)

LEMMA KindNames ==
    /\ "authenticate" \in Kind /\ "authenticated" \in Kind /\ "refused" \in Kind
    /\ "begin" \in Kind /\ "prove" \in Kind /\ "accept" \in Kind
    /\ "challenge" \in Kind /\ "ancestry" \in Kind /\ "accepted" \in Kind
    /\ "rejected" \in Kind /\ "sync" \in Kind /\ "messages" \in Kind
  BY DEF Kind, Request, Response

LEMMA ColumnNames ==
    /\ "authenticated" \in Column /\ "authentication_sent" \in Column
    /\ "accepted_by_remote" \in Column /\ "sync_started" \in Column
    /\ "provisional" \in Column
    /\ "pending_challenges" \in Column /\ "proved_bootstraps" \in Column
  BY DEF Column

----------------------------------------------------------------------------
\* What the pairs depend on

\* t keeps, of what old says about p, everything, or drops p and its session.
Keeps(old, t, p) ==
    \/ \A c \in Column : p \in t[c] <=> p \in old[c]
    \/ /\ \A c \in Column : p \in t[c] => p \in old[c]
       /\ p \notin t["authentication_sent"]
       /\ p \notin t["authenticated"]

\* A step that n and p do not take, except that one may drop the other.
LEMMA Still ==
    ASSUME NEW n \in Node, NEW p \in Node, Pair(n, p),
           \A kind \in Kind : On(n, p, kind)' => On(n, p, kind),
           \A kind \in Kind : On(p, n, kind)' => On(p, n, kind),
           losses' = 0 =>
              /\ losses = 0
              /\ \A kind \in Kind : On(n, p, kind) => On(n, p, kind)'
              /\ \A kind \in Kind : On(p, n, kind) => On(p, n, kind)',
           {n, p} \in connected' <=> {n, p} \in connected,
           <<n, p>> \in stale' <=> <<n, p>> \in stale,
           <<p, n>> \in stale' <=> <<p, n>> \in stale,
           n \in joining' <=> n \in joining,
           p \in joining' <=> p \in joining,
           Keeps(table[n], table'[n], p),
           Keeps(table[p], table'[p], n)
    PROVE  Pair(n, p)'
  <1>1. Grounded(n, p)'
    BY DEF Pair, Grounded, Keeps, Kind
  <1>2. Closing(n, p) => Closing(n, p)'
    BY ColumnNames DEF Closing, Keeps
  <1>3. Held(n, p) => Held(n, p)'
    BY <1>2, ColumnNames DEF Held, Keeps, Closing
  <1>4. Mutual(n, p)'
    BY <1>3, ColumnNames, KindNames DEF Pair, Mutual, Keeps
  <1>5. Hello(n, p)'
    BY ColumnNames DEF Pair, Hello, Keeps
  <1>6. Opening(n, p)'
    <2>1. SUFFICES ASSUME losses' = 0, {n, p} \in connected', Fresh(n, p)', ~Closing(n, p)'
                   PROVE  Heard(n, p)'
      BY DEF Opening
    <2>2. Heard(n, p)
      BY <2>1, <1>2 DEF Pair, Opening, Fresh
    <2>3. /\ IsTarget(n, p)' <=> IsTarget(n, p)
          /\ IsTarget(p, n)' <=> IsTarget(p, n)
      BY DEF IsTarget
    <2>4. Bootstrapping(p, n) => Bootstrapping(p, n)'
      BY <2>1, <2>3, KindNames DEF Bootstrapping
    <2>5. /\ n \in table[p]["authenticated"] => n \in table'[p]["authenticated"]
          /\ p \in table[n]["accepted_by_remote"] => p \in table'[n]["accepted_by_remote"]
      BY <2>1, ColumnNames DEF Closing, Keeps
    <2>. QED
      BY <2>1, <2>2, <2>3, <2>4, <2>5, KindNames DEF Heard
  <1>. QED
    BY <1>1, <1>4, <1>5, <1>6 DEF Pair

\* A connection that is closed, and that n has yet to notice if it remembers p.
LEMMA Cut ==
    ASSUME NEW n \in Node, NEW p \in Node, Hello(n, p),
           \A kind \in Kind : ~On(n, p, kind)' /\ ~On(p, n, kind)',
           {n, p} \notin connected',
           \/ \A c \in Column : p \notin table'[n][c]
           \/ <<n, p>> \in stale' /\ table'[n] = table[n]
    PROVE  Pair(n, p)'
  <1>1. Grounded(n, p)'
    BY DEF Grounded, Kind
  <1>2. Mutual(n, p)'
    BY ColumnNames, KindNames DEF Mutual
  <1>3. Hello(n, p)'
    BY ColumnNames DEF Hello
  <1>4. Opening(n, p)'
    BY DEF Opening
  <1>. QED
    BY <1>1, <1>2, <1>3, <1>4 DEF Pair

\* The messages of a step: n's peer p sees what n sends, and one of its own is
\* handled.
LEMMA StepWire ==
    ASSUME NEW n \in Node, NEW p \in Node, n # p, NEW t, NEW arrived, NEW out,
           Step(n, p, t, arrived, out)
    PROVE  /\ \A kind \in Kind :
                /\ On(n, p, kind)' => On(n, p, kind) \/ kind \in out \/ kind = "sync"
                /\ On(n, p, kind) \/ kind \in out => On(n, p, kind)'
                /\ On(p, n, kind)' => On(p, n, kind)
                /\ On(p, n, kind) /\ kind # arrived => On(p, n, kind)'
           /\ \A a, b \in Node : {a, b} # {n, p} =>
                \A kind \in Kind : On(a, b, kind)' <=> On(a, b, kind)
  <1>1. \A a, b, c, d, k, l : Msg(a, b, k) = Msg(c, d, l) => a = c /\ b = d /\ k = l
    BY DEF Msg
  <1>2. \A m : m \in wire' =>
            \/ m \in wire
            \/ \E kind \in out \cup {"sync"} : m = Msg(n, p, kind)
    BY DEF Step
  <1>3. \A m : m \in wire /\ m # Msg(p, n, arrived) => m \in wire'
    BY DEF Step
  <1>4. \A kind \in out : Msg(n, p, kind) \in wire'
    BY DEF Step
  <1>. QED
    BY <1>1, <1>2, <1>3, <1>4 DEF On

\* How n, handling a message of p, may change what it remembers of p and what it
\* has to answer.
Answers(n, p, t, arrived, out) ==
    /\ p \in t["authentication_sent"] => p \in table[n]["authentication_sent"]
    /\ p \in table[n]["authenticated"] =>
          p \in t["authenticated"] \/ p \notin t["authentication_sent"]
    /\ p \in table[n]["provisional"] => p \in t["provisional"]
    /\ p \in table[n]["accepted_by_remote"] =>
          p \in t["accepted_by_remote"] \/ p \notin t["authentication_sent"]
    /\ p \in t["accepted_by_remote"] =>
          p \in table[n]["accepted_by_remote"] \/ arrived = "authenticated"
    /\ "authenticated" \in out => p \in t["authenticated"] \/ p \in t["provisional"]
    /\ arrived = "authenticated" => p \in t["accepted_by_remote"]
    /\ arrived = "refused" => IsTarget(n, p)
    /\ arrived \in {"begin", "prove", "accept"} =>
          \E kind \in {"challenge", "ancestry", "accepted", "rejected"} : kind \in out
    /\ arrived = "authenticate" =>
          \/ p \in t["authenticated"] /\ "authenticated" \in out
          \/ IsTarget(n, p) /\ "begin" \in out
          \/ ~IsTarget(n, p) /\ "refused" \in out
    /\ arrived = "challenge" => "prove" \in out
    /\ arrived = "ancestry" => "accept" \in out
    /\ arrived \notin {"accepted", "rejected"}

LEMMA StepPairs ==
    ASSUME IInv, PInv, NEW n \in Node, NEW p \in Node, NEW t \in Table,
           NEW arrived \in Kind, NEW out,
           Arrives(n, p, arrived),
           Step(n, p, t, arrived, out),
           Answers(n, p, t, arrived, out),
           \A q \in Node \ {p} : Keeps(table[n], t, q),
           UNCHANGED <<processes, network, bounds>>
    PROVE  \A a, b \in Node : Pair(a, b)'
  <1>1. Pair(n, p) /\ Pair(p, n)
    BY DEF PInv
  <1>2. {n, p} \in connected /\ {p, n} \in connected /\ n # p
    <2>1. {p, n} \in connected
      BY <1>1 DEF Arrives, Pair, Grounded, On, Kind
    <2>. QED
      BY <2>1 DEF PInv, RunAndJoin
  <1>3. /\ \A kind \in Kind :
             /\ On(n, p, kind)' => On(n, p, kind) \/ kind \in out \/ kind = "sync"
             /\ On(n, p, kind) \/ kind \in out => On(n, p, kind)'
             /\ On(p, n, kind)' => On(p, n, kind)
             /\ On(p, n, kind) /\ kind # arrived => On(p, n, kind)'
        /\ \A a, b \in Node : {a, b} # {n, p} =>
             \A kind \in Kind : On(a, b, kind)' <=> On(a, b, kind)
    BY <1>2, StepWire
  <1>4. On(p, n, arrived)
    BY DEF Arrives, On
  <1>5. UNCHANGED <<connected, stale, joining, losses>>
    BY DEF processes, network, bounds
  <1>6. /\ \A m \in Node \ {n} : table'[m] = table[m]
        /\ \A c \in Column : c # "sync_started" => table'[n][c] = t[c]
        /\ \A q \in Node \ {p}, c \in Column : q \in table'[n][c] <=> q \in t[c]
        /\ StartsSync(t, p) => p \in table'[n]["sync_started"]
        /\ ~StartsSync(t, p) => table'[n] = t
    <2>1. table \in [Node -> Table] /\ "sync_started" \in Column
      BY ColumnNames DEF IInv, TypeOK, Table
    <2>2. CASE StartsSync(t, p)
      <3>1. table' = [table EXCEPT ![n] = Insert(t, "sync_started", p)]
        BY <2>2 DEF Step
      <3>2. table'[n] = [t EXCEPT !["sync_started"] = @ \cup {p}]
        BY <2>1, <3>1 DEF Insert
      <3>3. \A m \in Node \ {n} : table'[m] = table[m]
        BY <2>1, <3>1
      <3>. QED
        BY <2>1, <2>2, <3>2, <3>3 DEF Table
    <2>3. CASE ~StartsSync(t, p)
      BY <2>1, <2>3 DEF Step
    <2>. QED
      BY <2>2, <2>3
  <1>7. \A q \in Node \ {p} : Keeps(table[n], table'[n], q)
    BY <1>6, ColumnNames DEF Keeps
  <1>8. /\ table'[n]["authentication_sent"] = t["authentication_sent"]
        /\ table'[n]["authenticated"] = t["authenticated"]
        /\ table'[n]["provisional"] = t["provisional"]
        /\ table'[n]["accepted_by_remote"] = t["accepted_by_remote"]
        /\ table'[p] = table[p]
    BY <1>2, <1>6, ColumnNames
  <1>9. /\ IsTarget(n, p)' <=> IsTarget(n, p)
        /\ IsTarget(p, n)' <=> IsTarget(p, n)
    BY <1>5 DEF IsTarget
  <1>10. Grounded(n, p)' /\ Grounded(p, n)'
    BY <1>2, <1>5 DEF Grounded
  <1>11. /\ Closing(n, p) => Closing(n, p)'
         /\ Closing(p, n) => Closing(p, n)'
    BY <1>8 DEF Closing, Answers
  <1>12. /\ Held(n, p) => Held(n, p)'
         /\ Held(p, n) => Held(p, n)'
    BY <1>8, <1>11 DEF Held, Closing, Answers
  <1>13. Mutual(n, p)'
    BY <1>1, <1>2, <1>3, <1>4, <1>5, <1>8, <1>12, KindNames DEF Pair, Mutual, Answers
  <1>14. Mutual(p, n)'
    <2>1. On(n, p, "authenticated")' => Held(p, n)'
      BY <1>1, <1>3, <1>8, <1>12, KindNames DEF Pair, Mutual, Answers, Held
    <2>. QED
      BY <1>1, <1>2, <1>5, <1>8, <1>12, <2>1 DEF Pair, Mutual
  <1>15. Hello(n, p)' /\ Hello(p, n)'
    BY <1>1, <1>6, <1>8 DEF Pair, Hello, StartsSync
  <1>16. Opening(n, p)'
    <2>1. SUFFICES ASSUME losses' = 0, {n, p} \in connected', Fresh(n, p)', ~Closing(n, p)'
                   PROVE  Heard(n, p)'
      BY DEF Opening
    <2>2. Heard(n, p)
      BY <1>1, <1>5, <1>11, <2>1 DEF Pair, Opening, Fresh
    <2>3. CASE On(n, p, "authenticate")
      BY <1>3, <2>3, KindNames DEF Heard
    <2>4. CASE /\ n \in table[p]["authenticated"]
               /\ On(p, n, "authenticated") \/ p \in table[n]["accepted_by_remote"]
      <3>1. On(p, n, "authenticated")' \/ p \in table'[n]["accepted_by_remote"]
        BY <1>3, <1>8, <2>1, <2>4, KindNames DEF Answers, Closing
      <3>. QED
        BY <1>8, <2>4, <3>1 DEF Heard
    <2>5. CASE On(p, n, "refused") /\ ~IsTarget(p, n)
      BY <1>3, <1>9, <2>5, KindNames DEF Heard, Answers
    <2>6. CASE IsTarget(n, p) /\ ~IsTarget(p, n)
      BY <1>9, <2>6 DEF Heard
    <2>7. CASE Bootstrapping(p, n)
      <3>1. Bootstrapping(p, n)'
        BY <1>3, <1>9, <2>7, KindNames DEF Bootstrapping, Answers
      <3>. QED
        BY <3>1 DEF Heard
    <2>. QED
      BY <2>2, <2>3, <2>4, <2>5, <2>6, <2>7 DEF Heard
  <1>17. Opening(p, n)'
    <2>1. SUFFICES ASSUME losses' = 0, {p, n} \in connected', Fresh(p, n)', ~Closing(p, n)'
                   PROVE  Heard(p, n)'
      BY DEF Opening
    <2>2. Heard(p, n)
      BY <1>1, <1>5, <1>11, <2>1 DEF Pair, Opening, Fresh
    <2>3. CASE On(p, n, "authenticate") /\ arrived # "authenticate"
      BY <1>3, <2>3, KindNames DEF Heard
    <2>4. CASE arrived = "authenticate"
      <3>1. CASE p \in t["authenticated"] /\ "authenticated" \in out
        BY <1>3, <1>8, <3>1, KindNames DEF Heard
      <3>2. CASE IsTarget(n, p) /\ "begin" \in out
        BY <1>3, <1>9, <3>2, KindNames DEF Heard, Bootstrapping
      <3>3. CASE ~IsTarget(n, p) /\ "refused" \in out
        BY <1>3, <1>9, <3>3, KindNames DEF Heard
      <3>. QED
        BY <2>4, <3>1, <3>2, <3>3 DEF Answers
    <2>5. CASE /\ p \in table[n]["authenticated"]
               /\ On(n, p, "authenticated") \/ n \in table[p]["accepted_by_remote"]
      <3>1. p \in table'[n]["authenticated"]
        BY <1>8, <2>1, <2>5 DEF Answers, Closing
      <3>. QED
        BY <1>3, <1>8, <2>5, <3>1, KindNames DEF Heard
    <2>6. CASE On(n, p, "refused") /\ ~IsTarget(n, p)
      BY <1>3, <1>9, <2>6, KindNames DEF Heard
    <2>7. CASE IsTarget(p, n) /\ ~IsTarget(n, p)
      BY <1>9, <2>7 DEF Heard
    <2>8. CASE Bootstrapping(n, p)
      <3>1. Bootstrapping(n, p)'
        BY <1>3, <1>9, <2>8, KindNames DEF Bootstrapping, Answers
      <3>. QED
        BY <3>1 DEF Heard
    <2>. QED
      BY <2>2, <2>3, <2>4, <2>5, <2>6, <2>7, <2>8 DEF Heard
  <1>18. Pair(n, p)' /\ Pair(p, n)'
    BY <1>10, <1>13, <1>14, <1>15, <1>16, <1>17 DEF Pair
  <1>19. ASSUME NEW a \in Node, NEW b \in Node, {a, b} # {n, p}
         PROVE  Pair(a, b)'
    <2>1. Pair(a, b)
      BY DEF PInv
    <2>2. \A c, d \in Node : {c, d} # {n, p} => Keeps(table[c], table'[c], d)
      <3>1. \A u, d : Keeps(u, u, d)
        BY DEF Keeps
      <3>. QED
        BY <1>6, <1>7, <3>1
    <2>3. {b, a} # {n, p}
      BY <1>19
    <2>4. \A kind \in Kind :
             /\ On(a, b, kind)' <=> On(a, b, kind)
             /\ On(b, a, kind)' <=> On(b, a, kind)
      BY <1>3, <1>19, <2>3
    <2>5. Keeps(table[a], table'[a], b) /\ Keeps(table[b], table'[b], a)
      BY <1>19, <2>2, <2>3
    <2>. QED
      BY <1>5, <2>1, <2>4, <2>5, Still
  <1>. QED
    <2>1. ASSUME NEW a \in Node, NEW b \in Node PROVE Pair(a, b)'
      <3>1. CASE {a, b} = {n, p}
        <4>1. (a = n /\ b = p) \/ (a = p /\ b = n)
          BY <1>2, <3>1
        <4>. QED
          BY <1>18, <4>1
      <3>. QED
        BY <1>19, <3>1
    <2>. QED
      BY <2>1

----------------------------------------------------------------------------
\* Processes and connections

LEMMA SameKeeps == \A t, p : Keeps(t, t, p)
  BY DEF Keeps

\* A node that does not run is not connected.
LEMMA RunningApart ==
    ASSUME RunAndJoin, NEW n \in Node \ running
    PROVE  \A p \in Node : {n, p} \notin connected /\ {p, n} \notin connected
  <1>1. \A p \in Node : {p, n} = {n, p}
    OBVIOUS
  <1>. QED
    BY <1>1 DEF RunAndJoin

\* A process that ends leaves its peers with something to notice, if they
\* remember it.
LEMMA EndPairs ==
    ASSUME IInv, PInv, NEW n \in Node, End(n),
           losses' = 0 => losses = 0
    PROVE  \A a, b \in Node : Pair(a, b)'
  <1>1. /\ table'[n] = NoPeers
        /\ \A m \in Node \ {n} : table'[m] = table[m]
        /\ joining' = joining \ {n}
    BY DEF End, IInv, TypeOK
  <1>2. \A c \in Column : NoPeers[c] = {}
    BY DEF NoPeers
  <1>3. \A a, b \in Node, kind \in Kind :
            On(a, b, kind)' <=> On(a, b, kind) /\ n # a /\ n # b
    BY DEF End, On, Msg
  <1>4. \A a, b \in Node : {a, b} \in connected' <=> {a, b} \in connected /\ n # a /\ n # b
    BY DEF End
  <1>5. \A a, b \in Node :
            <<a, b>> \in stale' <=>
                \/ <<a, b>> \in stale /\ a # n
                \/ b = n /\ {n, a} \in connected
    BY DEF End
  <1>6. ASSUME NEW b \in Node PROVE Pair(n, b)'
    <2>1. Hello(n, b)
      BY DEF PInv, Pair
    <2>2. \A kind \in Kind : ~On(n, b, kind)' /\ ~On(b, n, kind)'
      BY <1>3
    <2>3. {n, b} \notin connected' /\ \A c \in Column : b \notin table'[n][c]
      BY <1>1, <1>2, <1>4
    <2>. QED
      BY <2>1, <2>2, <2>3, Cut
  <1>7. ASSUME NEW a \in Node, a # n PROVE Pair(a, n)'
    <2>1. Hello(a, n) /\ Grounded(a, n)
      BY DEF PInv, Pair
    <2>2. \A kind \in Kind : ~On(n, a, kind)' /\ ~On(a, n, kind)'
      BY <1>3
    <2>3. {a, n} \notin connected' /\ table'[a] = table[a]
      BY <1>1, <1>4, <1>7
    <2>4. {a, n} = {n, a}
      OBVIOUS
    <2>5. (\A c \in Column : n \notin table'[a][c]) \/ <<a, n>> \in stale'
      BY <1>5, <1>7, <2>1, <2>3, <2>4 DEF Grounded
    <2>. QED
      BY <2>1, <2>2, <2>3, <2>5, Cut
  <1>8. ASSUME NEW a \in Node, NEW b \in Node, a # n, b # n PROVE Pair(a, b)'
    <2>1. Pair(a, b)
      BY DEF PInv
    <2>2. table'[a] = table[a] /\ table'[b] = table[b]
      BY <1>1, <1>8
    <2>3. Keeps(table[a], table'[a], b) /\ Keeps(table[b], table'[b], a)
      BY <2>2, SameKeeps
    <2>4. \A kind \in Kind : /\ On(a, b, kind)' <=> On(a, b, kind)
                             /\ On(b, a, kind)' <=> On(b, a, kind)
      BY <1>3, <1>8
    <2>5. /\ {a, b} \in connected' <=> {a, b} \in connected
          /\ <<a, b>> \in stale' <=> <<a, b>> \in stale
          /\ <<b, a>> \in stale' <=> <<b, a>> \in stale
          /\ a \in joining' <=> a \in joining
          /\ b \in joining' <=> b \in joining
      BY <1>1, <1>4, <1>5, <1>8
    <2>. QED
      BY <2>1, <2>3, <2>4, <2>5, Still
  <1>. QED
    BY <1>6, <1>7, <1>8

LEMMA EndRuns ==
    ASSUME IInv, PInv, NEW n \in Node, End(n), view' = view, stored \subseteq stored'
    PROVE  RunAndJoin'
  <1>1. \A a, b \in Node : {a, b} \in connected' => {a, b} \in connected /\ n # a
    BY DEF End
  <1>. QED
    BY <1>1 DEF PInv, RunAndJoin, End

\* A node that starts has no connection.
LEMMA StartPairs ==
    ASSUME IInv, PInv, NEW n \in Node, Start(n) \/ StartJoin(n)
    PROVE  PInv'
  <1>1. /\ UNCHANGED <<table, connected, stale, wire, losses>>
        /\ n \notin running
        /\ running \subseteq running'
        /\ \A m \in Node : m # n => (m \in joining' <=> m \in joining)
    BY DEF Start, StartJoin, network
  <1>2. RunAndJoin'
    <2>1. \A a, b \in Node : {a, b} \in connected' => a \in running' /\ a # b
      BY <1>1 DEF PInv, RunAndJoin
    <2>2. ASSUME NEW m \in Joiner, m \in joining' \/ m \notin stored'
          PROVE  view'[m] = Nobody
      <3>1. CASE Start(n)
        <4>1. m # n /\ (m \in joining \/ m \notin stored)
          BY <2>2, <3>1 DEF Start, IInv, TypeOK
        <4>2. view'[m] = view[m]
          BY <3>1, <4>1, NodeAssumption DEF Start, IInv, TypeOK
        <4>. QED
          BY <4>1, <4>2 DEF PInv, RunAndJoin
      <3>2. CASE StartJoin(n)
        BY <2>2, <3>2 DEF StartJoin, replicas, PInv, RunAndJoin
      <3>. QED
        BY <3>1, <3>2
    <2>. QED
      BY <2>1, <2>2 DEF RunAndJoin
  <1>3. ASSUME NEW a \in Node, NEW b \in Node PROVE Pair(a, b)'
    <2>1. Pair(a, b)
      BY DEF PInv
    <2>2. CASE a = n \/ b = n
      <3>1. {a, b} \notin connected'
        BY <1>1, <2>2, RunningApart DEF PInv
      <3>2. Grounded(a, b)' /\ Mutual(a, b)' /\ Hello(a, b)'
        BY <1>1, <2>1 DEF Pair, Grounded, Mutual, Hello, On, Held, Closing
      <3>. QED
        BY <3>1, <3>2 DEF Pair, Opening
    <2>3. CASE a # n /\ b # n
      <3>1. Keeps(table[a], table'[a], b) /\ Keeps(table[b], table'[b], a)
        BY <1>1, SameKeeps
      <3>2. \A kind \in Kind : /\ On(a, b, kind)' <=> On(a, b, kind)
                               /\ On(b, a, kind)' <=> On(b, a, kind)
        BY <1>1 DEF On
      <3>. QED
        BY <1>1, <2>1, <2>3, <3>1, <3>2, Still
    <2>. QED
      BY <2>2, <2>3
  <1>. QED
    BY <1>2, <1>3 DEF PInv

\* Whoever forgets nothing of an earlier connection presents its certificate on
\* the new one.
LEMMA ConnectPairs ==
    ASSUME IInv, PInv, NEW n \in Node, NEW p \in Node, n # p, Connect(n, p)
    PROVE  PInv'
  <1> DEFINE greeting == {pair \in {<<n, p>>, <<p, n>>} : Greets(pair[1], pair[2])}
  <1>1. /\ {n, p} \subseteq running
        /\ {n, p} \notin connected /\ <<n, p>> \notin stale
        /\ connected' = connected \cup {{n, p}}
        /\ table' = [m \in Node |->
                        [table[m] EXCEPT !["authentication_sent"] =
                            @ \cup {q \in Node : <<m, q>> \in greeting}]]
        /\ wire' = wire \cup {Msg(pair[1], pair[2], "authenticate") : pair \in greeting}
        /\ UNCHANGED <<running, joining, view, stored, stale, losses>>
    BY DEF Connect, replicas, bounds
  <1>2. \A a, b \in Node : <<a, b>> \in greeting <=>
            /\ <<a, b>> = <<n, p>> \/ <<a, b>> = <<p, n>>
            /\ b \notin table[a]["authenticated"] /\ b \notin table[a]["authentication_sent"]
    BY DEF Greets
  <1>3. greeting \subseteq Node \X Node
    OBVIOUS
  <1>. HIDE DEF greeting
  <1>4. RunAndJoin'
    <2>1. ASSUME NEW a \in Node, NEW b \in Node, {a, b} \in connected'
          PROVE  a \in running' /\ a # b
      <3>1. CASE {a, b} = {n, p}
        <4>1. (a = n /\ b = p) \/ (a = p /\ b = n)
          BY <3>1
        <4>2. n \in running' /\ p \in running'
          BY <1>1
        <4>. QED
          BY <4>1, <4>2
      <3>2. CASE {a, b} \in connected
        BY <1>1, <3>2 DEF PInv, RunAndJoin
      <3>. QED
        BY <1>1, <2>1, <3>1, <3>2
    <2>. QED
      BY <1>1, <2>1 DEF PInv, RunAndJoin
  <1>5. \A a, b \in Node, kind \in Kind :
            On(a, b, kind)' <=> \/ On(a, b, kind)
                                \/ <<a, b>> \in greeting /\ kind = "authenticate"
    <2>1. \A a, b, c, d, k, l : Msg(a, b, k) = Msg(c, d, l) => a = c /\ b = d /\ k = l
      BY DEF Msg
    <2>2. \A m : m \in wire' <=>
              m \in wire \/ \E pair \in greeting : m = Msg(pair[1], pair[2], "authenticate")
      BY <1>1
    <2>3. ASSUME NEW a \in Node, NEW b \in Node, NEW kind \in Kind
          PROVE  On(a, b, kind)' <=> \/ On(a, b, kind)
                                     \/ <<a, b>> \in greeting /\ kind = "authenticate"
      <3>1. ASSUME NEW pair \in greeting, Msg(a, b, kind) = Msg(pair[1], pair[2], "authenticate")
            PROVE  pair = <<a, b>> /\ kind = "authenticate"
        BY <1>3, <2>1, <3>1
      <3>2. ASSUME <<a, b>> \in greeting, kind = "authenticate"
            PROVE  \E pair \in greeting : Msg(a, b, kind) = Msg(pair[1], pair[2], "authenticate")
        BY <3>2
      <3>. QED
        BY <2>2, <3>1, <3>2 DEF On
    <2>. QED
      BY <2>3
  <1>6. \A a, b \in Node, c \in Column :
            b \in table'[a][c] <=> \/ b \in table[a][c]
                                   \/ <<a, b>> \in greeting /\ c = "authentication_sent"
    BY <1>1 DEF IInv, TypeOK
  <1>7. ASSUME NEW a \in Node, NEW b \in Node, {a, b} = {n, p}
        PROVE  Pair(a, b)'
    <2>1. Pair(a, b) /\ Pair(b, a) /\ {b, a} = {a, b}
      BY DEF PInv
    <2>2. \A kind \in Kind : ~On(a, b, kind) /\ ~On(b, a, kind)
      BY <1>1, <1>7, <2>1 DEF Pair, Grounded, Kind
    <2>3. Grounded(a, b)'
      BY <1>1, <1>7 DEF Grounded
    <2>4. CASE <<a, b>> \in stale
      <3>1. Mutual(a, b)'
        BY <1>1, <1>5, <2>2, <2>4, KindNames DEF Mutual
      <3>2. Hello(a, b)'
        BY <1>6, <2>1, ColumnNames DEF Pair, Hello
      <3>3. Opening(a, b)'
        BY <1>1, <2>4 DEF Opening, Fresh
      <3>. QED
        BY <2>3, <3>1, <3>2, <3>3 DEF Pair
    <2>5. CASE <<a, b>> \notin stale
      <3>1. \A c \in Column : b \notin table[a][c]
        BY <1>1, <1>7, <2>1, <2>5 DEF Pair, Grounded
      <3>2. <<a, b>> \in greeting
        BY <1>2, <1>7, <3>1, ColumnNames
      <3>3. On(a, b, "authenticate")'
        BY <1>5, <3>2, KindNames
      <3>4. Mutual(a, b)' /\ Hello(a, b)'
        <4>1. /\ b \notin table'[a]["accepted_by_remote"]
              /\ b \notin table'[a]["authenticated"]
          BY <1>6, <3>1, ColumnNames
        <4>2. ~On(b, a, "authenticated")'
          BY <1>5, <2>2, KindNames
        <4>. QED
          BY <4>1, <4>2 DEF Mutual, Hello
      <3>. QED
        BY <2>3, <3>3, <3>4 DEF Pair, Opening, Heard
    <2>. QED
      BY <2>4, <2>5
  <1>8. ASSUME NEW a \in Node, NEW b \in Node, {a, b} # {n, p}
        PROVE  Pair(a, b)'
    <2>1. Pair(a, b)
      BY DEF PInv
    <2>2. <<a, b>> \notin greeting /\ <<b, a>> \notin greeting
      BY <1>2, <1>8
    <2>3. Keeps(table[a], table'[a], b) /\ Keeps(table[b], table'[b], a)
      BY <1>6, <2>2 DEF Keeps
    <2>4. \A kind \in Kind : /\ On(a, b, kind)' <=> On(a, b, kind)
                             /\ On(b, a, kind)' <=> On(b, a, kind)
      BY <1>5, <2>2
    <2>5. {a, b} \in connected' <=> {a, b} \in connected
      BY <1>1, <1>8
    <2>. QED
      BY <1>1, <2>1, <2>3, <2>4, <2>5, Still
  <1>. QED
    BY <1>4, <1>7, <1>8 DEF PInv

LEMMA DisconnectPairs ==
    ASSUME IInv, PInv, NEW n \in Node, NEW p \in Node, Disconnect(n, p)
    PROVE  PInv'
  <1>1. /\ connected' = connected \ {{n, p}}
        /\ stale' = stale \cup {<<n, p>>, <<p, n>>}
        /\ UNCHANGED <<running, joining, view, stored, table, losses>>
    BY DEF Disconnect, processes, replicas, bounds
  <1>2. RunAndJoin'
    BY <1>1 DEF PInv, RunAndJoin
  <1>3. \A a, b \in Node, kind \in Kind :
            On(a, b, kind)' <=> On(a, b, kind) /\ {a, b} # {n, p}
    BY DEF Disconnect, On, Between, Msg
  <1>4. ASSUME NEW a \in Node, NEW b \in Node, {a, b} = {n, p}
        PROVE  Pair(a, b)'
    <2>1. Hello(a, b)
      BY DEF PInv, Pair
    <2>2. {b, a} = {n, p} /\ (<<a, b>> = <<n, p>> \/ <<a, b>> = <<p, n>>)
      BY <1>4
    <2>3. \A kind \in Kind : ~On(a, b, kind)' /\ ~On(b, a, kind)'
      BY <1>3, <1>4, <2>2
    <2>4. <<a, b>> \in stale' /\ table'[a] = table[a] /\ {a, b} \notin connected'
      BY <1>1, <1>4, <2>2
    <2>. QED
      BY <2>1, <2>3, <2>4, Cut
  <1>5. ASSUME NEW a \in Node, NEW b \in Node, {a, b} # {n, p}
        PROVE  Pair(a, b)'
    <2>1. Pair(a, b) /\ {b, a} # {n, p}
      BY <1>5 DEF PInv
    <2>2. Keeps(table[a], table'[a], b) /\ Keeps(table[b], table'[b], a)
      BY <1>1, SameKeeps
    <2>3. \A kind \in Kind : /\ On(a, b, kind)' <=> On(a, b, kind)
                             /\ On(b, a, kind)' <=> On(b, a, kind)
      BY <1>3, <1>5, <2>1
    <2>4. /\ {a, b} \in connected' <=> {a, b} \in connected
          /\ <<a, b>> \in stale' <=> <<a, b>> \in stale
          /\ <<b, a>> \in stale' <=> <<b, a>> \in stale
      BY <1>1, <1>5
    <2>. QED
      BY <1>1, <2>1, <2>2, <2>3, <2>4, Still
  <1>. QED
    BY <1>2, <1>4, <1>5 DEF PInv

LEMMA NoticePairs ==
    ASSUME IInv, PInv, NEW n \in Node, NEW p \in Node, Notice(n, p)
    PROVE  PInv'
  <1>0. UNCHANGED <<view, stored, losses>> /\ {n, p} \notin connected
    BY DEF Notice, replicas, bounds
  <1>1. CASE End(n)
    <2>1. RunAndJoin'
      BY <1>0, <1>1, EndRuns
    <2>. QED
      BY <1>0, <1>1, <2>1, EndPairs DEF PInv
  <1>2. CASE ~End(n)
    <2>1. /\ stale' = stale \ {<<n, p>>}
          /\ table' = [table EXCEPT ![n] = Forget(table[n], p)]
          /\ UNCHANGED <<running, joining, connected, wire>>
      BY <1>2 DEF Notice, processes
    <2>2. RunAndJoin'
      BY <1>0, <2>1 DEF PInv, RunAndJoin
    <2>3. \A a, b \in Node, c \in Column :
              b \in table'[a][c] <=> b \in table[a][c] /\ <<a, b>> # <<n, p>>
      BY <2>1 DEF IInv, TypeOK, Forget
    <2>4. \A a, b \in Node, kind \in Kind : On(a, b, kind)' <=> On(a, b, kind)
      BY <2>1 DEF On
    <2>5. {p, n} = {n, p}
      OBVIOUS
    <2>6. Pair(n, p)'
      <3>1. Hello(n, p) /\ Grounded(n, p) /\ Grounded(p, n)
        BY DEF PInv, Pair
      <3>2. \A kind \in Kind : ~On(n, p, kind)' /\ ~On(p, n, kind)'
        BY <1>0, <2>4, <2>5, <3>1 DEF Grounded, Kind
      <3>3. {n, p} \notin connected' /\ \A c \in Column : p \notin table'[n][c]
        BY <1>0, <2>1, <2>3
      <3>. QED
        BY <3>1, <3>2, <3>3, Cut
    <2>7. ASSUME p # n PROVE Pair(p, n)'
      <3>1. Hello(p, n) /\ Grounded(p, n) /\ Grounded(n, p)
        BY DEF PInv, Pair
      <3>2. \A kind \in Kind : ~On(n, p, kind)' /\ ~On(p, n, kind)'
        BY <1>0, <2>4, <2>5, <3>1 DEF Grounded, Kind
      <3>3. {p, n} \notin connected' /\ table'[p] = table[p]
        BY <1>0, <2>1, <2>5, <2>7 DEF IInv, TypeOK
      <3>4. (\A c \in Column : n \notin table'[p][c]) \/ <<p, n>> \in stale'
        BY <1>0, <2>1, <2>5, <2>7, <3>1, <3>3 DEF Grounded
      <3>. QED
        BY <3>1, <3>2, <3>3, <3>4, Cut
    <2>8. ASSUME NEW a \in Node, NEW b \in Node, {a, b} # {n, p}
          PROVE  Pair(a, b)'
      <3>1. Pair(a, b) /\ <<a, b>> # <<n, p>> /\ <<b, a>> # <<n, p>>
        BY <2>8 DEF PInv
      <3>2. Keeps(table[a], table'[a], b) /\ Keeps(table[b], table'[b], a)
        BY <2>3, <3>1 DEF Keeps
      <3>3. /\ <<a, b>> \in stale' <=> <<a, b>> \in stale
            /\ <<b, a>> \in stale' <=> <<b, a>> \in stale
        BY <2>1, <3>1
      <3>. QED
        BY <1>0, <2>1, <2>4, <3>1, <3>2, <3>3, Still
    <2>9. ASSUME NEW a \in Node, NEW b \in Node PROVE Pair(a, b)'
      <3>1. {a, b} = {n, p} => (a = n /\ b = p) \/ (a = p /\ b = n)
        OBVIOUS
      <3>. QED
        BY <2>6, <2>7, <2>8, <3>1
    <2>. QED
      BY <2>2, <2>9 DEF PInv
  <1>. QED
    BY <1>1, <1>2

\* Once a message is lost nothing is said of the sessions that open.
LEMMA LosePairs ==
    ASSUME IInv, PInv, NEW m \in wire, Lose(m)
    PROVE  PInv'
  <1>0. /\ m.from \in Node /\ m.to \in Node
        /\ UNCHANGED <<view, stored>> /\ losses' # 0
    BY DEF Lose, replicas, IInv, TypeOK, Message
  <1>1. CASE End(m.from) \/ End(m.to)
    BY <1>0, <1>1, EndPairs, EndRuns DEF PInv
  <1>2. CASE wire' = wire \ {m} /\ UNCHANGED <<processes, table, network>>
    <2>1. UNCHANGED <<running, joining, table, connected, stale>>
      BY <1>2 DEF processes, network
    <2>2. RunAndJoin'
      BY <1>0, <2>1 DEF PInv, RunAndJoin
    <2>3. ASSUME NEW a \in Node, NEW b \in Node PROVE Pair(a, b)'
      <3>1. Pair(a, b)
        BY DEF PInv
      <3>2. Keeps(table[a], table'[a], b) /\ Keeps(table[b], table'[b], a)
        BY <2>1, SameKeeps
      <3>3. \A kind \in Kind : /\ On(a, b, kind)' => On(a, b, kind)
                               /\ On(b, a, kind)' => On(b, a, kind)
        BY <1>2 DEF On
      <3>. QED
        BY <1>0, <2>1, <3>1, <3>2, <3>3, Still
    <2>. QED
      BY <2>2, <2>3 DEF PInv
  <1>. QED
    BY <1>1, <1>2 DEF Lose

----------------------------------------------------------------------------
\* The handlers

\* The rest of a step: connections and processes stay, and so does the view of a
\* joiner that has not joined.
LEMMA StepRuns ==
    ASSUME IInv, PInv, NEW n \in Node,
           UNCHANGED <<processes, network>>,
           stored \subseteq stored',
           view' \in [Node -> View],
           \A m \in Node \ {n} : view'[m] = view[m],
           view'[n] # view[n] => view[n] # Nobody
    PROVE  RunAndJoin'
  <1>1. UNCHANGED <<running, joining, connected>>
    BY DEF processes, network
  <1>2. ASSUME NEW m \in Joiner, m \in joining' \/ m \notin stored'
        PROVE  view'[m] = Nobody
    BY <1>1, <1>2, NodeAssumption DEF PInv, RunAndJoin
  <1>. QED
    BY <1>1, <1>2 DEF PInv, RunAndJoin

\* u differs from t in what column c says of p.
Differs(t, u, c, p) ==
    /\ u \in Table
    /\ \A q \in Node \ {p} : Keeps(t, u, q)
    /\ \A d \in Column \ {c} : u[d] = t[d]

LEMMA InsertDiffers ==
    ASSUME NEW t \in Table, NEW c \in Column, NEW p \in Node
    PROVE  /\ Differs(t, Insert(t, c, p), c, p)
           /\ Differs(t, Remove(t, c, p), c, p)
           /\ p \in Insert(t, c, p)[c]
  <1>1. /\ \A d \in Column \ {c} : Insert(t, c, p)[d] = t[d] /\ Remove(t, c, p)[d] = t[d]
        /\ Insert(t, c, p)[c] = t[c] \cup {p} /\ Remove(t, c, p)[c] = t[c] \ {p}
    BY DEF Insert, Remove, Table
  <1>2. \A q \in Node \ {p}, d \in Column :
            /\ q \in Insert(t, c, p)[d] <=> q \in t[d]
            /\ q \in Remove(t, c, p)[d] <=> q \in t[d]
    BY <1>1
  <1>3. \A q \in Node \ {p} : Keeps(t, Insert(t, c, p), q) /\ Keeps(t, Remove(t, c, p), q)
    BY <1>2 DEF Keeps
  <1>4. Insert(t, c, p) \in Table /\ Remove(t, c, p) \in Table
    BY InsertType
  <1>. QED
    BY <1>1, <1>3, <1>4 DEF Differs

\* replace_authorization drops a peer from all the columns of its session.
LEMMA RefreshedKeeps ==
    ASSUME NEW t \in Table, NEW users
    PROVE  /\ \A q \in Node : Keeps(t, Refreshed(t, users), q)
           /\ \A c \in Column : Refreshed(t, users)[c] \subseteq t[c]
           /\ Refreshed(t, users)["provisional"] = t["provisional"]
           /\ \A q \in Node, c \in Column :
                 q \in t[c] => \/ q \in Refreshed(t, users)[c]
                               \/ q \notin Refreshed(t, users)["authentication_sent"]
  <1> DEFINE rejected == t["authenticated"] \ users
             session == {"authenticated", "authentication_sent",
                         "accepted_by_remote", "sync_started"}
             r == Refreshed(t, users)
  <1>1. \A c \in Column : r[c] = IF c \in session THEN t[c] \ rejected ELSE t[c]
    BY DEF Refreshed
  <1>2. \A c \in session : c \in Column
    BY ColumnNames
  <1>3. ASSUME NEW q \in Node PROVE Keeps(t, r, q)
    <2>1. CASE q \in rejected
      <3>1. q \notin r["authenticated"] /\ q \notin r["authentication_sent"]
        BY <1>1, <1>2, <2>1
      <3>2. \A c \in Column : q \in r[c] => q \in t[c]
        BY <1>1
      <3>. QED
        BY <3>1, <3>2 DEF Keeps
    <2>2. CASE q \notin rejected
      BY <1>1, <2>2 DEF Keeps
    <2>. QED
      BY <2>1, <2>2
  <1>4. r["provisional"] = t["provisional"]
    BY <1>1, ColumnNames
  <1>5. \A c \in Column : r[c] \subseteq t[c]
    BY <1>1
  <1>6. ASSUME NEW q \in Node, NEW c \in Column, q \in t[c], q \notin r[c]
        PROVE  q \notin r["authentication_sent"]
    BY <1>1, <1>2, <1>6
  <1>. QED
    BY <1>3, <1>4, <1>5, <1>6

LEMMA HandledPairs ==
    ASSUME IInv, PInv, NEW n \in Node, NEW p \in Node, NEW t \in Table,
           NEW arrived \in Kind, NEW out,
           Arrives(n, p, arrived),
           Step(n, p, t, arrived, out),
           Answers(n, p, t, arrived, out),
           \A q \in Node \ {p} : Keeps(table[n], t, q),
           UNCHANGED <<processes, network, bounds>>,
           stored \subseteq stored',
           view' \in [Node -> View],
           \A m \in Node \ {n} : view'[m] = view[m],
           view'[n] # view[n] => view[n] # Nobody
    PROVE  PInv'
  <1>1. RunAndJoin'
    <2>1. UNCHANGED <<processes, network>>
      OBVIOUS
    <2>. QED
      BY <2>1, StepRuns
  <1>2. \A a, b \in Node : Pair(a, b)'
    BY StepPairs
  <1>. QED
    BY <1>1, <1>2 DEF PInv

\* A handler that changes no view.
LEMMA PlainHandledPairs ==
    ASSUME IInv, PInv, NEW n \in Node, NEW p \in Node, NEW t \in Table,
           NEW arrived \in Kind, NEW out,
           Arrives(n, p, arrived),
           Step(n, p, t, arrived, out),
           Answers(n, p, t, arrived, out),
           \A q \in Node \ {p} : Keeps(table[n], t, q),
           UNCHANGED <<processes, network, bounds, view>>,
           stored \subseteq stored'
    PROVE  PInv'
  <1>1. /\ view' \in [Node -> View]
        /\ \A m \in Node \ {n} : view'[m] = view[m]
        /\ view'[n] = view[n]
    BY DEF IInv, TypeOK
  <1>2. UNCHANGED <<processes, network, bounds>>
    OBVIOUS
  <1>. QED
    BY <1>1, <1>2, HandledPairs

LEMMA AuthenticatePairs ==
    ASSUME IInv, PInv, NEW n \in Node, NEW p \in Node, HandleAuthenticate(n, p)
    PROVE  PInv'
  <1>1. /\ Arrives(n, p, "authenticate") /\ table[n] \in Table /\ "authenticate" \in Kind
        /\ UNCHANGED <<processes, network, bounds, view>> /\ stored \subseteq stored'
    BY ArrivesFacts, KindNames DEF HandleAuthenticate, replicas
  <1>2. CASE Step(n, p, Insert(table[n], "authenticated", p), "authenticate", {"authenticated"})
    <2>1. PICK t : t = Insert(table[n], "authenticated", p)
      OBVIOUS
    <2>2. Differs(table[n], t, "authenticated", p) /\ p \in t["authenticated"]
      BY <1>1, <2>1, InsertDiffers, ColumnNames
    <2>3. Answers(n, p, t, "authenticate", {"authenticated"})
      BY <2>2, ColumnNames DEF Answers, Differs
    <2>. QED
      BY <1>1, <1>2, <2>1, <2>2, <2>3, PlainHandledPairs DEF Differs
  <1>3. CASE /\ IsTarget(n, p)
             /\ Step(n, p, Insert(table[n], "provisional", p), "authenticate",
                     {"authenticated", "begin"})
    <2>1. PICK t : t = Insert(table[n], "provisional", p)
      OBVIOUS
    <2>2. Differs(table[n], t, "provisional", p) /\ p \in t["provisional"]
      BY <1>1, <2>1, InsertDiffers, ColumnNames
    <2>3. Answers(n, p, t, "authenticate", {"authenticated", "begin"})
      BY <1>3, <2>2, ColumnNames DEF Answers, Differs
    <2>. QED
      BY <1>1, <1>3, <2>1, <2>2, <2>3, PlainHandledPairs DEF Differs
  <1>4. CASE ~IsTarget(n, p) /\ Step(n, p, table[n], "authenticate", {"refused"})
    <2>1. PICK t : t = table[n]
      OBVIOUS
    <2>2. Answers(n, p, t, "authenticate", {"refused"}) /\ t \in Table
      BY <1>1, <1>4, <2>1 DEF Answers
    <2>3. \A q \in Node \ {p} : Keeps(table[n], t, q)
      BY <2>1, SameKeeps
    <2>. QED
      BY <1>1, <1>4, <2>1, <2>2, <2>3, PlainHandledPairs
  <1>. QED
    BY <1>2, <1>3, <1>4 DEF HandleAuthenticate

LEMMA AuthenticatedPairs ==
    ASSUME IInv, PInv, NEW n \in Node, NEW p \in Node, ReceiveAuthenticated(n, p)
    PROVE  PInv'
  <1>1. PICK t : t = Insert(table[n], "accepted_by_remote", p)
    OBVIOUS
  <1>2. /\ Arrives(n, p, "authenticated") /\ table[n] \in Table /\ "authenticated" \in Kind
        /\ UNCHANGED <<processes, network, bounds, view>> /\ stored \subseteq stored'
        /\ Step(n, p, t, "authenticated", {})
    BY <1>1, ArrivesFacts, KindNames DEF ReceiveAuthenticated, replicas
  <1>3. Differs(table[n], t, "accepted_by_remote", p) /\ p \in t["accepted_by_remote"]
    BY <1>1, <1>2, InsertDiffers, ColumnNames
  <1>4. Answers(n, p, t, "authenticated", {})
    BY <1>3, ColumnNames DEF Answers, Differs
  <1>. QED
    BY <1>2, <1>3, <1>4, PlainHandledPairs DEF Differs

\* A handler that changes no table.
LEMMA UnchangedPairs ==
    ASSUME IInv, PInv, NEW n \in Node, NEW p \in Node, NEW arrived \in Kind, NEW out,
           Arrives(n, p, arrived),
           Step(n, p, table[n], arrived, out),
           Answers(n, p, table[n], arrived, out),
           UNCHANGED <<processes, network, bounds, view>>,
           stored \subseteq stored'
    PROVE  PInv'
  <1>1. PICK t : t = table[n]
    OBVIOUS
  <1>2. t \in Table /\ \A q \in Node \ {p} : Keeps(table[n], t, q)
    BY <1>1, ArrivesFacts, SameKeeps
  <1>3. Step(n, p, t, arrived, out) /\ Answers(n, p, t, arrived, out)
    BY <1>1
  <1>. QED
    BY <1>2, <1>3, PlainHandledPairs

\* The joiner goes on when its target refuses it: that is what it joins for.
LEMMA RejectionPairs ==
    ASSUME IInv, PInv, NEW n \in Node, NEW p \in Node, ReceiveRejection(n, p)
    PROVE  PInv'
  <1>1. PICK kind \in {"refused", "rejected"} :
            /\ Arrives(n, p, kind)
            /\ IF kind = "refused" /\ IsTarget(n, p)
               THEN wire' = wire \ {Msg(p, n, kind)} /\ UNCHANGED <<processes, table, network>>
               ELSE End(n)
            /\ UNCHANGED <<replicas, bounds>>
    BY DEF ReceiveRejection
  <1>2. CASE kind = "refused" /\ IsTarget(n, p)
    <2>1. /\ Arrives(n, p, "refused") /\ "refused" \in Kind
          /\ UNCHANGED <<processes, network, bounds, view>> /\ stored \subseteq stored'
      BY <1>1, <1>2, KindNames DEF replicas
    <2>2. ~StartsSync(table[n], p)
      BY DEF StartsSync, PInv, Pair, Hello
    <2>3. table' = [table EXCEPT ![n] = table[n]]
      BY <1>1, <1>2 DEF IInv, TypeOK
    <2>4. wire' = (wire \ {Msg(p, n, "refused")}) \cup {Msg(n, p, k) : k \in {}} \cup {}
      BY <1>1, <1>2
    <2>5. Step(n, p, table[n], "refused", {})
      BY <2>2, <2>3, <2>4 DEF Step
    <2>6. Answers(n, p, table[n], "refused", {})
      BY <1>2 DEF Answers
    <2>. QED
      BY <2>1, <2>5, <2>6, UnchangedPairs
  <1>3. CASE ~(kind = "refused" /\ IsTarget(n, p))
    <2>1. End(n) /\ UNCHANGED <<view, stored, losses>>
      BY <1>1, <1>3 DEF replicas, bounds
    <2>. QED
      BY <2>1, EndPairs, EndRuns DEF PInv
  <1>. QED
    BY <1>2, <1>3

\* Whoever is synchronized with has a view, so it is not joining.
LEMMA MessagesPairs ==
    ASSUME IInv, PInv, NEW n \in Node, NEW p \in Node, ReceiveMessages(n, p)
    PROVE  PInv'
  <1>1. /\ Arrives(n, p, "messages") /\ p \in table[n]["authenticated"]
        /\ "messages" \in Kind /\ table[n] \in Table
        /\ table[n]["authenticated"] \subseteq view[n].users
        /\ UNCHANGED <<processes, network, bounds>> /\ stored \subseteq stored'
    BY ArrivesFacts, KindNames DEF ReceiveMessages
  <1>2. PICK v \in Views(n), more \in {{}, {"sync"}} :
            /\ view' = [view EXCEPT ![n] = v]
            /\ Step(n, p, Refreshed(table[n], v.users), "messages", more)
    BY DEF ReceiveMessages
  <1>3. view[n] # Nobody
    BY <1>1 DEF Nobody
  <1>4. /\ view' \in [Node -> View]
        /\ \A m \in Node \ {n} : view'[m] = view[m]
    BY <1>2, ViewsType DEF IInv, TypeOK
  <1>5. PICK t : t = Refreshed(table[n], v.users)
    OBVIOUS
  <1>6. /\ t \in Table /\ \A q \in Node \ {p} : Keeps(table[n], t, q)
        /\ \A c \in Column : t[c] \subseteq table[n][c]
        /\ t["provisional"] = table[n]["provisional"]
        /\ \A c \in Column : p \in table[n][c] => p \in t[c] \/ p \notin t["authentication_sent"]
    BY <1>1, <1>5, RefreshedType, RefreshedKeeps
  <1>7. Answers(n, p, t, "messages", more)
    BY <1>2, <1>6, ColumnNames DEF Answers
  <1>. QED
    BY <1>1, <1>2, <1>3, <1>4, <1>5, <1>6, <1>7, HandledPairs

LEMMA SyncPairs ==
    ASSUME IInv, PInv, NEW n \in Node, NEW p \in Node, HandleSync(n, p)
    PROVE  PInv'
  <1>1. /\ Arrives(n, p, "sync") /\ "sync" \in Kind
        /\ UNCHANGED <<processes, network, bounds, view>> /\ stored \subseteq stored'
    BY KindNames DEF HandleSync, replicas
  <1>2. PICK out \in {{"messages"}, {"rejected"}} : Step(n, p, table[n], "sync", out)
    BY DEF HandleSync
  <1>3. Answers(n, p, table[n], "sync", out)
    BY <1>2 DEF Answers
  <1>. QED
    BY <1>1, <1>2, <1>3, UnchangedPairs

\* The bootstrap: each message is answered, if only with a rejection.
LEMMA BootstrapPairs ==
    ASSUME IInv, PInv, NEW n \in Node, NEW p \in Node,
           \/ HandleBegin(n, p) \/ ReceiveChallenge(n, p)
           \/ HandleProve(n, p) \/ ReceiveAncestry(n, p)
    PROVE  PInv'
  <1>1. CASE HandleBegin(n, p)
    <2>1. /\ Arrives(n, p, "begin") /\ table[n] \in Table /\ "begin" \in Kind
          /\ UNCHANGED <<processes, network, bounds, view>> /\ stored \subseteq stored'
      BY <1>1, ArrivesFacts, KindNames DEF HandleBegin, replicas
    <2>2. CASE Step(n, p, Insert(table[n], "pending_challenges", p), "begin", {"challenge"})
      <3>1. PICK t : t = Insert(table[n], "pending_challenges", p)
        OBVIOUS
      <3>2. Differs(table[n], t, "pending_challenges", p)
        BY <2>1, <3>1, InsertDiffers, ColumnNames
      <3>3. Answers(n, p, t, "begin", {"challenge"})
        BY <3>2, ColumnNames DEF Answers, Differs
      <3>. QED
        BY <2>1, <2>2, <3>1, <3>2, <3>3, PlainHandledPairs DEF Differs
    <2>3. CASE Step(n, p, table[n], "begin", {"rejected"})
      <3>1. Answers(n, p, table[n], "begin", {"rejected"})
        BY DEF Answers
      <3>. QED
        BY <2>1, <2>3, <3>1, UnchangedPairs
    <2>. QED
      BY <1>1, <2>2, <2>3 DEF HandleBegin
  <1>2. CASE ReceiveChallenge(n, p)
    <2>1. /\ Arrives(n, p, "challenge") /\ "challenge" \in Kind
          /\ UNCHANGED <<processes, network, bounds, view>> /\ stored \subseteq stored'
          /\ Step(n, p, table[n], "challenge", {"prove"})
      BY <1>2, KindNames DEF ReceiveChallenge, replicas
    <2>2. Answers(n, p, table[n], "challenge", {"prove"})
      BY DEF Answers
    <2>. QED
      BY <2>1, <2>2, UnchangedPairs
  <1>3. CASE HandleProve(n, p)
    <2>1. PICK u : u = Remove(table[n], "pending_challenges", p)
      OBVIOUS
    <2>2. /\ Arrives(n, p, "prove") /\ table[n] \in Table /\ "prove" \in Kind
          /\ UNCHANGED <<processes, network, bounds, view>> /\ stored \subseteq stored'
          /\ \/ Step(n, p, Insert(u, "proved_bootstraps", p), "prove", {"ancestry"})
             \/ Step(n, p, u, "prove", {"rejected"})
      BY <1>3, <2>1, ArrivesFacts, KindNames DEF HandleProve, replicas
    <2>3. Differs(table[n], u, "pending_challenges", p)
      BY <2>1, <2>2, InsertDiffers, ColumnNames
    <2>4. CASE Step(n, p, Insert(u, "proved_bootstraps", p), "prove", {"ancestry"})
      <3>1. PICK t : t = Insert(u, "proved_bootstraps", p)
        OBVIOUS
      <3>2. Differs(u, t, "proved_bootstraps", p)
        <4>1. u \in Table
          BY <2>3 DEF Differs
        <4>. QED
          BY <3>1, <4>1, InsertDiffers, ColumnNames
      <3>3. Answers(n, p, t, "prove", {"ancestry"})
        BY <2>3, <3>2, ColumnNames DEF Answers, Differs
      <3>4. \A q \in Node \ {p} : Keeps(table[n], t, q)
        BY <2>3, <3>2, ColumnNames DEF Differs, Keeps
      <3>. QED
        BY <2>2, <2>4, <3>1, <3>2, <3>3, <3>4, PlainHandledPairs DEF Differs
    <2>5. CASE Step(n, p, u, "prove", {"rejected"})
      <3>1. Answers(n, p, u, "prove", {"rejected"})
        BY <2>3, ColumnNames DEF Answers, Differs
      <3>. QED
        BY <2>2, <2>3, <2>5, <3>1, PlainHandledPairs DEF Differs
    <2>. QED
      BY <2>2, <2>4, <2>5
  <1>4. CASE ReceiveAncestry(n, p)
    <2>1. /\ Arrives(n, p, "ancestry") /\ "ancestry" \in Kind
          /\ UNCHANGED <<bounds, view, losses>> /\ stored \subseteq stored'
      BY <1>4, KindNames DEF ReceiveAncestry, bounds
    <2>2. CASE End(n)
      BY <2>1, <2>2, EndPairs, EndRuns DEF PInv
    <2>3. CASE Step(n, p, table[n], "ancestry", {"accept"}) /\ UNCHANGED <<processes, network>>
      <3>1. Answers(n, p, table[n], "ancestry", {"accept"})
        BY DEF Answers
      <3>2. UNCHANGED <<processes, network, bounds, view>>
        BY <2>1, <2>3
      <3>. QED
        BY <2>1, <2>3, <3>1, <3>2, UnchangedPairs
    <2>. QED
      BY <1>4, <2>2, <2>3 DEF ReceiveAncestry
  <1>. QED
    BY <1>1, <1>2, <1>3, <1>4

LEMMA AcceptPairs ==
    ASSUME IInv, PInv, NEW n \in Node, NEW p \in Node, HandleAccept(n, p)
    PROVE  PInv'
  <1>1. PICK u : u = Remove(table[n], "proved_bootstraps", p)
    OBVIOUS
  <1>2. /\ Arrives(n, p, "accept") /\ table[n] \in Table /\ "accept" \in Kind
        /\ UNCHANGED <<processes, network, bounds>> /\ stored \subseteq stored'
    BY ArrivesFacts, KindNames DEF HandleAccept
  <1>3. Differs(table[n], u, "proved_bootstraps", p)
    BY <1>1, <1>2, InsertDiffers, ColumnNames
  <1>4. CASE Step(n, p, u, "accept", {"rejected"}) /\ view' = view
    <2>1. Answers(n, p, u, "accept", {"rejected"})
      BY <1>3, ColumnNames DEF Answers, Differs
    <2>2. UNCHANGED <<processes, network, bounds, view>>
      BY <1>2, <1>4
    <2>. QED
      BY <1>2, <1>3, <1>4, <2>1, <2>2, PlainHandledPairs DEF Differs
  <1>5. CASE ~(Step(n, p, u, "accept", {"rejected"}) /\ view' = view)
    <2>1. PICK users, i :
              /\ users = view[n].users \cup {p}
              /\ i = Code[p].invitation
              /\ Acceptable(n, p)
              /\ view' = [view EXCEPT ![n] =
                             [users |-> users, invitations |-> @.invitations \ {i}]]
              /\ Step(n, p, Refreshed(Insert(u, "authenticated", p), users), "accept",
                      {"accepted"})
      BY <1>1, <1>5 DEF HandleAccept
    <2>2. view[n] # Nobody
      BY <2>1 DEF Acceptable, Granted, Nobody
    <2>3. /\ view' \in [Node -> View]
          /\ \A m \in Node \ {n} : view'[m] = view[m]
      <3>1. view[n].users \subseteq Node /\ view[n].invitations \subseteq Invitation
        BY DEF IInv, TypeOK, View
      <3>2. [users |-> users, invitations |-> view[n].invitations \ {i}] \in View
        BY <2>1, <3>1 DEF View
      <3>. QED
        BY <2>1, <3>2 DEF IInv, TypeOK
    <2>4. PICK w : w = Insert(u, "authenticated", p)
      OBVIOUS
    <2>5. Differs(u, w, "authenticated", p) /\ p \in w["authenticated"]
      <3>1. u \in Table
        BY <1>3 DEF Differs
      <3>. QED
        BY <2>4, <3>1, InsertDiffers, ColumnNames
    <2>6. PICK t : t = Refreshed(w, users)
      OBVIOUS
    <2>7. /\ t \in Table /\ \A q \in Node : Keeps(w, t, q)
          /\ \A c \in Column : t[c] \subseteq w[c]
          /\ t["provisional"] = w["provisional"]
          /\ \A c \in Column : p \in w[c] => p \in t[c] \/ p \notin t["authentication_sent"]
      BY <2>5, <2>6, RefreshedType, RefreshedKeeps DEF Differs
    <2>8. Answers(n, p, t, "accept", {"accepted"})
      BY <1>3, <2>5, <2>7, ColumnNames DEF Answers, Differs
    <2>9. \A q \in Node \ {p} : Keeps(table[n], t, q)
      <3>1. ASSUME NEW q \in Node \ {p} PROVE Keeps(table[n], t, q)
        <4>1. \A c \in Column : q \in w[c] <=> q \in table[n][c]
          <5>1. \A c \in Column : q \in u[c] <=> q \in table[n][c]
            BY <1>1, <1>2, ColumnNames DEF Remove, Table
          <5>2. \A c \in Column : q \in w[c] <=> q \in u[c]
            BY <1>3, <2>4, ColumnNames DEF Insert, Table, Differs
          <5>. QED
            BY <5>1, <5>2
        <4>. QED
          BY <2>7, <4>1 DEF Keeps
      <3>. QED
        BY <3>1
    <2>. QED
      BY <1>2, <2>1, <2>2, <2>3, <2>4, <2>6, <2>7, <2>8, <2>9, HandledPairs
  <1>. QED
    BY <1>4, <1>5

----------------------------------------------------------------------------

LEMMA InitPairs == ASSUME Init PROVE PInv
  <1>1. \A n \in Node, c \in Column : table[n][c] = {}
    BY DEF Init, NoPeers
  <1>2. \A n, p \in Node, kind \in Kind : ~On(n, p, kind)
    BY DEF Init, On
  <1>3. RunAndJoin
    BY NodeAssumption DEF Init, RunAndJoin
  <1>4. ASSUME NEW n \in Node, NEW p \in Node PROVE Pair(n, p)
    BY <1>1, <1>2, ColumnNames, KindNames
       DEF Init, Pair, Grounded, Mutual, Hello, Opening, Kind
  <1>. QED
    BY <1>3, <1>4 DEF PInv

LEMMA NextPairs == ASSUME IInv, PInv, [Next]_vars PROVE PInv'
  <1>1. CASE UNCHANGED vars
    BY <1>1 DEF vars, processes, replicas, network, bounds, PInv, RunAndJoin, Pair, Grounded,
                Mutual, Hello, Opening, On, Held, Closing, Fresh, Heard, Bootstrapping, IsTarget
  <1>2. CASE Next
    <2>1. stale \subseteq Node \X Node
      BY DEF IInv, TypeOK
    <2>2. ASSUME NEW n \in Node, Stop(n) PROVE PInv'
      <3>1. End(n) /\ UNCHANGED <<view, stored, losses>>
        BY <2>2 DEF Stop, replicas, bounds
      <3>. QED
        BY <3>1, EndPairs, EndRuns DEF PInv
    <2>3. ASSUME NEW n \in Node, NEW p \in Node,
                 ReceiveUnauthorized(n, p) \/ ReceiveAccepted(n, p)
          PROVE  PInv'
      <3>1. End(n) /\ UNCHANGED <<view, stored, losses>>
        BY <2>3 DEF ReceiveUnauthorized, ReceiveAccepted, replicas, bounds
      <3>. QED
        BY <3>1, EndPairs, EndRuns DEF PInv
    <2>4. ASSUME NEW pair \in Link, Connect(pair[1], pair[2]) \/ Disconnect(pair[1], pair[2])
          PROVE  PInv'
      <3>1. PICK n \in Node, p \in Node : n = pair[1] /\ p = pair[2] /\ n # p
        BY LinkAssumption
      <3>. QED
        BY <2>4, <3>1, ConnectPairs, DisconnectPairs
    <2>5. ASSUME NEW pair \in stale, Notice(pair[1], pair[2]) PROVE PInv'
      <3>1. pair[1] \in Node /\ pair[2] \in Node
        BY <2>1
      <3>. QED
        BY <2>5, <3>1, NoticePairs
    <2>. QED
      BY <1>2, <2>2, <2>3, <2>4, <2>5, StartPairs, LosePairs, AuthenticatePairs,
         AuthenticatedPairs, RejectionPairs, SyncPairs, MessagesPairs, BootstrapPairs, AcceptPairs
         DEF Next
  <1>. QED
    BY <1>1, <1>2

\* The inductive invariant on pairs of nodes.
THEOREM PairsHold == Spec => []PInv
  BY InitPairs, NextPairs, InvHolds, PTL DEF Spec

\* accepted_by_remote: a node that goes by it is held by the peer, whatever
\* answers of earlier connections and processes were on their way.
THEOREM AlwaysMutual == Spec => []AcceptanceIsMutual
  <1>1. ASSUME IInv, PInv PROVE AcceptanceIsMutual
    <2>1. ASSUME NEW n \in running, NEW p \in table[n]["accepted_by_remote"]
          PROVE  \/ <<n, p>> \in stale
                 \/ {n, p} \in connected /\ Held(n, p)
      <3>1. n \in Node /\ p \in Node
        BY <1>1, ColumnNames DEF IInv, TypeOK
      <3>. QED
        BY <1>1, <2>1, <3>1 DEF PInv, Pair, Mutual
    <2>. QED
      BY <2>1 DEF AcceptanceIsMutual, Held
  <1>. QED
    BY <1>1, InvHolds, PairsHold, PTL

\* A connection on which nothing is on its way any more is one on which both
\* nodes synchronize: no order of the authentications, of their answers and of
\* a bootstrap loses a Hello.
THEOREM AlwaysOpens == Spec => []SessionOpens
  <1>1. ASSUME IInv, PInv PROVE SessionOpens
    <2>1. SUFFICES ASSUME NEW n \in Node, NEW p \in Node, Settled(n, p), Fresh(n, p)
                   PROVE  Synchronized(n, p)
      BY DEF SessionOpens
    <2>2. /\ losses = 0 /\ {n, p} \in connected /\ {p, n} \in connected
          /\ Fresh(p, n) /\ ~Closing(n, p) /\ ~Closing(p, n)
      <3>1. {p, n} = {n, p}
        OBVIOUS
      <3>. QED
        BY <2>1, <3>1 DEF Settled, Fresh, Closing
    <2>3. \A kind \in Kind : ~On(n, p, kind) /\ ~On(p, n, kind)
      <3>1. \A kind : /\ {Msg(n, p, kind).from, Msg(n, p, kind).to} = {n, p}
                      /\ {Msg(p, n, kind).from, Msg(p, n, kind).to} = {n, p}
        BY DEF Msg
      <3>. QED
        BY <2>1, <3>1 DEF Settled, Between, On
    <2>4. Heard(n, p) /\ Heard(p, n)
      BY <1>1, <2>1, <2>2 DEF PInv, Pair, Opening
    <2>5. /\ \/ n \in table[p]["authenticated"] /\ p \in table[n]["accepted_by_remote"]
             \/ IsTarget(n, p) /\ ~IsTarget(p, n)
          /\ \/ p \in table[n]["authenticated"] /\ n \in table[p]["accepted_by_remote"]
             \/ IsTarget(p, n) /\ ~IsTarget(n, p)
      BY <2>3, <2>4, KindNames DEF Heard, Bootstrapping
    <2>6. \A q \in Node : q \in joining => table[q]["authenticated"] = {}
      <3>1. \A q \in joining : view[q] = Nobody /\ q \in running
        BY <1>1 DEF IInv, TypeOK, PInv, RunAndJoin
      <3>. QED
        BY <1>1, <3>1 DEF IInv, AuthorizedNow, Nobody
    <2>7. n \notin joining /\ p \notin joining
      BY <2>5, <2>6 DEF IsTarget
    <2>8. p \in table[n]["sync_started"] /\ n \in table[p]["sync_started"]
      BY <1>1, <2>5, <2>7 DEF IsTarget, PInv, Pair, Hello
    <2>. QED
      BY <2>7, <2>8 DEF Synchronized
  <1>. QED
    BY <1>1, InvHolds, PairsHold, PTL
=============================================================================
