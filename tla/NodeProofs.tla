----------------------------- MODULE NodeProofs -----------------------------
(***************************************************************************)
(* A node, for every set of events, in every order of their ids: the store *)
(* is a history at every instant, an open node knows exactly what is       *)
(* stored, and the loop of ingest inserts all that can be inserted.        *)
(*                                                                         *)
(* An import is nothing but calls of open and ingest: the specification    *)
(* with imports implements CoreNode, so that all this holds while one      *)
(* runs.  From it follows that a store can be exported at every moment.    *)
(* An import that reports success has stored all of its archive, and once  *)
(* it has opened the store it can fail for no other reason than the        *)
(* storage: the recursive function that orders the events puts parents     *)
(* first, so that every batch rests on itself and on what is stored and    *)
(* passes the checks of ingest, and in the end the genesis event that the  *)
(* chat profile has accepted in the archive is stored.                     *)
(***************************************************************************)
EXTENDS Archive, Recursion, SequenceTheorems

----------------------------------------------------------------------------
\* The order of the batches

\* The events of rest none of whose parents waits, and the least of them.
ReadyIn(rest) == {e \in rest : Parents[e] \cap rest = {}}

First(rest) == CHOOSE e \in ReadyIn(rest) : \A f \in ReadyIn(rest) : e <= f

\* There is one, since no set of events is cyclic.
LEMMA FirstIsReady ==
    ASSUME NEW rest \in SUBSET Event, rest # {}
    PROVE  First(rest) \in rest /\ Parents[First(rest)] \cap rest = {}
<1>1. ReadyIn(rest) \in SUBSET Nat /\ ReadyIn(rest) # {}
  BY EventAssumption, AcyclicAssumption DEF ReadyIn
<1>2. \E e \in ReadyIn(rest) : \A f \in ReadyIn(rest) : e <= f
  BY <1>1, LeastNumber
<1>3. First(rest) \in ReadyIn(rest)
  BY <1>2 DEF First
<1> QED
  BY <1>3 DEF ReadyIn

\* order is the function that Topological defines by recursion.
Orders(order, S) ==
    order = [rest \in SUBSET S |->
                IF rest = {} THEN <<>> ELSE <<First(rest)>> \o order[rest \ {First(rest)}]]

\* There is such a function: its argument gets smaller.
LEMMA OrderExists ==
    ASSUME NEW S \in SUBSET Event, IsFiniteSet(S)
    PROVE  \E order \in [SUBSET S -> Seq(Event)] : Orders(order, S)
<1> DEFINE T == Seq(Event)
           pick == [rest \in SUBSET S |-> First(rest)]
           op == [x \in S \X T |-> <<x[1]>> \o x[2]]
<1>1. \A rest \in SUBSET S : rest # {} => pick[rest] \in rest
  BY FirstIsReady
<1>2. ASSUME NEW e \in S, NEW s \in T
      PROVE  op[<<e, s>>] = <<e>> \o s /\ op[<<e, s>>] \in T
  <2>1. op[<<e, s>>] = <<e>> \o s
    OBVIOUS
  <2>2. <<e>> \in Seq(Event) /\ s \in Seq(Event)
    OBVIOUS
  <2>3. <<e>> \o s \in Seq(Event)
    BY <2>2, ConcatProperties
  <2> QED
    BY <2>1, <2>3
<1>3. <<>> \in T
  OBVIOUS
<1>4. PICK f \in [SUBSET S -> T] : IsFold(f, S, <<>>, pick, op)
  <2> HIDE DEF T, pick, op
  <2> QED
    BY <1>1, <1>2, <1>3, FoldExists
<1>5. ASSUME NEW rest \in SUBSET S
      PROVE  f[rest] = IF rest = {} THEN <<>> ELSE <<First(rest)>> \o f[rest \ {First(rest)}]
  <2>1. f[rest] = IF rest = {} THEN <<>> ELSE op[<<pick[rest], f[rest \ {pick[rest]}]>>]
    <3> HIDE DEF T, pick, op
    <3> QED
      BY <1>4 DEF IsFold
  <2>2. CASE rest = {}
    BY <2>1, <2>2
  <2>3. CASE rest # {}
    <3>1. PICK e : e = First(rest)
      OBVIOUS
    <3>2. pick[rest] = e /\ e \in S /\ f[rest \ {e}] \in T
      BY <1>1, <1>4, <2>3, <3>1
    <3>3. op[<<e, f[rest \ {e}]>>] = <<e>> \o f[rest \ {e}]
      BY <1>2, <3>2
    <3> HIDE DEF T, pick, op
    <3> QED
      BY <2>1, <2>3, <3>1, <3>2, <3>3
  <2> QED
    BY <2>2, <2>3
<1> QED
  BY <1>4, <1>5 DEF Orders

\* s runs through the whole of rest, every event after those of its parents
\* that are in rest.
InOrder(s, rest) ==
    /\ s \in Seq(Event)
    /\ \A n \in 1..Len(s) : s[n] \in rest
    /\ \A e \in rest : \E n \in 1..Len(s) : s[n] = e
    /\ \A n \in 1..Len(s) : \A p \in Parents[s[n]] \cap rest :
          \E m \in 1..Len(s) : m < n /\ s[m] = p

\* The next event goes before the rest.
LEMMA OneMore ==
    ASSUME NEW rest \in SUBSET Event, rest # {}, NEW s, InOrder(s, rest \ {First(rest)})
    PROVE  InOrder(<<First(rest)>> \o s, rest)
<1>1. PICK f, t : f = First(rest) /\ t = <<f>> \o s
  OBVIOUS
<1>2. f \in rest /\ Parents[f] \cap rest = {} /\ f \in Event
  BY <1>1, FirstIsReady
<1>3. s \in Seq(Event) /\ Len(s) \in Nat
  BY LenProperties DEF InOrder
<1>4. <<f>> \in Seq(Event) /\ Len(<<f>>) = 1 /\ <<f>>[1] = f
  BY <1>2
<1>5. /\ t \in Seq(Event) /\ Len(t) = 1 + Len(s)
      /\ \A i \in 1..(1 + Len(s)) : t[i] = IF i <= 1 THEN <<f>>[i] ELSE s[i - 1]
  BY <1>1, <1>3, <1>4, ConcatProperties
<1>6. t[1] = f /\ 1 \in 1..Len(t)
  BY <1>3, <1>4, <1>5
<1>7. \A n \in 1..Len(s) : n + 1 \in 1..Len(t) /\ t[n + 1] = s[n]
  BY <1>3, <1>5
<1>8. \A n \in 1..Len(t) : n # 1 => n - 1 \in 1..Len(s) /\ t[n] = s[n - 1]
  BY <1>3, <1>5
<1>9. \A n \in 1..Len(t) : t[n] \in rest
  BY <1>1, <1>2, <1>6, <1>8 DEF InOrder
<1>10. \A e \in rest : \E n \in 1..Len(t) : t[n] = e
  <2>1. SUFFICES ASSUME NEW e \in rest, e # f
                 PROVE  \E n \in 1..Len(t) : t[n] = e
    BY <1>6
  <2>2. PICK n \in 1..Len(s) : s[n] = e
    BY <1>1, <2>1 DEF InOrder
  <2> QED
    BY <1>7, <2>2
<1>11. ASSUME NEW n \in 1..Len(t), NEW p \in Parents[t[n]] \cap rest
       PROVE  \E m \in 1..Len(t) : m < n /\ t[m] = p
  <2>1. n # 1
    BY <1>2, <1>6, <1>11
  <2>2. CASE p = f
    BY <1>6, <2>1, <2>2
  <2>3. CASE p # f
    <3>1. PICK m \in 1..Len(s) : m < n - 1 /\ s[m] = p
      BY <1>1, <1>8, <2>1, <2>3 DEF InOrder
    <3>2. m + 1 < n
      BY <1>3, <1>5, <3>1
    <3> QED
      BY <1>7, <3>1, <3>2
  <2> QED
    BY <2>2, <2>3
<1>12. InOrder(t, rest)
  BY <1>5, <1>9, <1>10, <1>11 DEF InOrder
<1> QED
  BY <1>1, <1>12

\* What import-community makes of the new events is in order.
LEMMA TopologicalIsInOrder ==
    ASSUME NEW S \in SUBSET Event, IsFiniteSet(S)
    PROVE  InOrder(Topological(S), S)
<1> DEFINE order == CHOOSE o : o = [rest \in SUBSET S |->
               IF rest = {} THEN <<>> ELSE <<First(rest)>> \o o[rest \ {First(rest)}]]
<1>1. order = [rest \in SUBSET S |->
               IF rest = {} THEN <<>> ELSE <<First(rest)>> \o order[rest \ {First(rest)}]]
  BY OrderExists DEF Orders
<1>2. Topological(S) = order[S]
  BY DEF Topological, First, ReadyIn
<1> HIDE DEF order
<1> DEFINE Bad == {rest \in SUBSET S : ~InOrder(order[rest], rest)}
<1>3. ASSUME Bad # {} PROVE FALSE
  <2>1. PICK rest \in Bad : \A U \in Bad : U \subseteq rest => U = rest
    <3>1. Bad \in SUBSET SUBSET S
      OBVIOUS
    <3> HIDE DEF Bad
    <3> QED
      BY <1>3, <3>1, LeastSubset
  <2>2. CASE rest = {}
    <3>1. order[rest] = <<>>
      BY <1>1, <2>2
    <3>2. InOrder(<<>>, {})
      BY DEF InOrder
    <3> QED
      BY <2>1, <2>2, <3>1, <3>2
  <2>3. CASE rest # {}
    <3>1. rest \in SUBSET Event /\ First(rest) \in rest
      BY <2>3, FirstIsReady
    <3>2. InOrder(order[rest \ {First(rest)}], rest \ {First(rest)})
      BY <2>1, <3>1
    <3>3. order[rest] = <<First(rest)>> \o order[rest \ {First(rest)}]
      BY <1>1, <2>3
    <3>4. InOrder(order[rest], rest)
      BY <2>3, <3>1, <3>2, <3>3, OneMore
    <3> QED
      BY <2>1, <3>4
  <2> QED
    BY <2>2, <2>3
<1> QED
  BY <1>2, <1>3

\* A batch is within the limit of ingest, leaves no parent behind and, unless
\* nothing is left, has an event that waits for no other.
LEMMA ChunkFacts ==
    ASSUME plan \in SUBSET Event
    PROVE  /\ Chunk \subseteq plan
           /\ Cardinality(Chunk) <= MaxPendingEvents
           /\ \A e \in Chunk : Parents[e] \cap plan \subseteq Chunk
           /\ plan # {} => \E e \in Chunk : Parents[e] \cap plan = {}
<1>1. PICK order : order = Topological(plan)
  OBVIOUS
<1>2. InOrder(order, plan)
  BY <1>1, TopologicalIsInOrder, FiniteAssumption, FS_Subset
<1>3. Len(order) \in Nat /\ MaxPendingEvents \in Nat /\ 1 <= MaxPendingEvents
  BY <1>2, LenProperties, MaxPendingAssumption DEF InOrder
<1>4. Chunk = {e \in plan : \E n \in 1..MaxPendingEvents : n <= Len(order) /\ order[n] = e}
  BY <1>1 DEF Chunk
<1>5. Cardinality(Chunk) <= MaxPendingEvents
  <2> DEFINE k == IF Len(order) <= MaxPendingEvents THEN Len(order) ELSE MaxPendingEvents
             f == [n \in 1..k |-> order[n]]
  <2>1. k \in Nat /\ k <= MaxPendingEvents /\ 1..k \subseteq 1..Len(order)
        /\ 1..k \subseteq 1..MaxPendingEvents
    BY <1>3
  <2>2. \A n \in 1..MaxPendingEvents : n <= Len(order) => n \in 1..k
    BY <1>3
  <2> HIDE DEF k
  <2>3. \A n \in 1..k : f[n] \in Chunk
    BY <1>2, <1>3, <1>4, <2>1 DEF InOrder
  <2>4. \A e \in Chunk : \E n \in 1..k : f[n] = e
    BY <1>4, <2>2
  <2>5. f \in Surjection(1..k, Chunk)
    BY <2>3, <2>4 DEF Surjection
  <2>6. ExistsSurjection(1..k, Chunk)
    BY <2>5 DEF ExistsSurjection
  <2>7. Cardinality(Chunk) <= k
    BY <2>1, <2>6, FS_SurjCardinalityBound
  <2>8. Cardinality(Chunk) \in Nat
    BY <1>4, FiniteAssumption, FS_Subset, FS_CardinalityType
  <2> QED
    BY <1>3, <2>1, <2>7, <2>8
<1>6. ASSUME NEW e \in Chunk, NEW p \in Parents[e] \cap plan
      PROVE  p \in Chunk
  <2>1. PICK n \in 1..MaxPendingEvents : n <= Len(order) /\ order[n] = e
    BY <1>4
  <2>2. n \in 1..Len(order)
    BY <1>3, <2>1
  <2>3. PICK m \in 1..Len(order) : m < n /\ order[m] = p
    BY <1>2, <1>6, <2>1, <2>2 DEF InOrder
  <2>4. m \in 1..MaxPendingEvents /\ m <= Len(order)
    BY <1>3, <2>1, <2>3
  <2> QED
    BY <1>4, <2>3, <2>4
<1>7. ASSUME plan # {} PROVE \E e \in Chunk : Parents[e] \cap plan = {}
  <2>1. 1 \in 1..Len(order)
    BY <1>2, <1>3, <1>7 DEF InOrder
  <2>2. order[1] \in plan
    BY <1>2, <2>1 DEF InOrder
  <2>3. ASSUME NEW p \in Parents[order[1]] \cap plan PROVE FALSE
    <3>1. PICK m \in 1..Len(order) : m < 1
      BY <1>2, <2>1, <2>3 DEF InOrder
    <3> QED
      BY <1>3, <3>1
  <2>4. order[1] \in Chunk
    BY <1>3, <1>4, <2>1, <2>2
  <2> QED
    BY <2>3, <2>4
<1> QED
  BY <1>4, <1>5, <1>6, <1>7

----------------------------------------------------------------------------
\* A node and its store

USE EventAssumption, ParentsAssumption, HomeAssumption,
    NoCommunityAssumption, MaxPendingAssumption

\* Between calls there is no batch; a closed node remembers nothing.
AtRest ==
    /\ result # "busy" => pending = {} /\ wave = {}
    /\ ~running => result = "none"

\* The store holds events of the node's community only.
OwnCommunity ==
    running /\ community # NoCommunity => \A e \in store : Home[e] = community

(***************************************************************************)
(* Inside ingest: the batch is of one community, the node's own once it    *)
(* has one; what has left the batch is known and nothing else became       *)
(* known; the parents of this round's events are known.                    *)
(***************************************************************************)
InLoop ==
    result = "busy" =>
        /\ \A e, f \in call.batch : Home[e] = Home[f]
        /\ community # NoCommunity => \A e \in call.batch : Home[e] = community
        /\ pending \subseteq call.batch
        /\ known = call.known \cup (call.batch \ pending)
        /\ \A e \in wave : Parents[e] \subseteq known

IInv ==
    /\ TypeOK
    /\ StoreIsHistory
    /\ KnownIsStored
    /\ IngestComplete
    /\ AtRest
    /\ OwnCommunity
    /\ InLoop

----------------------------------------------------------------------------

(***************************************************************************)
(* A loop that has stopped with nothing ready has inserted everything      *)
(* insertable: otherwise the insertable events left out would contain one  *)
(* none of whose parents is left out, and that one would be ready.         *)
(***************************************************************************)
LEMMA FixpointIsInsertable ==
    ASSUME NEW K \in SUBSET Event, NEW B \in SUBSET Event, NEW P \in SUBSET B,
           NEW N, N = K \cup (B \ P), ParentClosed(N), Ready(N, P) = {}
    PROVE  N = K \cup Insertable(K, B)
<1>1. N \subseteq K \cup Insertable(K, B)
  <2>1. N \ K \in SUBSET B
    OBVIOUS
  <2>2. \A e \in N \ K : Parents[e] \subseteq K \cup (N \ K)
    BY DEF ParentClosed
  <2>3. N \ K \subseteq Insertable(K, B)
    BY <2>1, <2>2 DEF Insertable
  <2> QED
    BY <2>3
<1>2. ASSUME NEW S \in SUBSET B, \A e \in S : Parents[e] \subseteq K \cup S
      PROVE  S \subseteq N
  <2> SUFFICES ASSUME S \ N # {}
               PROVE  FALSE
    OBVIOUS
  <2>1. PICK e \in S \ N : Parents[e] \cap (S \ N) = {}
    <3>1. S \ N \in SUBSET Event
      OBVIOUS
    <3> QED
      BY <3>1, AcyclicAssumption
  <2>2. Parents[e] \subseteq N
    BY <2>1, <1>2
  <2>3. e \in P
    BY <2>1
  <2> QED
    BY <2>2, <2>3 DEF Ready
<1>3. Insertable(K, B) \subseteq N
  BY <1>2 DEF Insertable
<1> QED
  BY <1>1, <1>3

LEMMA InitIInv == Init => IInv
<1> SUFFICES ASSUME Init
             PROVE  IInv
  OBVIOUS
<1>1. TypeOK
  BY DEF Init, TypeOK, NoCall, Results
<1>2. StoreIsHistory /\ KnownIsStored /\ IngestComplete
  BY DEF Init, StoreIsHistory, ParentClosed, KnownIsStored, IngestComplete
<1>3. AtRest /\ OwnCommunity /\ InLoop
  BY DEF Init, AtRest, OwnCommunity, InLoop
<1> QED
  BY <1>1, <1>2, <1>3 DEF IInv

(***************************************************************************)
(* The heart of the argument: inserting an event of the current round,     *)
(* whose parents are known, keeps the store a history of one community.    *)
(***************************************************************************)
LEMMA InsertIInv ==
    ASSUME IInv, result = "busy", NEW e \in wave, Insert(e)
    PROVE  IInv'
<1> USE DEF IInv
<1>1. /\ e \in Event /\ e \in pending /\ e \in call.batch
      /\ running
      /\ known = store
      /\ Parents[e] \subseteq store
  BY DEF TypeOK, AtRest, KnownIsStored, InLoop
<1>2. TypeOK'
  BY <1>1 DEF TypeOK, Insert, Results
<1>3. CASE community = NoCommunity
  <2>1. store = {} /\ IsGenesis(e) /\ Home[e] = e /\ e # NoCommunity
    BY <1>1, <1>3 DEF KnownIsStored, IsGenesis
  <2>2. store' = {e} /\ known' = {e} /\ community' = e
    BY <2>1, <1>1 DEF Insert
  <2>3. StoreIsHistory' /\ KnownIsStored' /\ OwnCommunity'
    BY <2>1, <2>2 DEF StoreIsHistory, KnownIsStored, OwnCommunity, ParentClosed, IsGenesis
  <2>4. \A f \in call.batch : Home[f] = e
    BY <2>1, <1>1 DEF InLoop
  <2>5. InLoop'
    BY <1>1, <2>2, <2>4 DEF InLoop, Insert, TypeOK
  <2> QED
    BY <1>1, <1>2, <2>3, <2>5 DEF IngestComplete, AtRest, Insert
<1>4. CASE community # NoCommunity
  <2>1. Home[e] = community /\ \A f \in store : Home[f] = community
    BY <1>1, <1>4 DEF InLoop, OwnCommunity
  <2>2. community' = community
    BY <1>1, <2>1 DEF Insert, IsGenesis
  <2>3. PICK f \in store : Home[f] \in store
    BY <1>1, <1>4 DEF KnownIsStored, StoreIsHistory
  <2>4. community \in store
    BY <2>1, <2>3
  <2>5. StoreIsHistory'
    BY <1>1, <2>1, <2>4 DEF StoreIsHistory, ParentClosed, Insert
  <2>6. KnownIsStored' /\ OwnCommunity'
    BY <1>1, <1>4, <2>1, <2>2 DEF KnownIsStored, OwnCommunity, Insert
  <2>7. InLoop'
    BY <1>1, <1>4, <2>2 DEF InLoop, Insert, TypeOK
  <2> QED
    BY <1>1, <1>2, <2>5, <2>6, <2>7 DEF IngestComplete, AtRest, Insert
<1> QED
  BY <1>3, <1>4

\* Opening a store that is a history finds all of it.
LEMMA OpenIInv ==
    ASSUME IInv, NEW c \in Event, Open(c)
    PROVE  IInv'
<1> USE DEF IInv
<1>1. PICK f \in store : Home[f] = c
  BY DEF Open, StoredEvents, Belongs
<1>2. StoredEvents(c) = store
  BY <1>1 DEF StoreIsHistory, StoredEvents, Belongs
<1>3. store' = store /\ known' = store /\ community' = c /\ running' = TRUE
      /\ pending' = {} /\ wave' = {} /\ result' = "none" /\ call' = call
  BY <1>2 DEF Open, AtRest
<1>4. TypeOK' /\ StoreIsHistory'
  BY <1>3 DEF TypeOK, StoreIsHistory, Results
<1>5. KnownIsStored' /\ OwnCommunity'
  BY <1>1, <1>3 DEF KnownIsStored, OwnCommunity, StoreIsHistory
<1> QED
  BY <1>3, <1>4, <1>5 DEF IngestComplete, AtRest, InLoop

\* A batch that passes the checks belongs to one community.
LEMMA BeginIngestIInv ==
    ASSUME IInv, NEW batch \in SUBSET Event, BeginIngest(batch)
    PROVE  IInv'
<1> USE DEF IInv
<1>1. /\ IngestCommunity(batch) # NoCommunity
      /\ \A e \in batch : Home[e] = IngestCommunity(batch)
  BY DEF BeginIngest, Preflight, Belongs
<1>2. community # NoCommunity => IngestCommunity(batch) = community
  BY DEF IngestCommunity
<1>3. TypeOK'
  BY DEF BeginIngest, TypeOK, Ready, Results
<1>4. InLoop'
  BY <1>1, <1>2 DEF BeginIngest, InLoop, Ready, TypeOK
<1>5. StoreIsHistory' /\ KnownIsStored' /\ OwnCommunity'
  BY DEF BeginIngest, StoreIsHistory, KnownIsStored, OwnCommunity
<1> QED
  BY <1>3, <1>4, <1>5 DEF BeginIngest, IngestComplete, AtRest

LEMMA FinishIngestIInv ==
    ASSUME IInv, FinishIngest
    PROVE  IInv'
<1> USE DEF IInv
<1>1. /\ result = "busy" /\ running /\ known = store /\ call' = call /\ known' = known
      /\ call.known \in SUBSET Event /\ call.batch \in SUBSET Event
      /\ pending \in SUBSET call.batch
      /\ known = call.known \cup (call.batch \ pending)
      /\ Ready(known, pending) = {}
  BY DEF FinishIngest, AtRest, KnownIsStored, InLoop, TypeOK
<1>2. ParentClosed(known)
  BY <1>1 DEF StoreIsHistory
<1>3. known = call.known \cup Insertable(call.known, call.batch)
  BY <1>1, <1>2, FixpointIsInsertable
<1>4. IngestComplete'
  BY <1>1, <1>3 DEF IngestComplete
<1> QED
  BY <1>1, <1>4 DEF FinishIngest, TypeOK, StoreIsHistory, KnownIsStored, AtRest,
                    OwnCommunity, InLoop, Results

LEMMA NextIInv == IInv /\ [Next]_vars => IInv'
<1> SUFFICES ASSUME IInv, [Next]_vars
             PROVE  IInv'
  OBVIOUS
<1> USE DEF IInv
<1>1. CASE OpenEmpty
  BY <1>1 DEF OpenEmpty, TypeOK, StoreIsHistory, KnownIsStored, IngestComplete, AtRest,
              OwnCommunity, InLoop
<1>2. ASSUME NEW c \in Event, Open(c)
      PROVE  IInv'
  BY <1>2, OpenIInv
<1>3. ASSUME NEW batch \in SUBSET Event, BeginIngest(batch)
      PROVE  IInv'
  BY <1>3, BeginIngestIInv
<1>4. ASSUME NEW batch \in SUBSET Event, RejectBatch(batch)
      PROVE  IInv'
  <2>1. Preflight(batch) \in {"PendingLimitExceeded", "UnknownCommunity", "WrongCommunity"}
    BY <1>4 DEF RejectBatch, Preflight
  <2> QED
    BY <1>4, <2>1 DEF RejectBatch, TypeOK, StoreIsHistory, KnownIsStored, IngestComplete,
                      AtRest, OwnCommunity, InLoop, Results
<1>5. CASE InsertNext
  BY <1>5, InsertIInv DEF InsertNext
<1>6. CASE InsertFails
  BY <1>6 DEF InsertFails, TypeOK, StoreIsHistory, KnownIsStored, IngestComplete, AtRest,
              OwnCommunity, InLoop, Results
<1>7. CASE NextWave
  BY <1>7 DEF NextWave, TypeOK, StoreIsHistory, KnownIsStored, IngestComplete, AtRest,
              OwnCommunity, InLoop, Ready
<1>8. CASE FinishIngest
  BY <1>8, FinishIngestIInv
<1>9. CASE Crash
  BY <1>9 DEF Crash, TypeOK, StoreIsHistory, KnownIsStored, IngestComplete, AtRest,
              OwnCommunity, InLoop, Results, NoCall
<1>10. CASE UNCHANGED vars
  BY <1>10 DEF vars, TypeOK, StoreIsHistory, KnownIsStored, IngestComplete, AtRest,
               OwnCommunity, InLoop
<1> QED
  BY <1>1, <1>2, <1>3, <1>4, <1>5, <1>6, <1>7, <1>8, <1>9, <1>10 DEF Next

LEMMA SpecIInv == Spec => []IInv
BY InitIInv, NextIInv, PTL DEF Spec

----------------------------------------------------------------------------

\* The variables of a CoreNode keep their types (crates/node-core CoreNode).
THEOREM TypeCorrect == Spec => []TypeOK
BY SpecIInv, PTL DEF IInv

(***************************************************************************)
(* Whatever batches arrive, and wherever the process crashes or SQLite     *)
(* fails inside CoreNode::ingest, the rows on disk form the history of one *)
(* community, closed under parents and rooted in its genesis.              *)
(***************************************************************************)
THEOREM StoreAlwaysHistory == Spec => []StoreIsHistory
BY SpecIInv, PTL DEF IInv

\* An open CoreNode knows exactly the stored events, also after crash and open.
THEOREM KnownAlwaysStored == Spec => []KnownIsStored
BY SpecIInv, PTL DEF IInv

\* An ingest that returns Ok has inserted the largest insertable part of its batch.
THEOREM IngestAlwaysComplete == Spec => []IngestComplete
BY SpecIInv, PTL DEF IInv

----------------------------------------------------------------------------
USE EventAssumption, ParentsAssumption, HomeAssumption, NoCommunityAssumption,
    MaxPendingAssumption, MaxArchiveAssumption

\* The ids that an import has not handed to ingest are those of events.
PlanIsEvents == plan \subseteq Event

LEMMA ArchiveStep ==
    ASSUME PlanIsEvents, [ArchiveNext]_allVars
    PROVE  [Next]_vars /\ PlanIsEvents'
<1>1. ASSUME NEW S \in SUBSET Event, NEW c \in Event, BeginImport(S, c)
      PROVE  Next /\ PlanIsEvents'
  <2>1. OpenEmpty \/ Open(c)
    <3>1. CASE store = {}
      BY <1>1, <3>1 DEF BeginImport, OpenEmpty, StoredEvents
    <3>2. CASE store # {}
      BY <1>1, <3>2 DEF BeginImport, Foreign, Open
    <3> QED
      BY <3>1, <3>2
  <2>2. plan' \subseteq S
    BY <1>1 DEF BeginImport
  <2> QED
    BY <2>1, <2>2 DEF Next, PlanIsEvents
<1>2. CASE ImportBatch
  <2>1. Chunk \in SUBSET Event
    BY DEF Chunk, PlanIsEvents
  <2>2. BeginIngest(Chunk) \/ RejectBatch(Chunk)
    BY <1>2 DEF ImportBatch
  <2>3. plan' = plan \ Chunk
    BY <1>2 DEF ImportBatch
  <2> QED
    BY <2>1, <2>2, <2>3 DEF Next, PlanIsEvents
<1>3. CASE ImportReturns
  BY <1>3 DEF ImportReturns, vars, PlanIsEvents
<1>4. CASE Stop
  BY <1>4 DEF Stop, Next, PlanIsEvents
<1>5. CASE (OpenEmpty \/ \E c \in Event : Open(c)) /\ UNCHANGED importVars
  BY <1>5 DEF Next, importVars, PlanIsEvents
<1>6. CASE /\ \E batch \in SUBSET Event : BeginIngest(batch) \/ RejectBatch(batch)
           /\ UNCHANGED importVars
  BY <1>6 DEF Next, importVars, PlanIsEvents
<1>7. CASE (Loop \/ InsertFails) /\ UNCHANGED importVars
  BY <1>7 DEF Loop, Next, importVars, PlanIsEvents
<1>8. CASE UNCHANGED allVars
  BY <1>8 DEF allVars, vars, PlanIsEvents
<1>9. ASSUME NEW S \in SUBSET Event, NEW c \in Event, RefuseImport(S, c)
      PROVE  UNCHANGED vars /\ PlanIsEvents'
  BY <1>9 DEF RefuseImport, vars, PlanIsEvents
<1> QED
  BY <1>1, <1>2, <1>3, <1>4, <1>5, <1>6, <1>7, <1>8, <1>9 DEF ArchiveNext

(***************************************************************************)
(* import-community changes a node only as open and ingest do, so every    *)
(* theorem about CoreNode holds of a node that imports archives.           *)
(***************************************************************************)
THEOREM ImportIsIngest == ArchiveSpec => Spec
<1>1. ArchiveInit => Init /\ PlanIsEvents
  BY DEF ArchiveInit, PlanIsEvents
<1>2. PlanIsEvents /\ [ArchiveNext]_allVars => [Next]_vars /\ PlanIsEvents'
  BY ArchiveStep
<1> QED
  BY <1>1, <1>2, PTL DEF ArchiveSpec, Spec

----------------------------------------------------------------------------

(***************************************************************************)
(* An open store that is small enough is an archive: export-community does *)
(* not fail on it, whatever crashes and stopped imports have left.         *)
(***************************************************************************)
THEOREM AlwaysExportable == ArchiveSpec => []HistoryIsExportable
<1>1. IInv => HistoryIsExportable
  <2> SUFFICES ASSUME IInv, running, store # {}, Cardinality(store) <= MaxArchiveEvents
               PROVE  validate_wire(store, community)
    BY DEF HistoryIsExportable
  <2>1. store \in SUBSET Event /\ community \in Event
        /\ \A e \in store : Home[e] = community
    BY DEF IInv, TypeOK, KnownIsStored, OwnCommunity
  <2>2. \A e \in store : Belongs(e, community)
    BY <2>1 DEF Belongs
  <2>3. ParentClosed(store) /\ community \in store
    <3>1. PICK e \in store : TRUE
      OBVIOUS
    <3>2. Home[e] \in store /\ Home[e] = community /\ ParentClosed(store)
      BY <2>1, <3>1 DEF IInv, StoreIsHistory
    <3> QED
      BY <3>2
  <2>4. ASSUME NEW e \in store, IsGenesis(e)
        PROVE  e = community
    <3>1. e \in Event /\ Parents[e] = {}
      BY <2>1, <2>4 DEF IsGenesis
    <3>2. Home[e] = e
      BY <3>1, HomeAssumption
    <3> QED
      BY <2>1, <3>2
  <2>5. IsGenesis(community)
    <3>1. PICK e \in store : Parents[e] \cap store = {}
      BY <2>1, AcyclicAssumption
    <3>2. Parents[e] = {}
      BY <2>3, <3>1 DEF ParentClosed
    <3> QED
      BY <2>4, <3>1, <3>2 DEF IsGenesis
  <2>6. {e \in store : IsGenesis(e)} = {community}
    BY <2>3, <2>4, <2>5
  <2> QED
    BY <2>2, <2>3, <2>6 DEF validate_wire
<1> QED
  BY <1>1, ImportIsIngest, SpecIInv, PTL

----------------------------------------------------------------------------

(***************************************************************************)
(* While an import runs, what it has handed to ingest is stored, except    *)
(* for the last batch, of which a part may be waiting, unless it failed.   *)
(***************************************************************************)
Handed ==
    /\ importing => running
    /\ outcome = "busy" =>
          /\ importing
          /\ result \in {"busy", "ok"} => archive \ plan \subseteq store \cup call.batch
          /\ result = "none" => archive \ plan \subseteq store

LEMMA HandedStep ==
    ASSUME IInv, PlanIsEvents, Handed /\ SuccessIsWhole, [ArchiveNext]_allVars
    PROVE  (Handed /\ SuccessIsWhole)'
<1>1. ASSUME NEW S \in SUBSET Event, NEW c \in Event, BeginImport(S, c)
      PROVE  (Handed /\ SuccessIsWhole)'
  <2>1. StoredEvents(c) \subseteq store
    BY DEF StoredEvents
  <2>2. outcome' = "busy" => archive' \ plan' \subseteq store'
    BY <1>1, <2>1 DEF BeginImport
  <2>3. running' /\ importing' /\ outcome' # "ok"
    BY <1>1 DEF BeginImport
  <2> QED
    BY <2>2, <2>3 DEF Handed, SuccessIsWhole
<1>2. CASE ImportBatch
  <2>1. archive \ plan \subseteq store
    BY <1>2 DEF ImportBatch, BatchDone, Handed, IInv, KnownIsStored
  <2>2. /\ store' = store /\ running' = running /\ importing' = importing
        /\ archive' = archive /\ outcome' = "busy" /\ plan' = plan \ Chunk
    BY <1>2 DEF ImportBatch, BeginIngest, RejectBatch
  <2>3. CASE BeginIngest(Chunk)
    BY <1>2, <2>1, <2>2, <2>3 DEF ImportBatch, BeginIngest, Handed, SuccessIsWhole
  <2>4. CASE RejectBatch(Chunk)
    <3>1. result' \in {"PendingLimitExceeded", "UnknownCommunity", "WrongCommunity"}
      BY <2>4 DEF RejectBatch, Preflight
    <3> QED
      BY <1>2, <2>2, <3>1 DEF ImportBatch, Handed, SuccessIsWhole
  <2> QED
    BY <1>2, <2>3, <2>4 DEF ImportBatch
<1>3. CASE ImportReturns
  <2>1. /\ store' = store /\ running' = running /\ importing' = importing
        /\ archive' = archive /\ outcome' # "busy"
    BY <1>3 DEF ImportReturns, FinalProjection, IInv, TypeOK, Results
  <2>2. outcome' = "ok" => archive \subseteq store
    BY <1>3 DEF ImportReturns, FinalProjection, BatchDone, Handed, IInv, TypeOK, Results,
                KnownIsStored
  <2> QED
    BY <2>1, <2>2 DEF Handed, SuccessIsWhole
<1>4. CASE Stop
  BY <1>4 DEF Stop, Crash, Handed, SuccessIsWhole
<1>5. CASE (OpenEmpty \/ \E c \in Event : Open(c)) /\ UNCHANGED importVars
  BY <1>5 DEF OpenEmpty, Open, importVars, Handed, SuccessIsWhole
<1>6. CASE /\ ~importing
           /\ \E batch \in SUBSET Event : BeginIngest(batch) \/ RejectBatch(batch)
           /\ UNCHANGED importVars
  BY <1>6 DEF BeginIngest, RejectBatch, importVars, Handed, SuccessIsWhole
<1>7. CASE (Loop \/ InsertFails) /\ UNCHANGED importVars
  BY <1>7 DEF Loop, InsertNext, Insert, InsertFails, NextWave, FinishIngest, importVars,
              Handed, SuccessIsWhole
<1>8. CASE UNCHANGED allVars
  BY <1>8 DEF allVars, Handed, SuccessIsWhole
<1>9. ASSUME NEW S \in SUBSET Event, NEW c \in Event, RefuseImport(S, c)
      PROVE  (Handed /\ SuccessIsWhole)'
  BY <1>9 DEF RefuseImport, Handed, SuccessIsWhole
<1> QED
  BY <1>1, <1>2, <1>3, <1>4, <1>5, <1>6, <1>7, <1>8, <1>9 DEF ArchiveNext

(***************************************************************************)
(* An import that returns Ok has stored the whole archive, for every limit *)
(* of the batches and whatever imports were stopped before it.             *)
(***************************************************************************)
THEOREM SuccessAlwaysWhole == ArchiveSpec => []SuccessIsWhole
<1>1. ArchiveInit => PlanIsEvents /\ Handed /\ SuccessIsWhole
  BY DEF ArchiveInit, Init, PlanIsEvents, Handed, SuccessIsWhole
<1>2. PlanIsEvents /\ [ArchiveNext]_allVars => PlanIsEvents'
  BY ArchiveStep
<1>3. IInv /\ PlanIsEvents /\ Handed /\ SuccessIsWhole /\ [ArchiveNext]_allVars
      => (Handed /\ SuccessIsWhole)'
  BY HandedStep
<1> QED
  BY <1>1, <1>2, <1>3, ImportIsIngest, SpecIInv, PTL DEF ArchiveSpec

----------------------------------------------------------------------------

(***************************************************************************)
(* While an import runs its archive is a history of one community, which   *)
(* the chat profile accepts, and the node's own once it has one; no batch  *)
(* was refused, and the batch that is ingested, or was ingested last,      *)
(* rests on what was known and on itself.                                  *)
(***************************************************************************)
Importable ==
    /\ outcome \in {"none", "busy", "ok", "StorageError", "ProfileRejected",
                    "WrongDatabaseCommunity"}
    /\ importing => outcome \in {"busy", "ok", "StorageError"}
    /\ outcome = "ProfileRejected" => archive \cap Created = {}
    /\ outcome = "WrongDatabaseCommunity" =>
           \E e \in store, f \in archive : Home[e] # Home[f]
    /\ outcome = "busy" =>
          /\ plan \subseteq archive /\ archive \subseteq Event /\ ParentClosed(archive)
          /\ Genesis(archive) \in archive \cap Created
          /\ \A e, f \in archive : Home[e] = Home[f]
          /\ community # NoCommunity => \A e \in archive : Home[e] = community
          /\ result \in {"none", "busy", "ok", "StorageError"}
          /\ result \in {"busy", "ok"} =>
                /\ call.batch \subseteq archive
                /\ \A e \in call.batch : Parents[e] \subseteq call.known \cup call.batch

\* A batch that has been ingested is stored to the last event.
LEMMA BatchIsDone ==
    ASSUME IInv, Handed, Importable, outcome = "busy", result \in {"none", "ok"}
    PROVE  BatchDone /\ archive \ plan \subseteq store
<1>1. CASE result = "none"
  BY <1>1 DEF BatchDone, Handed
<1>2. CASE result = "ok"
  <2>1. call.batch \subseteq Insertable(call.known, call.batch)
    BY <1>2 DEF Importable, Insertable
  <2>2. call.batch \subseteq known
    BY <1>2, <2>1 DEF IInv, IngestComplete
  <2>3. known = store
    BY DEF IInv, KnownIsStored, Handed
  <2> QED
    BY <1>2, <2>2, <2>3 DEF BatchDone, Handed
<1> QED
  BY <1>1, <1>2

\* Every batch passes the checks of ingest.
LEMMA ChunkPasses ==
    ASSUME IInv, PlanIsEvents, Handed, Importable, outcome = "busy", BatchDone, plan # {}
    PROVE  /\ Preflight(Chunk) = "busy"
           /\ Chunk \subseteq archive
           /\ \A e \in Chunk : Parents[e] \subseteq known \cup Chunk
<1>1. /\ Chunk \subseteq plan /\ Chunk \subseteq archive /\ archive \subseteq Event
      /\ Cardinality(Chunk) <= MaxPendingEvents
      /\ \A e \in Chunk : Parents[e] \cap plan \subseteq Chunk
      /\ \E e \in Chunk : Parents[e] \cap plan = {}
  BY ChunkFacts DEF PlanIsEvents, Importable
<1>2. archive \ plan \subseteq store /\ known = store
  BY BatchIsDone DEF BatchDone, Handed, IInv, KnownIsStored
<1>3. \A e \in Chunk : Parents[e] \subseteq known \cup Chunk
  BY <1>1, <1>2 DEF Importable, ParentClosed
<1>4. PICK c : c = IngestCommunity(Chunk)
  OBVIOUS
<1>5. c # NoCommunity /\ \A e \in Chunk : Belongs(e, c)
  <2>1. CASE community # NoCommunity
    BY <1>1, <1>4, <2>1 DEF IngestCommunity, Importable, Belongs
  <2>2. CASE community = NoCommunity
    <3>1. store = {}
      BY <2>2 DEF IInv, KnownIsStored, Handed
    <3>2. PICK g \in Chunk : Parents[g] \cap plan = {}
      BY <1>1
    <3>3. IsGenesis(g)
      BY <1>1, <1>2, <3>1, <3>2 DEF Importable, ParentClosed, IsGenesis
    <3>4. c \in Chunk /\ IsGenesis(c)
      BY <1>4, <2>2, <3>2, <3>3 DEF IngestCommunity
    <3>5. c \in Event /\ Home[c] = c
      BY <1>1, <3>4 DEF IsGenesis
    <3> QED
      BY <1>1, <3>4, <3>5 DEF Importable, Belongs
  <2> QED
    BY <2>1, <2>2
<1>6. ~(Cardinality(Chunk) > MaxPendingEvents)
  <2>1. Cardinality(Chunk) \in Nat
    BY <1>1, FiniteAssumption, FS_Subset, FS_CardinalityType
  <2> QED
    BY <1>1, <2>1
<1> QED
  BY <1>1, <1>3, <1>4, <1>5, <1>6 DEF Preflight

\* The genesis event of a refused archive is what is wrong with it, or else the
\* database holds the history of another.
LEMMA RefusedForCause ==
    ASSUME IInv, Handed, Importable, NEW S \in SUBSET Event, NEW c \in Event, RefuseImport(S, c)
    PROVE  Importable'
<1>1. /\ archive' = S /\ store' = store /\ importing' = importing /\ ~importing
      /\ {e \in S : IsGenesis(e)} = {c} /\ \A e \in S : Home[e] = c
  BY DEF RefuseImport, validate_wire, Belongs, Handed
<1>2. CASE ~projects(S, c) /\ outcome' = "ProfileRejected"
  <2>1. S \cap Created = {}
    BY <1>1, <1>2, CreatedAssumption DEF projects
  <2> QED
    BY <1>1, <1>2, <2>1 DEF Importable
<1>3. CASE Foreign(c) /\ outcome' = "WrongDatabaseCommunity"
  <2>1. PICK e \in store : Home[e] # c
    BY <1>3 DEF Foreign, StoredEvents, Belongs
  <2>2. c \in S /\ Home[c] = c
    BY <1>1
  <2>3. \E x \in store', f \in archive' : Home[x] # Home[f]
    BY <1>1, <2>1, <2>2
  <2> QED
    BY <1>1, <1>3, <2>3 DEF Importable
<1> QED
  BY <1>2, <1>3 DEF RefuseImport

\* Every step of the node and of the import keeps it so.
LEMMA ImportableStep ==
    ASSUME IInv, IInv', PlanIsEvents, Handed, Importable, [ArchiveNext]_allVars
    PROVE  Importable'
<1>1. ASSUME NEW S \in SUBSET Event, NEW c \in Event, BeginImport(S, c)
      PROVE  Importable'
  <2>1. ParentClosed(S) /\ \A e \in S : Home[e] = c
    BY <1>1 DEF BeginImport, validate_wire, Belongs
  <2>2. ~Incomplete(S \ StoredEvents(c), StoredEvents(c))
    BY <2>1 DEF Incomplete, ParentClosed
  <2>3. /\ outcome' = "busy" /\ archive' = S /\ plan' \subseteq S
        /\ result' = result /\ result = "none"
        /\ community' # NoCommunity => community' = c
    BY <1>1, <2>2 DEF BeginImport, IInv, AtRest
  <2>4. Genesis(S) = c /\ c \in S \cap Created
    BY <1>1 DEF BeginImport, validate_wire, projects, Genesis
  <2>5. Genesis(archive') \in archive' \cap Created
    BY <2>3, <2>4
  <2> QED
    BY <2>1, <2>3, <2>5 DEF Importable
<1>2. CASE ImportBatch
  <2>1. outcome = "busy" /\ BatchDone /\ plan # {}
    BY <1>2 DEF ImportBatch
  <2>2. /\ Preflight(Chunk) = "busy" /\ Chunk \subseteq archive
        /\ \A e \in Chunk : Parents[e] \subseteq known \cup Chunk
    BY <2>1, ChunkPasses
  <2>3. BeginIngest(Chunk) /\ plan' = plan \ Chunk /\ archive' = archive /\ outcome' = outcome
    BY <1>2, <2>2 DEF ImportBatch
  <2>4. /\ result' = "busy" /\ community' = community
        /\ call'.known = known /\ call'.batch = Chunk
    BY <2>3 DEF BeginIngest
  <2> QED
    BY <2>1, <2>2, <2>3, <2>4 DEF Importable
<1>3. CASE ImportReturns
  <2>1. outcome = "busy" /\ result \in {"none", "ok", "StorageError"}
    BY <1>3 DEF ImportReturns, Importable
  <2>2. result \in {"none", "ok"} => BatchDone
    BY <2>1, BatchIsDone
  <2>3. BatchDone => FinalProjection = "ok"
    <3>1. ASSUME BatchDone PROVE FinalProjection = "ok"
      <4>1. plan = {} /\ archive \subseteq store
        BY <1>3, <2>1, <3>1, BatchIsDone DEF ImportReturns, BatchDone, Importable
      <4>2. PICK g : g = Genesis(archive)
        OBVIOUS
      <4>3. g \in archive /\ g \in Created /\ g \in store
        BY <2>1, <4>1, <4>2 DEF Importable
      <4>4. community # NoCommunity
        BY <1>3, <4>3 DEF ImportReturns, Handed, IInv, KnownIsStored
      <4>5. Home[g] = community /\ Home[g] = g
        BY <2>1, <4>3, <4>4, CreatedAssumption DEF Importable, IsGenesis
      <4> QED
        BY <4>2, <4>3, <4>5 DEF FinalProjection, projects, StoredEvents, Belongs
    <3> QED
      BY <3>1
  <2>4. outcome' \in {"ok", "StorageError"}
    BY <1>3, <2>1, <2>2, <2>3 DEF ImportReturns
  <2> QED
    BY <2>4 DEF Importable
<1>4. CASE Stop
  BY <1>4 DEF Stop, Crash, Importable
<1>5. CASE (OpenEmpty \/ \E c \in Event : Open(c)) /\ UNCHANGED importVars
  <2>1. /\ outcome' = outcome /\ outcome # "busy" /\ store' = store
        /\ archive' = archive /\ importing' = importing
    BY <1>5 DEF OpenEmpty, Open, importVars, Handed
  <2> QED
    BY <2>1 DEF Importable
<1>6. CASE /\ ~importing
           /\ \E batch \in SUBSET Event : BeginIngest(batch) \/ RejectBatch(batch)
           /\ UNCHANGED importVars
  <2>1. /\ outcome' = outcome /\ outcome # "busy" /\ store' = store
        /\ archive' = archive /\ importing' = importing
    BY <1>6 DEF importVars, Handed, BeginIngest, RejectBatch
  <2> QED
    BY <2>1 DEF Importable
<1>7. CASE InsertNext /\ UNCHANGED importVars
  <2>1. PICK e \in wave : Insert(e) /\ result = "busy"
    BY <1>7 DEF InsertNext
  <2>2. e \in call.batch
    BY <2>1 DEF IInv, TypeOK, InLoop
  <2>3. /\ outcome' = outcome /\ plan' = plan /\ archive' = archive
        /\ result' = result /\ call' = call
        /\ store \subseteq store' /\ importing' = importing
        /\ community' = IF IsGenesis(e) THEN e ELSE community
    BY <1>7, <2>1 DEF Insert, importVars
  <2>4. ASSUME outcome = "busy", IsGenesis(e), NEW f \in archive
        PROVE  Home[f] = e
    <3>1. e \in archive /\ e \in Event
      BY <2>1, <2>2, <2>4 DEF Importable
    <3>2. Home[e] = e
      BY <2>4, <3>1 DEF IsGenesis
    <3> QED
      BY <2>4, <3>1, <3>2 DEF Importable
  <2> QED
    BY <2>3, <2>4 DEF Importable
<1>8. CASE (NextWave \/ FinishIngest \/ InsertFails) /\ UNCHANGED importVars
  BY <1>8 DEF NextWave, FinishIngest, InsertFails, importVars, Importable
<1>9. CASE UNCHANGED allVars
  BY <1>9 DEF allVars, Importable
<1>10. ASSUME NEW S \in SUBSET Event, NEW c \in Event, RefuseImport(S, c)
       PROVE  Importable'
  BY <1>10, RefusedForCause
<1> QED
  BY <1>1, <1>2, <1>3, <1>4, <1>5, <1>6, <1>7, <1>8, <1>9, <1>10 DEF ArchiveNext, Loop

(***************************************************************************)
(* import-community of an archive that validates is refused before it      *)
(* stores anything, for a genesis event that the chat profile does not     *)
(* accept or a database of another community, or fails only when the       *)
(* storage does, and has stored all of it when it succeeds: for archives   *)
(* and histories of any size and shape, every limit of the batches, and    *)
(* whatever part an import that was stopped has left.                      *)
(***************************************************************************)
THEOREM ImportAlwaysComplete == ArchiveSpec => []ImportIsComplete
<1>1. ArchiveInit => PlanIsEvents /\ Handed /\ SuccessIsWhole /\ Importable
  BY DEF ArchiveInit, Init, PlanIsEvents, Handed, SuccessIsWhole, Importable
<1>2. PlanIsEvents /\ [ArchiveNext]_allVars => PlanIsEvents'
  BY ArchiveStep
<1>3. IInv /\ PlanIsEvents /\ Handed /\ SuccessIsWhole /\ [ArchiveNext]_allVars
      => (Handed /\ SuccessIsWhole)'
  BY HandedStep
<1>4. IInv /\ IInv' /\ PlanIsEvents /\ Handed /\ Importable /\ [ArchiveNext]_allVars
      => Importable'
  BY ImportableStep
<1>5. Importable /\ SuccessIsWhole => ImportIsComplete
  BY DEF Importable, ImportIsComplete
<1> QED
  BY <1>1, <1>2, <1>3, <1>4, <1>5, ImportIsIngest, SpecIInv, PTL DEF ArchiveSpec
=============================================================================
