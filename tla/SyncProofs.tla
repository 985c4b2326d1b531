----------------------------- MODULE SyncProofs -----------------------------
(***************************************************************************)
(* Proofs about Sync, for any peers, any events and any limits: what is    *)
(* pending really waits, a process that lost nothing completes what it was *)
(* told of, within its quota, and the messages implement the abstract      *)
(* replication.                                                            *)
(***************************************************************************)
EXTENDS Sync, Recursion

----------------------------------------------------------------------------
\* The size of a set of events

\* sum has the size of every part of S, one event taken away after the other.
IsSum(sum, S) ==
    sum = [T \in SUBSET S |-> IF T = {} THEN 0
                              ELSE Bytes[CHOOSE x \in T : TRUE] + sum[T \ {CHOOSE x \in T : TRUE}]]

\* There is such a function.
LEMMA SumExists ==
    ASSUME NEW S \in SUBSET Event
    PROVE  \E sum \in [SUBSET S -> Nat] : IsSum(sum, S)
<1> DEFINE pick == [T \in SUBSET S |-> CHOOSE x \in T : TRUE]
           op == [x \in S \X Nat |-> Bytes[x[1]] + x[2]]
<1>1. \A T \in SUBSET S : T # {} => pick[T] \in T
  OBVIOUS
<1>2. ASSUME NEW e \in S, NEW n \in Nat
      PROVE  op[<<e, n>>] = Bytes[e] + n /\ op[<<e, n>>] \in Nat
  BY BytesAssumption
<1>3. PICK f \in [SUBSET S -> Nat] : IsFold(f, S, 0, pick, op)
  <2>1. IsFiniteSet(S)
    BY FiniteAssumption, FS_Subset
  <2> HIDE DEF pick, op
  <2> QED
    BY <1>1, <1>2, <2>1, FoldExists
<1>4. ASSUME NEW T \in SUBSET S
      PROVE  f[T] = IF T = {} THEN 0
                    ELSE Bytes[CHOOSE x \in T : TRUE] + f[T \ {CHOOSE x \in T : TRUE}]
  <2>1. f[T] = IF T = {} THEN 0 ELSE op[<<pick[T], f[T \ {pick[T]}]>>]
    <3> HIDE DEF pick, op
    <3> QED
      BY <1>3 DEF IsFold
  <2>2. CASE T = {}
    BY <2>1, <2>2
  <2>3. CASE T # {}
    <3>1. PICK e : e = CHOOSE x \in T : TRUE
      OBVIOUS
    <3>2. pick[T] = e /\ e \in S /\ f[T \ {e}] \in Nat
      BY <1>1, <1>3, <2>3, <3>1
    <3>3. op[<<e, f[T \ {e}]>>] = Bytes[e] + f[T \ {e}]
      BY <1>2, <3>2
    <3> HIDE DEF pick, op
    <3> QED
      BY <2>1, <2>3, <3>1, <3>2, <3>3
  <2> QED
    BY <2>2, <2>3
<1> QED
  BY <1>3, <1>4 DEF IsSum

\* There is one such function, whichever set it is taken over.
LEMMA SumUnique ==
    ASSUME NEW S \in SUBSET Event, NEW sum, IsSum(sum, Event), NEW part, IsSum(part, S)
    PROVE  part[S] = sum[S]
<1> DEFINE X == {T \in SUBSET S : part[T] # sum[T]}
<1>1. ASSUME X # {} PROVE FALSE
  <2>1. PICK T \in X : \A U \in X : U \subseteq T => U = T
    <3>1. X \in SUBSET SUBSET S /\ IsFiniteSet(S)
      BY FiniteAssumption, FS_Subset
    <3> HIDE DEF X
    <3> QED
      BY <1>1, <3>1, LeastSubset
  <2>2. T \in SUBSET S /\ T \in SUBSET Event
    OBVIOUS
  <2>3. PICK e : e = CHOOSE x \in T : TRUE
    OBVIOUS
  <2>4. part[T] = IF T = {} THEN 0 ELSE Bytes[e] + part[T \ {e}]
    BY <2>2, <2>3 DEF IsSum
  <2>5. sum[T] = IF T = {} THEN 0 ELSE Bytes[e] + sum[T \ {e}]
    BY <2>2, <2>3 DEF IsSum
  <2>6. T # {}
    BY <2>1, <2>4, <2>5
  <2>7. e \in T
    BY <2>3, <2>6
  <2>8. T \ {e} \notin X
    <3>1. T \ {e} \subseteq T /\ T \ {e} # T
      BY <2>7
    <3> HIDE DEF X
    <3> QED
      BY <2>1, <3>1
  <2>9. part[T \ {e}] = sum[T \ {e}]
    BY <2>2, <2>8
  <2> QED
    BY <2>1, <2>4, <2>5, <2>9
<1> QED
  BY <1>1

\* Size is one sum over all of Event.
LEMMA SizeIsSum ==
    ASSUME NEW sum, IsSum(sum, Event), NEW S \in SUBSET Event
    PROVE  Size(S) = sum[S]
<1> DEFINE part == CHOOSE part : part = [T \in SUBSET S |->
                       IF T = {} THEN 0
                       ELSE Bytes[CHOOSE x \in T : TRUE] + part[T \ {CHOOSE x \in T : TRUE}]]
<1>1. Size(S) = part[S]
  BY DEF Size, MapThenSumSet, MapThenFoldSet
<1>2. IsSum(part, S)
  <2>1. PICK sums : IsSum(sums, S)
    BY SumExists
  <2>2. sums = [T \in SUBSET S |->
                   IF T = {} THEN 0
                   ELSE Bytes[CHOOSE x \in T : TRUE] + sums[T \ {CHOOSE x \in T : TRUE}]]
    BY <2>1 DEF IsSum
  <2>3. part = [T \in SUBSET S |->
                   IF T = {} THEN 0
                   ELSE Bytes[CHOOSE x \in T : TRUE] + part[T \ {CHOOSE x \in T : TRUE}]]
    BY <2>2
  <2> QED
    BY <2>3 DEF IsSum
<1> HIDE DEF part
<1> QED
  BY <1>1, <1>2, SumUnique

\* Any event may be counted last.
LEMMA SizeOne ==
    /\ Size({}) = 0
    /\ \A S \in SUBSET Event : Size(S) \in Nat
    /\ \A S \in SUBSET Event : \A e \in S : Size(S) = Bytes[e] + Size(S \ {e})
<1>1. PICK sum \in [SUBSET Event -> Nat] : IsSum(sum, Event)
  BY SumExists
<1>2. \A S \in SUBSET Event : Size(S) = sum[S]
  BY <1>1, SizeIsSum
<1>3. sum[{}] = 0
  BY <1>1 DEF IsSum
<1> DEFINE X == {S \in SUBSET Event : \E e \in S : sum[S] # Bytes[e] + sum[S \ {e}]}
<1>4. ASSUME X # {} PROVE FALSE
  <2>1. PICK S \in X : \A U \in X : U \subseteq S => U = S
    <3>1. X \in SUBSET SUBSET Event
      OBVIOUS
    <3> HIDE DEF X
    <3> QED
      BY <1>4, <3>1, LeastSubset, FiniteAssumption
  <2>2. PICK e \in S : sum[S] # Bytes[e] + sum[S \ {e}]
    OBVIOUS
  <2>3. PICK c : c = CHOOSE x \in S : TRUE
    OBVIOUS
  <2>4. c \in S /\ S \in SUBSET Event
    BY <2>2, <2>3
  <2>5. sum[S] = Bytes[c] + sum[S \ {c}]
    BY <1>1, <2>3, <2>4 DEF IsSum
  <2>6. S \ {c} \notin X /\ S \ {e} \notin X
    <3>1. S \ {c} \subseteq S /\ S \ {c} # S /\ S \ {e} \subseteq S /\ S \ {e} # S
      BY <2>2, <2>4
    <3> HIDE DEF X
    <3> QED
      BY <2>1, <3>1
  <2>7. e # c
    BY <2>2, <2>5
  <2>8. sum[S \ {c}] = Bytes[e] + sum[(S \ {c}) \ {e}]
    BY <2>2, <2>4, <2>6, <2>7
  <2>9. sum[S \ {e}] = Bytes[c] + sum[(S \ {e}) \ {c}]
    BY <2>2, <2>4, <2>6, <2>7
  <2>10. PICK R \in SUBSET Event : R = (S \ {e}) \ {c} /\ R = (S \ {c}) \ {e}
    BY <2>4
  <2>11. Bytes[e] \in Nat /\ Bytes[c] \in Nat /\ sum[R] \in Nat
    BY <1>1, <2>2, <2>4, BytesAssumption
  <2>12. Bytes[c] + (Bytes[e] + sum[R]) = Bytes[e] + (Bytes[c] + sum[R])
    BY <2>11
  <2> QED
    BY <2>2, <2>5, <2>8, <2>9, <2>10, <2>12
<1> QED
  BY <1>1, <1>2, <1>3, <1>4

\* The sizes of what has nothing in common add up.
LEMMA SizeOfBoth ==
    ASSUME NEW S \in SUBSET Event, NEW T \in SUBSET Event, S \cap T = {}
    PROVE  Size(S \cup T) = Size(S) + Size(T)
<1> DEFINE X == {U \in SUBSET T : Size(S \cup U) # Size(S) + Size(U)}
<1>1. ASSUME X # {} PROVE FALSE
  <2>1. PICK U \in X : \A V \in X : V \subseteq U => V = U
    <3>1. X \in SUBSET SUBSET T /\ IsFiniteSet(T)
      BY FiniteAssumption, FS_Subset
    <3> HIDE DEF X
    <3> QED
      BY <1>1, <3>1, LeastSubset
  <2>2. U # {}
    <3>1. S \cup {} = S /\ Size(S) + 0 = Size(S)
      BY SizeOne
    <3>2. {} \notin X
      BY <3>1, SizeOne
    <3> QED
      BY <2>1, <3>2
  <2>3. PICK e \in U : TRUE
    BY <2>2
  <2>4. U \ {e} \notin X
    <3>1. U \ {e} \subseteq U /\ U \ {e} # U
      BY <2>3
    <3> HIDE DEF X
    <3> QED
      BY <2>1, <3>1
  <2>5. Size(S \cup (U \ {e})) = Size(S) + Size(U \ {e})
    BY <2>4
  <2>6. PICK A \in SUBSET Event, B \in SUBSET Event : A = S \cup U /\ B = S \cup (U \ {e})
    OBVIOUS
  <2>7. e \in A /\ B = A \ {e}
    BY <2>3, <2>6
  <2>8. Size(A) = Bytes[e] + Size(B)
    BY <2>7, SizeOne
  <2>9. Size(U) = Bytes[e] + Size(U \ {e})
    BY <2>3, SizeOne
  <2>10. Bytes[e] \in Nat /\ Size(S) \in Nat /\ Size(U \ {e}) \in Nat
    BY <2>3, SizeOne, BytesAssumption
  <2> QED
    BY <2>1, <2>5, <2>6, <2>8, <2>9, <2>10
<1> QED
  BY <1>1

----------------------------------------------------------------------------
USE EventAssumption, ParentsAssumption, HomeAssumption, CommunityAssumption

\* A session belongs to a connection, and a connection to two processes.
Bound ==
    /\ \A l \in Link \ linked : session[l] = Idle
    /\ \A l \in linked : alive[l[1]] /\ alive[l[2]]
    /\ \A p \in Peer : ~alive[p] => pending[p] = {}

Histories == \A p \in Peer : store[p] \in History

\* What is pending, told of or answered is held by somebody.
Held ==
    /\ \A p \in Peer : pending[p] \subseteq UNION {store[q] : q \in Peer}
    /\ \A l \in Link : session[l].heads \subseteq store[l[2]]
    /\ \A l \in Link, e \in Event : session[l].replies[e] > 0 => e \in store[l[2]]

\* p has asked somebody who holds e for it, and the answer is still to come.
OnItsWay(p, e) ==
    \E l \in Link :
        /\ l[1] = p
        /\ e \in store[l[2]]
        /\ session[l].wants[e] > 0 \/ session[l].replies[e] > 0

\* The heads p was told of and the parents p misses are here or on their way.
SoughtBy(p) ==
    /\ \A l \in Link : l[1] = p /\ session[l].phase = "told" =>
          \A h \in session[l].heads : h \in store[p] \cup pending[p] \/ OnItsWay(p, h)
    /\ \A m \in Missing(store[p], pending[p]) : OnItsWay(p, m)

Sought == \A p \in Peer : clean[p] => SoughtBy(p)

IInv == TypeOK /\ Bound /\ Histories /\ Held /\ PendingWaits /\ Sought

----------------------------------------------------------------------------
\* Histories and what can be inserted into them

LEMMA MissingFacts ==
    ASSUME NEW S, NEW B \in SUBSET Event
    PROVE  /\ Missing(S, B) \subseteq Event
           /\ \A m : m \in Missing(S, B) <=> /\ m \notin S \cup B
                                          /\ \E b \in B : m \in Parents[b]
<1> DEFINE All == UNION {Parents[b] : b \in B}
<1>1. \A m : m \in All <=> \E b \in B : m \in Parents[b]
  OBVIOUS
<1>2. All \subseteq Event
  BY <1>1
<1>3. Missing(S, B) = All \ (S \cup B)
  BY DEF Missing
<1> HIDE DEF All
<1> QED
  BY <1>1, <1>2, <1>3

LEMMA InsertableSubset ==
    ASSUME NEW K, NEW B
    PROVE  /\ Insertable(K, B) \subseteq B
           /\ \A e \in Insertable(K, B) : Parents[e] \subseteq K \cup Insertable(K, B)
BY DEF Insertable

LEMMA InsertableIsAll ==
    ASSUME NEW K, NEW B
    PROVE  Insertable(K \cup Insertable(K, B), B \ Insertable(K, B)) = {}
<1> DEFINE I == Insertable(K, B)
<1>1. ASSUME NEW S \in SUBSET (B \ I), \A e \in S : Parents[e] \subseteq (K \cup I) \cup S
      PROVE  S = {}
  <2>1. S \cup I \in SUBSET B
    BY InsertableSubset
  <2>2. \A e \in S \cup I : Parents[e] \subseteq K \cup (S \cup I)
    BY <1>1, InsertableSubset
  <2>3. S \cup I \subseteq I
    BY <2>1, <2>2 DEF Insertable
  <2> QED
    BY <2>3
<1> QED
  BY <1>1 DEF Insertable

LEMMA InsertableHistory ==
    ASSUME NEW K \in History, NEW B \in SUBSET Own
    PROVE  K \cup Insertable(K, B) \in History
<1>1. Insertable(K, B) \subseteq Own
  BY InsertableSubset
<1>2. ParentClosed(K \cup Insertable(K, B))
  BY InsertableSubset DEF ParentClosed, History
<1> QED
  BY <1>1, <1>2 DEF History

\* Without its genesis nothing of the community can be inserted.
LEMMA NeedsGenesis ==
    ASSUME NEW B \in SUBSET Own, Community \notin B
    PROVE  Insertable({}, B) = {}
<1> SUFFICES ASSUME NEW S \in SUBSET B, \A e \in S : Parents[e] \subseteq {} \cup S, S # {}
             PROVE  FALSE
  BY DEF Insertable
<1>1. S \in SUBSET Event
  BY DEF Own
<1>2. PICK e \in S : Parents[e] \cap S = {}
  BY <1>1, AcyclicAssumption
<1>3. Parents[e] = {}
  BY <1>2
<1>4. Home[e] = e /\ Home[e] = Community
  BY <1>1, <1>3 DEF Own, Belongs
<1> QED
  BY <1>4

----------------------------------------------------------------------------

LEMMA InitIInv == Init => IInv
<1> SUFFICES ASSUME Init
             PROVE  IInv
  OBVIOUS
<1>1. Nothing \in [Event -> Nat] /\ \A e \in Event : Nothing[e] = 0
  BY DEF Nothing
<1>2. /\ Idle \in [phase : Phase, heads : SUBSET Event,
                   wants : [Event -> Nat], replies : [Event -> Nat]]
      /\ Idle.phase = "idle" /\ Idle.heads = {} /\ \A e \in Event : Idle.replies[e] = 0
  BY <1>1 DEF Idle, Phase
<1>3. Histories
  BY DEF Init, RInit, Histories
<1>4. store \in [Peer -> SUBSET Event]
  BY DEF Init, RInit, History, Own
<1>5. TypeOK
  BY <1>2, <1>4 DEF Init, TypeOK
<1>6. Bound /\ Held
  BY <1>2 DEF Init, Bound, Held
<1>7. PendingWaits
  <2>1. \A K : Insertable(K, {}) = {}
    BY DEF Insertable
  <2> QED
    BY <2>1 DEF Init, PendingWaits
<1>8. Sought
  BY <1>2 DEF Init, Sought, SoughtBy, Missing
<1> QED
  BY <1>3, <1>5, <1>6, <1>7, <1>8 DEF IInv

\* What is known of a session nobody uses.
LEMMA IdleFacts ==
    /\ Idle \in [phase : Phase, heads : SUBSET Event,
                 wants : [Event -> Nat], replies : [Event -> Nat]]
    /\ Idle.phase = "idle" /\ Idle.heads = {}
    /\ \A e \in Event : Idle.wants[e] = 0 /\ Idle.replies[e] = 0
<1>1. Nothing \in [Event -> Nat] /\ \A e \in Event : Nothing[e] = 0
  BY DEF Nothing
<1> QED
  BY <1>1 DEF Idle, Phase

LEMMA NothingInsertable == \A K : Insertable(K, {}) = {}
BY DEF Insertable

(***************************************************************************)
(* The connections of Links close and the processes of Ended end with      *)
(* their connections; these may have stored something just before.         *)
(***************************************************************************)
LEMMA CloseIInv ==
    ASSUME IInv, NEW Ended \in SUBSET Peer, NEW Links \in SUBSET Link,
           \A l \in Link, p \in Ended : Touches(l, p) => l \in Links,
           store' \in [Peer -> History],
           \A q \in Peer : store[q] \subseteq store'[q],
           \A q \in Peer \ Ended : store'[q] = store[q],
           alive' = [q \in Peer |-> alive[q] /\ q \notin Ended],
           pending' = [q \in Peer |-> IF q \in Ended THEN {} ELSE pending[q]],
           Drop(Links), Spoil(Links), faults' \in [FaultKind -> Nat]
    PROVE  IInv'
<1> USE DEF IInv
<1>1. /\ linked' = linked \ Links
      /\ session' = [l \in Link |-> IF l \in Links THEN Idle ELSE session[l]]
      /\ clean' = [r \in Peer |-> clean[r] /\ ~\E l \in Links : l[1] = r /\ Busy(l)]
  BY DEF Drop, Spoil
<1>3. TypeOK'
  <2>1. store' \in [Peer -> SUBSET Event]
    BY DEF History, Own
  <2>2. clean' \in [Peer -> BOOLEAN]
    BY <1>1 DEF TypeOK
  <2>3. session' \in [Link -> [phase : Phase, heads : SUBSET Event,
                               wants : [Event -> Nat], replies : [Event -> Nat]]]
    BY <1>1, IdleFacts DEF TypeOK
  <2> QED
    BY <1>1, <2>1, <2>2, <2>3 DEF TypeOK
<1>4. Bound'
  <2>1. \A l \in Link : l[1] \in Peer /\ l[2] \in Peer
    BY DEF Link
  <2> QED
    BY <1>1, <2>1 DEF TypeOK, Bound, Touches
<1>5. Histories'
  BY DEF Histories
<1>6. Held'
  <2>1. \A q \in Peer : pending'[q] \subseteq UNION {store'[r] : r \in Peer}
    BY DEF TypeOK, Held
  <2>2. \A l \in Link : l[2] \in Peer
    BY DEF Link
  <2>3. ASSUME NEW l \in Link
        PROVE  /\ session'[l].heads \subseteq store'[l[2]]
               /\ \A e \in Event : session'[l].replies[e] > 0 => e \in store'[l[2]]
    BY <1>1, <2>2, IdleFacts DEF Held
  <2> QED
    BY <2>1, <2>3 DEF Held
<1>7. PendingWaits'
  <2> SUFFICES ASSUME NEW q \in Peer
               PROVE  /\ pending'[q] \cap store'[q] = {}
                      /\ Insertable(store'[q], pending'[q]) = {}
    BY DEF PendingWaits, Insertable
  <2>1. CASE q \in Ended
    BY <1>1, <2>1, NothingInsertable DEF TypeOK
  <2>2. CASE q \notin Ended
    BY <1>1, <2>2 DEF TypeOK, PendingWaits
  <2> QED
    BY <2>1, <2>2
<1>8. Sought'
  <2> SUFFICES ASSUME NEW r \in Peer, clean'[r]
               PROVE  SoughtBy(r)'
    BY DEF Sought
  <2>1. SoughtBy(r) /\ ~\E l \in Links : l[1] = r /\ Busy(l)
    BY <1>1 DEF Sought
  <2>2. ASSUME NEW e \in Event, OnItsWay(r, e)
        PROVE  OnItsWay(r, e)'
    <3>1. PICK l \in Link : /\ l[1] = r /\ e \in store[l[2]]
                            /\ session[l].wants[e] > 0 \/ session[l].replies[e] > 0
      BY <2>2 DEF OnItsWay
    <3>2. l \notin Links
      BY <2>1, <3>1 DEF Busy
    <3>3. session'[l] = session[l] /\ e \in store'[l[2]]
      BY <1>1, <3>1, <3>2 DEF Link
    <3> QED
      BY <3>1, <3>3 DEF OnItsWay
  <2>3. CASE r \in Ended
    <3>1. \A l \in Link : l[1] = r => session'[l] = Idle
      BY <1>1, <2>3 DEF Touches
    <3>2. pending'[r] = {}
      BY <2>3
    <3> QED
      BY <2>3, <3>1, <3>2, IdleFacts DEF SoughtBy, Missing
  <2>4. CASE r \notin Ended
    <3>1. store'[r] = store[r] /\ pending'[r] = pending[r]
      BY <1>1, <2>4 DEF TypeOK
    <3>2. \A l \in Link : session'[l] = session[l] \/ session'[l] = Idle
      BY <1>1
    <3>3. ASSUME NEW l \in Link, l[1] = r, session'[l].phase = "told",
                 NEW h \in session'[l].heads
          PROVE  h \in store'[r] \cup pending'[r] \/ OnItsWay(r, h)'
      <4>1. session'[l] = session[l]
        BY <3>2, <3>3, IdleFacts
      <4>2. h \in Event
        BY <4>1, <3>3 DEF TypeOK
      <4> QED
        BY <2>1, <2>2, <3>1, <3>3, <4>1, <4>2 DEF SoughtBy
    <3>4. ASSUME NEW m \in Missing(store[r], pending[r])
          PROVE  OnItsWay(r, m)'
      <4>1. m \in Event
        <5>1. pending[r] \in SUBSET Event
          BY DEF TypeOK
        <5> QED
          BY <5>1, MissingFacts
      <4> QED
        BY <2>1, <2>2, <4>1 DEF SoughtBy
    <3> QED
      BY <3>1, <3>3, <3>4 DEF SoughtBy, Missing
  <2> QED
    BY <2>3, <2>4
<1> QED
  BY <1>3, <1>4, <1>5, <1>6, <1>7, <1>8

LEMMA ExitIInv ==
    ASSUME IInv, NEW p \in Peer, NEW S \in History,
           store[p] \subseteq S, store' = [store EXCEPT ![p] = S],
           Exit(p), faults' \in [FaultKind -> Nat]
    PROVE  IInv'
<1>1. PICK Ended \in SUBSET Peer : Ended = {p}
  OBVIOUS
<1>2. PICK Links \in SUBSET Link : Links = {l \in Link : Touches(l, p)}
  OBVIOUS
<1>3. /\ store' \in [Peer -> History]
      /\ \A q \in Peer : store[q] \subseteq store'[q]
      /\ \A q \in Peer \ Ended : store'[q] = store[q]
  BY <1>1 DEF IInv, TypeOK, Histories
<1>4. /\ alive' = [q \in Peer |-> alive[q] /\ q \notin Ended]
      /\ pending' = [q \in Peer |-> IF q \in Ended THEN {} ELSE pending[q]]
  BY <1>1 DEF Exit, IInv, TypeOK
<1>5. Drop(Links) /\ Spoil(Links)
  BY <1>2 DEF Exit
<1>6. \A l \in Link, r \in Ended : Touches(l, r) => l \in Links
  BY <1>1, <1>2
<1> QED
  BY <1>3, <1>4, <1>5, <1>6, CloseIInv, Zenon

LEMMA DisconnectIInv ==
    ASSUME IInv, NEW l \in Link, Disconnect(l)
    PROVE  IInv'
<1>1. PICK Ended \in SUBSET Peer : Ended = {}
  OBVIOUS
<1>0. <<l[2], l[1]>> \in Link
  BY DEF Link
<1>2. PICK Links \in SUBSET Link : Links = {l, <<l[2], l[1]>>}
  BY <1>0
<1>3. /\ store' \in [Peer -> History]
      /\ \A q \in Peer : store[q] \subseteq store'[q]
      /\ \A q \in Peer \ Ended : store'[q] = store[q]
  BY DEF IInv, TypeOK, Histories, Disconnect
<1>4. /\ alive' = [q \in Peer |-> alive[q] /\ q \notin Ended]
      /\ pending' = [q \in Peer |-> IF q \in Ended THEN {} ELSE pending[q]]
  BY <1>1 DEF Disconnect, IInv, TypeOK
<1>5. Drop(Links) /\ Spoil(Links) /\ faults' \in [FaultKind -> Nat]
  BY <1>2 DEF Disconnect, Fault, IInv, TypeOK, FaultKind
<1>6. \A k \in Link, r \in Ended : Touches(k, r) => k \in Links
  BY <1>1
<1> QED
  BY <1>3, <1>4, <1>5, <1>6, CloseIInv, Zenon

----------------------------------------------------------------------------
\* Steps on one link

Session == [phase : Phase, heads : SUBSET Event,
            wants : [Event -> Nat], replies : [Event -> Nat]]

(***************************************************************************)
(* Only the session of l changes, to s: it drops nothing that is on its    *)
(* way unless l[1] is not clean any more, and it asks for all heads it is  *)
(* told of.                                                                *)
(***************************************************************************)
LEMMA SessionIInv ==
    ASSUME IInv, NEW l \in Link, NEW s \in Session,
           l \in linked,
           session' = [session EXCEPT ![l] = s],
           UNCHANGED <<store, pending, alive, linked>>,
           clean' \in [Peer -> BOOLEAN], \A r \in Peer : clean'[r] => clean[r],
           faults' \in [FaultKind -> Nat],
           s.heads \subseteq store[l[2]],
           \A e \in Event : s.replies[e] > 0 => e \in store[l[2]],
           clean'[l[1]] =>
              /\ \A e \in store[l[2]] :
                    session[l].wants[e] > 0 \/ session[l].replies[e] > 0
                    => s.wants[e] > 0 \/ s.replies[e] > 0
              /\ s.phase = "told" =>
                    \A h \in s.heads :
                        \/ h \in store[l[1]] \cup pending[l[1]]
                        \/ s.wants[h] > 0
                        \/ OnItsWay(l[1], h)
    PROVE  IInv'
<1> USE DEF IInv
<1>1. session' \in [Link -> Session] /\ session'[l] = s
      /\ \A k \in Link \ {l} : session'[k] = session[k]
  BY DEF TypeOK, Session
<1>2. TypeOK'
  BY <1>1 DEF TypeOK, Session
<1>3. Bound'
  BY <1>1 DEF Bound
<1>4. Histories' /\ PendingWaits'
  BY DEF Histories, PendingWaits
<1>5. Held'
  BY <1>1 DEF Held
<1>6. Sought'
  <2> SUFFICES ASSUME NEW r \in Peer, clean'[r]
               PROVE  SoughtBy(r)'
    BY DEF Sought
  <2>1. SoughtBy(r)
    BY DEF Sought
  <2>2. ASSUME NEW e \in Event, OnItsWay(r, e)
        PROVE  OnItsWay(r, e)'
    <3>1. PICK k \in Link : /\ k[1] = r /\ e \in store[k[2]]
                            /\ session[k].wants[e] > 0 \/ session[k].replies[e] > 0
      BY <2>2 DEF OnItsWay
    <3>2. session'[k].wants[e] > 0 \/ session'[k].replies[e] > 0
      BY <1>1, <3>1
    <3> QED
      BY <3>1, <3>2 DEF OnItsWay
  <2>3. ASSUME NEW k \in Link, k[1] = r, session'[k].phase = "told",
               NEW h \in session'[k].heads
        PROVE  h \in store[r] \cup pending[r] \/ OnItsWay(r, h)'
    <3>1. h \in Event
      BY <1>1, <2>3 DEF Session
    <3>2. CASE k = l
      <4>1. CASE s.wants[h] > 0
        <5>1. h \in store'[l[2]] /\ session'[l].wants[h] > 0 /\ l[1] = r
          BY <1>1, <2>3, <3>2, <4>1
        <5> QED
          BY <5>1 DEF OnItsWay
      <4> QED
        BY <1>1, <2>2, <2>3, <3>1, <3>2, <4>1
    <3>3. CASE k # l
      BY <1>1, <2>1, <2>2, <2>3, <3>1, <3>3 DEF SoughtBy
    <3> QED
      BY <3>2, <3>3
  <2>4. ASSUME NEW m \in Missing(store[r], pending[r])
        PROVE  OnItsWay(r, m)'
    <3>1. m \in Event
      <4>1. pending[r] \in SUBSET Event
        BY DEF TypeOK
      <4> QED
        BY <4>1, MissingFacts
    <3> QED
      BY <2>1, <2>2, <3>1 DEF SoughtBy
  <2> QED
    BY <2>3, <2>4 DEF SoughtBy, Missing
<1> QED
  BY <1>2, <1>3, <1>4, <1>5, <1>6

\* A session in use is of an open connection.
LEMMA InUse ==
    ASSUME IInv, NEW l \in Link,
           \/ session[l].phase # "idle"
           \/ \E e \in Event : session[l].wants[e] > 0 \/ session[l].replies[e] > 0
    PROVE  l \in linked
BY IdleFacts DEF IInv, Bound

LEMMA FaultType ==
    ASSUME TypeOK, NEW kind \in FaultKind, Fault(kind)
    PROVE  faults' \in [FaultKind -> Nat]
BY DEF TypeOK, Fault

LEMMA MoreFacts ==
    ASSUME NEW count \in [Event -> Nat], NEW S
    PROVE  /\ More(count, S) \in [Event -> Nat]
           /\ \A f \in Event : /\ count[f] > 0 => More(count, S)[f] > 0
                               /\ f \in S => More(count, S)[f] > 0
                               /\ f \notin S => More(count, S)[f] = count[f]
BY DEF More

LEMMA LessFacts ==
    ASSUME NEW count \in [Event -> Nat], NEW e \in Event, count[e] > 0
    PROVE  /\ Less(count, e) \in [Event -> Nat]
           /\ Less(count, e)[e] = count[e] - 1
           /\ \A f \in Event \ {e} : Less(count, e)[f] = count[f]
BY DEF Less

LEMMA AskIInv ==
    ASSUME IInv, NEW l \in Link,
           StartSync(l) \/ HandleHello(l) \/ LoseHello(l)
    PROVE  IInv'
<1>1. PICK s : s = session'[l]
  OBVIOUS
<1>2. session[l] \in Session /\ l[1] \in Peer /\ l[2] \in Peer
  BY DEF IInv, TypeOK, Session, Link
<1>3. /\ l \in linked
      /\ UNCHANGED <<store, pending, alive, linked, clean>>
      /\ faults' \in [FaultKind -> Nat]
      /\ session' = [session EXCEPT ![l] = s]
  BY <1>1, InUse DEF StartSync, HandleHello, LoseHello, Fault, IInv, TypeOK, FaultKind
<1>4. /\ s \in Session /\ s.phase # "told"
      /\ s.wants = session[l].wants /\ s.replies = session[l].replies
      /\ s.heads = session[l].heads \/ s.heads = Heads(store[l[2]])
  <2>1. Heads(store[l[2]]) \in SUBSET Event
    BY <1>2 DEF Heads, IInv, TypeOK
  <2> QED
    BY <1>1, <1>2, <2>1 DEF StartSync, HandleHello, LoseHello, IInv, TypeOK, Session, Phase
<1>5. s.heads \subseteq store[l[2]]
  BY <1>4 DEF Heads, IInv, Held
<1>6. \A e \in Event : s.replies[e] > 0 => e \in store[l[2]]
  BY <1>4 DEF IInv, Held
<1>7. clean' \in [Peer -> BOOLEAN] /\ \A r \in Peer : clean'[r] => clean[r]
  BY <1>3 DEF IInv, TypeOK
<1> QED
  BY <1>3, <1>4, <1>5, <1>6, <1>7, SessionIInv

LEMMA ReceiveHeadsIInv ==
    ASSUME IInv, NEW l \in Link, ReceiveHeads(l)
    PROVE  IInv'
<1>1. PICK s : s = session'[l]
  OBVIOUS
<1>2. session[l] \in Session /\ l[1] \in Peer /\ l[2] \in Peer
  BY DEF IInv, TypeOK, Session, Link
<1>3. /\ l \in linked
      /\ UNCHANGED <<store, pending, alive, linked, clean>>
      /\ faults' \in [FaultKind -> Nat]
      /\ session' = [session EXCEPT ![l] = s]
  BY <1>1, InUse DEF ReceiveHeads, IInv, TypeOK
<1>4. /\ s \in Session
      /\ s.heads = session[l].heads /\ s.replies = session[l].replies
      /\ s.wants = More(session[l].wants, Unknown(l[1], session[l].heads))
  <2>1. More(session[l].wants, Unknown(l[1], session[l].heads)) \in [Event -> Nat]
    BY <1>2, MoreFacts DEF Session
  <2>2. s = [session[l] EXCEPT !.phase = "told",
                               !.wants = More(@, Unknown(l[1], session[l].heads))]
    BY <1>1 DEF ReceiveHeads, IInv, TypeOK
  <2> QED
    BY <1>2, <2>1, <2>2 DEF Session, Phase
<1>5. /\ \A e \in Event : session[l].wants[e] > 0 => s.wants[e] > 0
      /\ \A h \in Unknown(l[1], s.heads) : s.wants[h] > 0
  <2>1. session[l].wants \in [Event -> Nat] /\ s.heads \subseteq Event
    BY <1>2, <1>4 DEF Session
  <2>2. Unknown(l[1], s.heads) \subseteq Event
    BY <2>1 DEF Unknown
  <2> DEFINE wants == session[l].wants
             S == Unknown(l[1], s.heads)
  <2>3. s.wants = More(wants, S)
    BY <1>4
  <2> HIDE DEF wants, S
  <2>4. /\ \A e \in Event : wants[e] > 0 => More(wants, S)[e] > 0
        /\ \A e \in S : More(wants, S)[e] > 0
    <3>1. wants \in [Event -> Nat] /\ S \subseteq Event
      BY <2>1, <2>2 DEF wants, S
    <3> QED
      BY <3>1 DEF More
  <2> QED
    BY <2>3, <2>4 DEF wants, S
<1>6. /\ s.heads \subseteq store[l[2]] /\ store[l[2]] \subseteq Event
      /\ \A e \in Event : s.replies[e] > 0 => e \in store[l[2]]
  BY <1>2, <1>4 DEF IInv, TypeOK, Held
<1>7. clean' \in [Peer -> BOOLEAN] /\ \A r \in Peer : clean'[r] => clean[r]
  BY <1>3 DEF IInv, TypeOK
<1>8. \A h \in s.heads : h \in store[l[1]] \cup pending[l[1]] \/ s.wants[h] > 0
  BY <1>5 DEF Unknown
<1>9. \A e \in store[l[2]] : session[l].wants[e] > 0 \/ session[l].replies[e] > 0
                             => s.wants[e] > 0 \/ s.replies[e] > 0
  BY <1>4, <1>5, <1>6
<1> QED
  BY <1>3, <1>4, <1>6, <1>7, <1>8, <1>9, SessionIInv

LEMMA HandleWantIInv ==
    ASSUME IInv, NEW l \in Link, NEW e \in Event,
           HandleWant(l, e) \/ LoseWant(l, e) \/ LoseReply(l, e)
    PROVE  IInv'
<1>1. PICK s : s = session'[l]
  OBVIOUS
<1> DEFINE wants == session[l].wants
           replies == session[l].replies
<1>2. /\ session[l] \in Session /\ wants \in [Event -> Nat] /\ replies \in [Event -> Nat]
      /\ l[1] \in Peer /\ l[2] \in Peer /\ store[l[2]] \subseteq Event
  BY DEF IInv, TypeOK, Session, Link
<1>3. /\ l \in linked
      /\ UNCHANGED <<store, pending, alive, linked>>
      /\ faults' \in [FaultKind -> Nat]
      /\ session' = [session EXCEPT ![l] = s]
  <2>1. l \in linked
    BY InUse DEF HandleWant, LoseWant, LoseReply
  <2>2. faults' \in [FaultKind -> Nat]
    <3>1. CASE HandleWant(l, e)
      BY <3>1 DEF HandleWant, IInv, TypeOK
    <3>2. CASE LoseWant(l, e) \/ LoseReply(l, e)
      BY <3>2, FaultType DEF LoseWant, LoseReply, FaultKind, IInv
    <3> QED
      BY <3>1, <3>2
  <2>3. session' = [session EXCEPT ![l] = s]
    BY <1>1 DEF HandleWant, LoseWant, LoseReply, IInv, TypeOK
  <2> QED
    BY <2>1, <2>2, <2>3 DEF HandleWant, LoseWant, LoseReply
<1>4. /\ s \in Session
      /\ s.heads = session[l].heads /\ s.phase = session[l].phase
      /\ \A f \in Event \ {e} : /\ s.wants[f] = session[l].wants[f]
                                /\ s.replies[f] = session[l].replies[f]
      /\ HandleWant(l, e) /\ e \in store[l[2]] => s.replies[e] > 0
      /\ HandleWant(l, e) \/ s.replies[e] <= session[l].replies[e]
      /\ e \notin store[l[2]] => s.replies[e] <= session[l].replies[e]
  <2>1. CASE HandleWant(l, e)
    <3>1. s = [session[l] EXCEPT
                 !.wants = Less(@, e),
                 !.replies = IF e \in store[l[2]] THEN More(@, {e}) ELSE @]
      BY <1>1, <2>1 DEF HandleWant, IInv, TypeOK
    <3>2. session[l].wants[e] > 0
      BY <2>1 DEF HandleWant
    <3>3. /\ Less(wants, e) \in [Event -> Nat]
          /\ \A f \in Event \ {e} : Less(wants, e)[f] = wants[f]
      BY <1>2, <3>2, LessFacts
    <3>4. /\ More(replies, {e}) \in [Event -> Nat]
          /\ More(replies, {e})[e] > 0
          /\ \A f \in Event \ {e} : More(replies, {e})[f] = replies[f]
      BY <1>2 DEF More
    <3> HIDE DEF wants, replies
    <3>5. s = [session[l] EXCEPT
                 !.wants = Less(wants, e),
                 !.replies = IF e \in store[l[2]] THEN More(replies, {e}) ELSE replies]
      BY <3>1 DEF wants, replies
    <3>6. /\ s \in Session /\ s.heads = session[l].heads /\ s.phase = session[l].phase
          /\ s.wants = Less(wants, e)
          /\ s.replies = IF e \in store[l[2]] THEN More(replies, {e}) ELSE replies
      BY <1>2, <3>3, <3>4, <3>5 DEF Session
    <3>7. /\ \A f \in Event \ {e} : s.wants[f] = wants[f] /\ s.replies[f] = replies[f]
          /\ e \in store[l[2]] => s.replies[e] > 0
          /\ e \notin store[l[2]] => s.replies[e] <= replies[e]
      <4>1. CASE e \in store[l[2]]
        BY <3>3, <3>4, <3>6, <4>1
      <4>2. CASE e \notin store[l[2]]
        <5>1. replies[e] \in Nat /\ s.replies = replies
          BY <1>2, <3>6, <4>2
        <5>2. \A f \in Event \ {e} : s.wants[f] = wants[f] /\ s.replies[f] = replies[f]
          BY <3>3, <3>6, <5>1
        <5>3. s.replies[e] <= replies[e]
          BY <5>1
        <5> QED
          BY <4>2, <5>2, <5>3
      <4> QED
        BY <4>1, <4>2
    <3> QED
      BY <2>1, <3>6, <3>7 DEF wants, replies
  <2>2. CASE LoseWant(l, e) /\ ~HandleWant(l, e)
    <3>1. s = [session[l] EXCEPT !.wants = Less(@, e)]
      BY <1>1, <2>2 DEF LoseWant, IInv, TypeOK
    <3>2. session[l].wants[e] > 0
      BY <2>2 DEF LoseWant
    <3>3. /\ Less(wants, e) \in [Event -> Nat]
          /\ \A f \in Event \ {e} : Less(wants, e)[f] = wants[f]
      BY <1>2, <3>2, LessFacts
    <3>4. /\ s \in Session /\ s.heads = session[l].heads /\ s.phase = session[l].phase
          /\ s.wants = Less(wants, e) /\ s.replies = replies
      BY <1>2, <3>1, <3>3 DEF Session
    <3> QED
      BY <1>2, <2>2, <3>3, <3>4
  <2>3. CASE LoseReply(l, e) /\ ~HandleWant(l, e)
    <3>1. s = [session[l] EXCEPT !.replies = Less(@, e)]
      BY <1>1, <2>3 DEF LoseReply, IInv, TypeOK
    <3>2. session[l].replies[e] > 0
      BY <2>3 DEF LoseReply
    <3>3. /\ Less(replies, e) \in [Event -> Nat]
          /\ Less(replies, e)[e] = replies[e] - 1
          /\ \A f \in Event \ {e} : Less(replies, e)[f] = replies[f]
      BY <1>2, <3>2, LessFacts
    <3>4. /\ s \in Session /\ s.heads = session[l].heads /\ s.phase = session[l].phase
          /\ s.wants = wants /\ s.replies = Less(replies, e)
      BY <1>2, <3>1, <3>3 DEF Session
    <3> QED
      BY <1>2, <2>3, <3>3, <3>4
  <2> QED
    BY <2>1, <2>2, <2>3
<1>5. /\ s.heads \subseteq store[l[2]]
      /\ \A f \in Event : s.replies[f] > 0 => f \in store[l[2]]
  <2>1. s.replies[e] > 0 => e \in store[l[2]]
    <3>1. s.replies[e] \in Nat /\ session[l].replies[e] \in Nat
      BY <1>2, <1>4 DEF Session
    <3>2. session[l].replies[e] > 0 => e \in store[l[2]]
      BY DEF IInv, Held
    <3> QED
      BY <1>4, <3>1, <3>2
  <2> QED
    BY <1>4, <2>1 DEF IInv, Held
<1>6. /\ clean' \in [Peer -> BOOLEAN]
      /\ \A r \in Peer : clean'[r] => clean[r]
      /\ clean'[l[1]] => HandleWant(l, e)
  BY <1>2 DEF HandleWant, LoseWant, LoseReply, IInv, TypeOK
<1>7. clean'[l[1]] =>
         \A f \in store[l[2]] : session[l].wants[f] > 0 \/ session[l].replies[f] > 0
                                => s.wants[f] > 0 \/ s.replies[f] > 0
  BY <1>2, <1>4, <1>6
<1>8. clean'[l[1]] /\ s.phase = "told" =>
         \A h \in s.heads : h \in store[l[1]] \cup pending[l[1]] \/ OnItsWay(l[1], h)
  BY <1>2, <1>4, <1>6 DEF IInv, Sought, SoughtBy
<1> QED
  BY <1>3, <1>4, <1>5, <1>6, <1>7, <1>8, SessionIInv

----------------------------------------------------------------------------
\* Receiving an event

\* What ingest inserts, and that it is a copy of what others hold.
LEMMA IngestedFacts ==
    ASSUME IInv, NEW l \in Link, NEW e \in Event, session[l].replies[e] > 0
    PROVE  /\ e \in store[l[2]] /\ Parents[e] \subseteq store[l[2]]
           /\ Ingested(l[1], e) = Insertable(store[l[1]], Batch(l[1], e))
           /\ Ingested(l[1], e) \subseteq Batch(l[1], e)
           /\ Batch(l[1], e) \subseteq Own
           /\ Batch(l[1], e) \subseteq UNION {store[q] : q \in Peer}
           /\ store[l[1]] \cup Ingested(l[1], e) \in History
<1> DEFINE p == l[1]
           q == l[2]
           B == Batch(p, e)
<1>1. p \in Peer /\ q \in Peer
  BY DEF Link
<1>2. e \in store[q]
  BY DEF IInv, Held
<1>3. \A r \in Peer : store[r] \in SUBSET Own /\ ParentClosed(store[r])
  BY DEF IInv, Histories, History
<1>4. Parents[e] \subseteq store[q]
  BY <1>1, <1>2, <1>3 DEF ParentClosed
<1>5. B \subseteq UNION {store[r] : r \in Peer}
  <2>1. pending[p] \subseteq UNION {store[r] : r \in Peer}
    BY <1>1 DEF IInv, Held
  <2> QED
    BY <1>1, <1>2, <2>1 DEF Batch, Unknown
<1>6. B \in SUBSET Own
  BY <1>3, <1>5
<1>7. Ingested(p, e) = Insertable(store[p], B)
  <2>1. CASE store[p] # {} \/ Community \in B
    BY <2>1 DEF Ingested
  <2>2. CASE store[p] = {} /\ Community \notin B
    BY <1>6, <2>2, NeedsGenesis DEF Ingested
  <2> QED
    BY <2>1, <2>2
<1>8. store[p] \in History
  BY <1>1 DEF IInv, Histories
<1>9. store[p] \cup Ingested(p, e) \in History
  BY <1>6, <1>7, <1>8, InsertableHistory
<1>10. Ingested(p, e) \subseteq B
  BY <1>7, InsertableSubset
<1> QED
  BY <1>2, <1>4, <1>5, <1>6, <1>7, <1>9, <1>10

\* The frame of Wants is too long: the process ends after it stored the events.
LEMMA OverflowIInv ==
    ASSUME IInv, NEW l \in Link, NEW e \in Event, Receive(l, e), Exit(l[1])
    PROVE  IInv'
<1>1. session[l].replies[e] > 0 /\ UNCHANGED faults
      /\ store' = [store EXCEPT ![l[1]] = @ \cup Ingested(l[1], e)]
  BY DEF Receive
<1>2. PICK S \in History : S = store[l[1]] \cup Ingested(l[1], e)
  BY <1>1, IngestedFacts
<1>3. l[1] \in Peer /\ faults' \in [FaultKind -> Nat]
  BY <1>1 DEF Link, IInv, TypeOK
<1>4. store' = [store EXCEPT ![l[1]] = S]
  BY <1>1, <1>2
<1> QED
  BY <1>2, <1>3, <1>4, ExitIInv

(***************************************************************************)
(* The heart of the argument: what p still misses after it took e in was   *)
(* either missing before, and is still on its way, or is a parent of e,    *)
(* and is asked of the peer that sent e and therefore holds it.            *)
(***************************************************************************)
LEMMA ReceiveIInv ==
    ASSUME IInv, NEW l \in Link, NEW e \in Event, Receive(l, e), ~Exit(l[1])
    PROVE  IInv'
<1> USE DEF IInv
<1>0. PICK p \in Peer, q \in Peer : p = l[1] /\ q = l[2] /\ p # q
  BY DEF Link
<1> DEFINE B == Batch(p, e)
           got == Ingested(p, e)
           kept == B \ got
           missing == Missing(store[p] \cup got, kept)
<1>1. /\ session[l].replies[e] > 0
      /\ store' = [store EXCEPT ![p] = @ \cup got]
      /\ pending' = [pending EXCEPT ![p] = kept]
      /\ session' = [session EXCEPT ![l].replies = Less(@, e),
                                    ![l].wants = More(@, missing)]
      /\ UNCHANGED <<alive, linked, clean, faults>>
  BY <1>0 DEF Receive
<1>2. /\ e \in store[q] /\ Parents[e] \subseteq store[q]
      /\ got = Insertable(store[p], B) /\ got \subseteq B
      /\ B \subseteq Own /\ B \subseteq UNION {store[r] : r \in Peer}
      /\ store[p] \cup got \in History
  BY <1>0, <1>1, IngestedFacts
<1>3. /\ B = IF e \in store[p] THEN pending[p] ELSE pending[p] \cup {e}
      /\ B \subseteq Event /\ store[p] \subseteq Event /\ pending[p] \subseteq Event
  BY <1>2 DEF Batch, Unknown, Own, TypeOK
<1>4. missing \subseteq Event
  <2>1. kept \in SUBSET Event
    BY <1>3
  <2> HIDE DEF kept, got
  <2> QED
    BY <2>1, MissingFacts
<1>5. /\ store'[p] = store[p] \cup got /\ pending'[p] = kept
      /\ \A r \in Peer \ {p} : store'[r] = store[r] /\ pending'[r] = pending[r]
      /\ \A r \in Peer : store[r] \subseteq store'[r]
  BY <1>1 DEF TypeOK
<1>6. /\ session[l] \in Session
      /\ session[l].wants \in [Event -> Nat] /\ session[l].replies \in [Event -> Nat]
  BY DEF TypeOK, Session
<1> HIDE DEF B, got, kept, missing
<1>7. PICK s : /\ session' = [session EXCEPT ![l] = s]
               /\ s = [session[l] EXCEPT !.replies = Less(@, e), !.wants = More(@, missing)]
  BY <1>1 DEF TypeOK
<1>8. /\ s \in Session /\ s.phase = session[l].phase /\ s.heads = session[l].heads
      /\ s.replies = Less(session[l].replies, e)
      /\ s.wants = More(session[l].wants, missing)
  <2>1. Less(session[l].replies, e) \in [Event -> Nat]
    BY <1>1, <1>6, LessFacts
  <2>2. More(session[l].wants, missing) \in [Event -> Nat]
    BY <1>6, MoreFacts
  <2> QED
    BY <1>6, <1>7, <2>1, <2>2 DEF Session
<1>9. /\ \A f \in Event \ {e} : s.replies[f] = session[l].replies[f]
      /\ s.replies[e] <= session[l].replies[e]
  BY <1>1, <1>6, <1>8 DEF Less
<1>10. /\ \A f \in Event : session[l].wants[f] > 0 => s.wants[f] > 0
       /\ \A f \in missing : s.wants[f] > 0
  BY <1>4, <1>6, <1>8 DEF More
<1>11. session' \in [Link -> Session] /\ session'[l] = s
       /\ \A k \in Link \ {l} : session'[k] = session[k]
  BY <1>7, <1>8 DEF TypeOK, Session
<1>12. TypeOK'
  <2>1. store'[p] \in SUBSET Event /\ kept \in SUBSET Event
    BY <1>2, <1>3, <1>5 DEF kept
  <2>2. store' \in [Peer -> SUBSET Event] /\ pending' \in [Peer -> SUBSET Event]
    BY <1>1, <1>5, <2>1 DEF TypeOK
  <2> QED
    BY <1>1, <1>11, <2>2 DEF TypeOK, Session
<1>13. Bound'
  <2>1. l \in linked
    BY <1>1, InUse
  <2>2. alive[p]
    BY <1>0, <2>1 DEF Bound
  <2> QED
    BY <1>1, <1>5, <1>11, <2>1, <2>2 DEF Bound
<1>14. Histories'
  BY <1>2, <1>5 DEF Histories
<1>15. Held'
  <2>1. \A r \in Peer : pending'[r] \subseteq UNION {store'[t] : t \in Peer}
    BY <1>2, <1>5 DEF Held, kept
  <2>2. \A k \in Link : k[2] \in Peer /\ session'[k].heads = session[k].heads
    BY <1>8, <1>11 DEF Link
  <2>3. ASSUME NEW k \in Link, NEW f \in Event, session'[k].replies[f] > 0
        PROVE  f \in store'[k[2]]
    <3>1. session[k].replies[f] > 0
      BY <1>1, <1>9, <1>11, <2>3
    <3> QED
      BY <1>5, <2>2, <3>1 DEF Held
  <2>4. \A k \in Link : session'[k].heads \subseteq store'[k[2]]
    BY <1>5, <2>2 DEF Held
  <2> QED
    BY <2>1, <2>3, <2>4 DEF Held
<1>16. PendingWaits'
  <2> SUFFICES ASSUME NEW r \in Peer
               PROVE  /\ pending'[r] \cap store'[r] = {}
                      /\ Insertable(store'[r], pending'[r]) = {}
    BY DEF PendingWaits, Insertable
  <2>1. CASE r = p
    <3>1. pending'[p] \cap store'[p] = {}
      BY <1>3, <1>5 DEF PendingWaits, kept
    <3>2. Insertable(store[p] \cup got, B \ got) = {}
      BY <1>2, InsertableIsAll
    <3> QED
      BY <1>5, <2>1, <3>1, <3>2 DEF kept
  <2>2. CASE r # p
    BY <1>5, <2>2 DEF PendingWaits
  <2> QED
    BY <2>1, <2>2
<1>17. Sought'
  <2> SUFFICES ASSUME NEW r \in Peer, clean[r]
               PROVE  SoughtBy(r)'
    BY <1>1 DEF Sought
  <2>1. SoughtBy(r)
    BY DEF Sought
  <2>2. ASSUME NEW f \in Event, OnItsWay(r, f)
        PROVE  OnItsWay(r, f)' \/ (r = p /\ f = e)
    <3>1. PICK k \in Link : /\ k[1] = r /\ f \in store[k[2]]
                            /\ session[k].wants[f] > 0 \/ session[k].replies[f] > 0
      BY <2>2 DEF OnItsWay
    <3>2. k[2] \in Peer /\ f \in store'[k[2]]
      BY <1>5, <3>1 DEF Link
    <3>3. CASE k = l
      <4>1. f # e => session'[k].wants[f] > 0 \/ session'[k].replies[f] > 0
        BY <1>9, <1>10, <1>11, <3>1, <3>3
      <4> QED
        BY <1>0, <3>1, <3>2, <3>3, <4>1 DEF OnItsWay
    <3>4. CASE k # l
      BY <1>11, <3>1, <3>2, <3>4 DEF OnItsWay
    <3> QED
      BY <3>3, <3>4
  <2>3. e \in store'[p] \cup pending'[p]
    BY <1>3, <1>5 DEF kept
  <2>4. store[r] \cup pending[r] \subseteq store'[r] \cup pending'[r]
    <3>1. pending[p] \subseteq got \cup kept
      BY <1>3 DEF kept
    <3> QED
      BY <1>5, <3>1
  <2>5. ASSUME NEW k \in Link, k[1] = r, session'[k].phase = "told",
               NEW h \in session'[k].heads
        PROVE  h \in store'[r] \cup pending'[r] \/ OnItsWay(r, h)'
    <3>1. session[k].phase = "told" /\ h \in session[k].heads /\ h \in Event
      BY <1>8, <1>11, <2>5 DEF Session
    <3> QED
      BY <2>1, <2>2, <2>3, <2>4, <2>5, <3>1 DEF SoughtBy
  <2>6. ASSUME NEW m \in Missing(store'[r], pending'[r])
        PROVE  OnItsWay(r, m)'
    <3>1. CASE r # p
      <4>1. m \in Missing(store[r], pending[r]) /\ m \in Event
        <5>1. pending[r] \in SUBSET Event
          BY DEF TypeOK
        <5>2. m \in Missing(store[r], pending[r])
          BY <1>5, <2>6, <3>1
        <5> QED
          BY <5>1, <5>2, MissingFacts
      <4> QED
        BY <2>1, <2>2, <3>1, <4>1 DEF SoughtBy
    <3>2. CASE r = p
      <4>1. m \in missing /\ m \in Event /\ m \notin store'[p] \cup pending'[p]
        <5>1. m \in missing
          BY <1>5, <2>6, <3>2 DEF missing
        <5>2. m \notin (store[p] \cup got) \cup kept
          BY <5>1 DEF missing, Missing
        <5> QED
          BY <1>4, <1>5, <5>1, <5>2
      <4>2. PICK b \in kept : m \in Parents[b]
        BY <4>1 DEF missing, Missing
      <4>3. CASE b = e
        <5>1. m \in store'[q] /\ session'[l].wants[m] > 0
          BY <1>2, <1>5, <1>10, <1>11, <4>1, <4>2, <4>3
        <5> QED
          BY <1>0, <3>2, <5>1 DEF OnItsWay
      <4>4. CASE b # e
        <5>1. b \in pending[p]
          BY <1>3, <4>2, <4>4 DEF kept
        <5>2. m \in Missing(store[p], pending[p])
          <6>1. m \notin store[p] \cup pending[p]
            BY <2>4, <3>2, <4>1
          <6>2. pending[p] \in SUBSET Event
            BY <1>3
          <6>3. \E c \in pending[p] : m \in Parents[c]
            BY <4>2, <5>1
          <6>4. \A x : x \in Missing(store[p], pending[p])
                       <=> /\ x \notin store[p] \cup pending[p]
                           /\ \E c \in pending[p] : x \in Parents[c]
            BY DEF Missing
          <6> QED
            BY <6>1, <6>3, <6>4
        <5> QED
          BY <2>1, <2>2, <2>3, <3>2, <4>1, <5>2 DEF SoughtBy
      <4> QED
        BY <4>3, <4>4
    <3> QED
      BY <3>1, <3>2
  <2> QED
    BY <2>5, <2>6 DEF SoughtBy, Missing
<1> QED
  BY <1>12, <1>13, <1>14, <1>15, <1>16, <1>17

----------------------------------------------------------------------------
\* The other steps, and the theorems

LEMMA StartIInv ==
    ASSUME IInv, NEW p \in Peer, Start(p)
    PROVE  IInv'
<1> USE DEF IInv
<1>1. /\ UNCHANGED <<store, pending, linked, session, faults>>
      /\ alive' = [alive EXCEPT ![p] = TRUE]
      /\ clean' = [clean EXCEPT ![p] = TRUE]
      /\ ~alive[p]
  BY DEF Start
<1>2. TypeOK' /\ Histories' /\ Held' /\ PendingWaits'
  BY <1>1 DEF TypeOK, Histories, Held, PendingWaits
<1>3. Bound'
  <2>1. \A l \in linked : l[1] \in Peer /\ l[2] \in Peer
    BY DEF TypeOK, Link
  <2> QED
    BY <1>1, <2>1 DEF TypeOK, Bound
<1>4. ASSUME NEW r \in Peer
      PROVE  SoughtBy(r)' = SoughtBy(r)
  BY <1>1 DEF SoughtBy, OnItsWay
<1>5. SoughtBy(p)
  <2>1. \A l \in Link : l[1] = p => session[l] = Idle
    BY <1>1 DEF Bound
  <2>2. pending[p] = {}
    BY <1>1 DEF Bound
  <2> QED
    BY <2>1, <2>2, IdleFacts DEF SoughtBy, Missing
<1>6. Sought'
  BY <1>1, <1>4, <1>5 DEF Sought, TypeOK
<1> QED
  BY <1>2, <1>3, <1>6

LEMMA ConnectIInv ==
    ASSUME IInv, NEW p \in Peer, NEW q \in Peer, Connect(p, q)
    PROVE  IInv'
<1> USE DEF IInv
<1>1. /\ UNCHANGED <<store, pending, alive, session, clean, faults>>
      /\ linked' = linked \cup {<<p, q>>, <<q, p>>}
      /\ alive[p] /\ alive[q] /\ <<p, q>> \in Link
  BY DEF Connect
<1>2. <<q, p>> \in Link
  BY <1>1 DEF Link
<1>3. TypeOK' /\ Histories' /\ Held' /\ PendingWaits'
  <2>1. TypeOK'
    BY <1>1, <1>2 DEF TypeOK
  <2> QED
    BY <1>1, <2>1 DEF Histories, Held, PendingWaits
<1>4. Bound'
  BY <1>1 DEF Bound
<1>5. Sought'
  <2>1. \A r \in Peer : SoughtBy(r)' = SoughtBy(r)
    BY <1>1 DEF SoughtBy, OnItsWay
  <2> QED
    BY <1>1, <2>1 DEF Sought
<1> QED
  BY <1>3, <1>4, <1>5

\* A new event, of the person at p or of somebody who joins there.  Nobody holds
\* it, so nothing that waits can have waited for it.
LEMMA CreateIInv ==
    ASSUME IInv, NEW p \in Peer, NEW e \in Own, Create(p, e),
           UNCHANGED <<pending, alive, linked, session, clean, faults>>
    PROVE  IInv'
<1> USE DEF IInv
<1>1. /\ UNCHANGED <<pending, alive, linked, session, clean, faults>>
      /\ store' = [store EXCEPT ![p] = @ \cup {e}]
      /\ \A q \in Peer : e \notin store[q]
      /\ Parents[e] \subseteq store[p]
  BY DEF Create
<1>2. /\ store'[p] = store[p] \cup {e}
      /\ \A r \in Peer \ {p} : store'[r] = store[r]
      /\ \A r \in Peer : store[r] \subseteq store'[r]
  BY <1>1 DEF TypeOK
<1>3. e \in Event
  BY DEF Own
<1>4. TypeOK'
  BY <1>1, <1>3 DEF TypeOK
<1>5. Bound'
  BY <1>1 DEF Bound
<1>6. Histories'
  <2>1. store[p] \cup {e} \in History
    BY <1>1 DEF Histories, History, ParentClosed
  <2> QED
    BY <1>2, <2>1 DEF Histories
<1>7. Held'
  <2>1. \A l \in Link : l[2] \in Peer
    BY DEF Link
  <2> QED
    BY <1>1, <1>2, <2>1 DEF Held
<1>8. \A r \in Peer : \A f \in pending[r] : f # e /\ e \notin Parents[f]
  <2> SUFFICES ASSUME NEW r \in Peer, NEW f \in pending[r]
               PROVE  f # e /\ e \notin Parents[f]
    OBVIOUS
  <2>1. PICK q \in Peer : f \in store[q]
    BY DEF Held
  <2>2. Parents[f] \subseteq store[q]
    BY <2>1 DEF Histories, History, ParentClosed
  <2> QED
    BY <1>1, <2>1, <2>2
<1>9. PendingWaits'
  <2> SUFFICES ASSUME NEW r \in Peer
               PROVE  /\ pending'[r] \cap store'[r] = {}
                      /\ Insertable(store'[r], pending'[r]) = {}
    BY DEF PendingWaits, Insertable
  <2>1. store'[r] \subseteq store[r] \cup {e}
    BY <1>2
  <2>2. pending'[r] \cap store'[r] = {}
    BY <1>1, <1>8, <2>1 DEF PendingWaits
  <2>3. ASSUME NEW S \in SUBSET pending[r], \A f \in S : Parents[f] \subseteq store'[r] \cup S
        PROVE  S = {}
    <3>1. \A f \in S : Parents[f] \subseteq store[r] \cup S
      BY <1>8, <2>1, <2>3
    <3>2. S \subseteq Insertable(store[r], pending[r])
      BY <3>1 DEF Insertable
    <3> QED
      BY <3>2 DEF PendingWaits
  <2>4. Insertable(store'[r], pending[r]) = {}
    BY <2>3 DEF Insertable
  <2> QED
    BY <1>1, <2>2, <2>4
<1>10. Sought'
  <2> SUFFICES ASSUME NEW r \in Peer, clean[r]
               PROVE  SoughtBy(r)'
    BY <1>1 DEF Sought
  <2>1. SoughtBy(r)
    BY DEF Sought
  <2>2. ASSUME NEW f, OnItsWay(r, f)
        PROVE  OnItsWay(r, f)'
    <3>1. PICK l \in Link : /\ l[1] = r /\ f \in store[l[2]]
                            /\ session[l].wants[f] > 0 \/ session[l].replies[f] > 0
      BY <2>2 DEF OnItsWay
    <3>2. f \in store'[l[2]]
      BY <1>2, <3>1 DEF Link
    <3> QED
      BY <1>1, <3>1, <3>2 DEF OnItsWay
  <2>3. \A l \in Link : l[1] = r /\ session'[l].phase = "told" =>
            \A h \in session'[l].heads : h \in store'[r] \cup pending'[r] \/ OnItsWay(r, h)'
    BY <1>1, <1>2, <2>1, <2>2 DEF SoughtBy
  <2>4. ASSUME NEW m \in Missing(store'[r], pending'[r])
        PROVE  OnItsWay(r, m)'
    <3>1. m \in Missing(store[r], pending[r])
      BY <1>1, <1>2, <2>4 DEF Missing
    <3> QED
      BY <2>1, <2>2, <3>1 DEF SoughtBy
  <2> QED
    BY <2>3, <2>4 DEF SoughtBy, Missing
<1> QED
  BY <1>4, <1>5, <1>6, <1>7, <1>9, <1>10

\* An error or a fault that ends a process without storing anything.
LEMMA EndIInv ==
    ASSUME IInv, NEW p \in Peer, Exit(p), UNCHANGED store, faults' \in [FaultKind -> Nat]
    PROVE  IInv'
<1>1. PICK S \in History : S = store[p]
  BY DEF IInv, Histories
<1>2. store' = [store EXCEPT ![p] = S]
  BY <1>1 DEF IInv, TypeOK
<1> QED
  BY <1>1, <1>2, ExitIInv

LEMMA NextIInv == IInv /\ [Next]_vars => IInv'
<1> SUFFICES ASSUME IInv, [Next]_vars
             PROVE  IInv'
  OBVIOUS
<1>1. ASSUME NEW p \in Peer, Start(p)
      PROVE  IInv'
  BY <1>1, StartIInv
<1>2. ASSUME NEW p \in Peer, Stop(p)
      PROVE  IInv'
  <2>1. faults' \in [FaultKind -> Nat]
    BY <1>2, FaultType DEF Stop, FaultKind, IInv
  <2> QED
    BY <1>2, <2>1, EndIInv DEF Stop
<1>3. ASSUME NEW p \in Peer, NEW e \in Own, Author(p, e) \/ Redeem(p, e)
      PROVE  IInv'
  BY <1>3, CreateIInv DEF Author, Redeem
<1>4. ASSUME NEW p \in Peer, NEW q \in Peer, Connect(p, q)
      PROVE  IInv'
  BY <1>4, ConnectIInv
<1>5. ASSUME NEW l \in Link, Disconnect(l)
      PROVE  IInv'
  BY <1>5, DisconnectIInv
<1>6. ASSUME NEW l \in Link, StartSync(l) \/ HandleHello(l) \/ LoseHello(l)
      PROVE  IInv'
  BY <1>6, AskIInv
<1>7. ASSUME NEW l \in Link, ReceiveHeads(l)
      PROVE  IInv'
  BY <1>7, ReceiveHeadsIInv
<1>8. ASSUME NEW l \in Link, NEW e \in Event,
             HandleWant(l, e) \/ LoseWant(l, e) \/ LoseReply(l, e)
      PROVE  IInv'
  BY <1>8, HandleWantIInv
<1>9. ASSUME NEW l \in Link, NEW e \in Event, Receive(l, e)
      PROVE  IInv'
  BY <1>9, OverflowIInv, ReceiveIInv
<1>10. ASSUME NEW l \in Link, NEW e \in Event, ReceiveRejected(l) \/ ReceiveRefused(l, e)
       PROVE  IInv'
  <2>1. l[1] \in Peer /\ faults' \in [FaultKind -> Nat]
    BY <1>10 DEF Link, ReceiveRejected, ReceiveRefused, IInv, TypeOK
  <2> QED
    BY <1>10, <2>1, EndIInv DEF ReceiveRejected, ReceiveRefused
<1>11. CASE UNCHANGED vars
  BY <1>11 DEF vars, IInv, TypeOK, Bound, Histories, Held, PendingWaits, Sought, SoughtBy,
               OnItsWay
<1> QED
  BY <1>1, <1>2, <1>3, <1>4, <1>5, <1>6, <1>7, <1>8, <1>9, <1>10, <1>11, CommunityAssumption
     DEF Next, Answer

LEMMA SpecIInv == Spec => []IInv
BY InitIInv, NextIInv, PTL DEF Spec

(***************************************************************************)
(* The variables of the protocol keep their types, in particular no count  *)
(* of messages on their way becomes negative.                              *)
(***************************************************************************)
THEOREM TypeCorrect == Spec => []TypeOK
<1>1. IInv => TypeOK
  BY DEF IInv
<1> QED
  BY SpecIInv, <1>1, PTL

(***************************************************************************)
(* Whatever order the replies come in, accept leaves no event in memory    *)
(* that it could have stored.                                              *)
(***************************************************************************)
THEOREM PendingAlwaysWaits == Spec => []PendingWaits
<1>1. IInv => PendingWaits
  BY DEF IInv
<1> QED
  BY SpecIInv, <1>1, PTL

(***************************************************************************)
(* Once all requests of a process that lost nothing are answered, it holds *)
(* every head it was told of: with nothing on its way no pending event     *)
(* misses a parent, so they could all be stored, so there is none.         *)
(***************************************************************************)
THEOREM QuietAlwaysComplete == Spec => []QuietIsComplete
<1>1. IInv => QuietIsComplete
  <2> SUFFICES ASSUME IInv, NEW l \in Link, clean[l[1]], Quiet(l[1]),
                      session[l].phase = "told"
               PROVE  session[l].heads \subseteq store[l[1]]
    BY DEF QuietIsComplete
  <2> DEFINE p == l[1]
  <2>1. p \in Peer /\ SoughtBy(p)
    BY DEF Link, IInv, Sought
  <2>2. \A e \in Event : ~OnItsWay(p, e)
    BY DEF OnItsWay, Quiet, Busy
  <2>3. pending[p] \in SUBSET Event
    BY <2>1 DEF IInv, TypeOK
  <2>4. Missing(store[p], pending[p]) = {}
    <3>1. Missing(store[p], pending[p]) \subseteq Event
      BY <2>3, MissingFacts
    <3> QED
      BY <2>1, <2>2, <3>1 DEF SoughtBy
  <2>5. \A e \in pending[p] : Parents[e] \subseteq store[p] \cup pending[p]
    BY <2>4 DEF Missing
  <2>6. pending[p] \subseteq Insertable(store[p], pending[p])
    BY <2>5 DEF Insertable
  <2>7. pending[p] = {}
    BY <2>1, <2>6 DEF IInv, PendingWaits
  <2>8. session[l].heads \subseteq Event
    BY DEF IInv, TypeOK
  <2> QED
    BY <2>1, <2>2, <2>7, <2>8 DEF SoughtBy
<1> QED
  BY SpecIInv, <1>1, PTL

LEMMA ReceiveCopies ==
    ASSUME IInv, NEW l \in Link, NEW e \in Event, Receive(l, e)
    PROVE  RNext
<1>1. session[l].replies[e] > 0
      /\ store' = [store EXCEPT ![l[1]] = @ \cup Ingested(l[1], e)]
  BY DEF Receive
<1>2. l[1] \in Peer
  BY DEF Link
<1> DEFINE S == store[l[1]] \cup Ingested(l[1], e)
<1>3. S \in History /\ Ingested(l[1], e) \subseteq UNION {store[q] : q \in Peer}
  BY <1>1, IngestedFacts
<1>4. Copy(l[1], S)
  BY <1>1, <1>2, <1>3 DEF Copy
<1> QED
  BY <1>2, <1>3, <1>4 DEF RNext

(***************************************************************************)
(* The protocol implements the abstract replication: in every step, faults *)
(* and exits included, the stores stay or one of them takes over a closed  *)
(* set of events other peers hold, or its owner creates an event.          *)
(***************************************************************************)
THEOREM Refinement == Spec => Replicates
<1>1. Init => RInit
  BY DEF Init
<1>2. IInv /\ [Next]_vars => [RNext]_store
  <2> SUFFICES ASSUME IInv, [Next]_vars, store' # store
               PROVE  RNext
    OBVIOUS
  <2>1. CASE \E p \in Peer, e \in Own : Author(p, e) \/ Redeem(p, e)
    BY <2>1 DEF Author, Redeem, RNext
  <2>2. CASE \E l \in Link, e \in Event : Receive(l, e)
    BY <2>2, ReceiveCopies
  <2>3. CASE /\ ~\E p \in Peer, e \in Own : Author(p, e) \/ Redeem(p, e)
             /\ ~\E l \in Link, e \in Event : Receive(l, e)
    BY <2>3 DEF Next, Answer, Start, Stop, Connect, Disconnect, StartSync, HandleHello,
                ReceiveRejected, ReceiveHeads, HandleWant, ReceiveRefused, LoseHello,
                LoseWant, LoseReply, vars
  <2> QED
    BY <2>1, <2>2, <2>3
<1> QED
  BY SpecIInv, <1>1, <1>2, PTL DEF Spec, Replicates, RSpec

----------------------------------------------------------------------------
\* What a step adds

\* No more events wait than may.
FewWait == \A p \in Peer : Cardinality(pending[p]) <= MaxPending

\* What a step does to the bytes and the waiting events of p.
Budget(p) ==
    /\ Cardinality(pending'[p]) <= MaxPending
    /\ Usage(p)' <= Quota[p] \/ Usage(p)' <= Usage(p) \/ \E e \in Own : Redeem(p, e)
       \/ ~alive[p]

\* The events a process may take in with the next reply.
LEMMA BatchFacts ==
    ASSUME IInv, NEW p \in Peer, NEW e \in Event
    PROVE  /\ Batch(p, e) \in SUBSET Event /\ store[p] \in SUBSET Event
           /\ Batch(p, e) \cap store[p] = {}
           /\ Ingested(p, e) \subseteq Batch(p, e)
<1>1. store[p] \in SUBSET Event /\ pending[p] \in SUBSET Event
  BY DEF IInv, TypeOK
<1>2. pending[p] \cap store[p] = {}
  BY DEF IInv, PendingWaits
<1>3. Batch(p, e) \in SUBSET Event /\ Batch(p, e) \cap store[p] = {}
  BY <1>1, <1>2 DEF Batch, Unknown
<1>4. Ingested(p, e) \subseteq Batch(p, e)
  BY InsertableSubset DEF Ingested
<1> QED
  BY <1>1, <1>3, <1>4

\* Nothing waits: no bytes, no events.
LEMMA NoneWait ==
    ASSUME IInv, NEW p \in Peer, UNCHANGED store[p], pending'[p] = {}
    PROVE  Budget(p)
<1>1. Cardinality({}) = 0 /\ Size({}) = 0 /\ MaxPending \in Nat
  BY FS_EmptySet, SizeOne, LimitAssumption
<1>2. Size(store[p]) \in Nat /\ Size(pending[p]) \in Nat
  BY SizeOne DEF IInv, TypeOK
<1>3. Usage(p)' = Size(store[p]) + 0
  BY <1>1 DEF Usage
<1> QED
  BY <1>1, <1>2, <1>3 DEF Budget, Usage

\* p is left alone.
LEMMA NoChange ==
    ASSUME IInv, FewWait, NEW p \in Peer, UNCHANGED <<store[p], pending[p]>>
    PROVE  Budget(p)
<1>1. Size(store[p]) \in Nat /\ Size(pending[p]) \in Nat
  BY SizeOne DEF IInv, TypeOK
<1>2. Usage(p)' = Usage(p)
  BY DEF Usage
<1> QED
  BY <1>1, <1>2 DEF Budget, Usage, FewWait

\* What accept stores and keeps is what it had counted.
LEMMA ReceiveBudget ==
    ASSUME IInv, FewWait, NEW l \in Link, NEW e \in Event, Receive(l, e), NEW p \in Peer
    PROVE  Budget(p)
<1>1. l[1] \in Peer
  BY DEF Link
<1>2. CASE p # l[1]
  <2>1. UNCHANGED <<store[p], pending[p]>>
    BY <1>1, <1>2 DEF Receive, Exit, IInv, TypeOK
  <2> QED
    BY <2>1, NoChange
<1>3. CASE p = l[1]
  <2>1. PICK S \in SUBSET Event, B \in SUBSET Event, got \in SUBSET Event :
            /\ S = store[p] /\ B = Batch(p, e) /\ got = Ingested(p, e)
            /\ B \cap S = {} /\ got \subseteq B
    BY BatchFacts
  <2>2. Cardinality(B) <= MaxPending /\ Size(S) + Size(B) <= Quota[p]
    <3>1. ~Refused(p, e)
      BY <1>3 DEF Receive
    <3>2. IsFiniteSet(B)
      BY FiniteAssumption, FS_Subset
    <3>3. Cardinality(B) \in Nat /\ Size(S) \in Nat /\ Size(B) \in Nat
          /\ Quota[p] \in Nat /\ MaxPending \in Nat
      BY <3>2, FS_CardinalityType, SizeOne, QuotaAssumption, LimitAssumption
    <3> QED
      BY <2>1, <3>1, <3>3 DEF Refused
  <2>3. store'[p] = S \cup got
    BY <1>3, <2>1 DEF Receive, IInv, TypeOK
  <2>4. PICK W \in SUBSET (B \ got) : pending'[p] = W
    BY <1>3, <2>1 DEF Receive, Exit, IInv, TypeOK
  <2>5. Cardinality(W) <= MaxPending
    <3>1. IsFiniteSet(B) /\ W \subseteq B
      BY FiniteAssumption, FS_Subset
    <3>2. Cardinality(W) <= Cardinality(B) /\ Cardinality(W) \in Nat /\ Cardinality(B) \in Nat
      BY <3>1, FS_Subset, FS_CardinalityType
    <3> QED
      BY <2>2, <3>2, LimitAssumption
  <2>6. Usage(p)' <= Quota[p]
    <3>1. Usage(p)' = Size(S \cup got) + Size(W)
      BY <2>3, <2>4 DEF Usage
    <3>2. PICK R \in SUBSET Event, Rest \in SUBSET Event :
              R = B \ got /\ Rest = R \ W
      OBVIOUS
    <3>3. got \in SUBSET Event /\ S \cap got = {} /\ got \cap R = {} /\ got \cup R = B
          /\ W \in SUBSET Event /\ W \cap Rest = {} /\ W \cup Rest = R
      BY <2>1, <2>4, <3>2
    <3>4. Size(S \cup got) = Size(S) + Size(got) /\ Size(B) = Size(got) + Size(R)
          /\ Size(R) = Size(W) + Size(Rest)
      BY <3>3, SizeOfBoth
    <3>5. Size(S) \in Nat /\ Size(got) \in Nat /\ Size(R) \in Nat /\ Size(W) \in Nat
          /\ Size(Rest) \in Nat /\ Quota[p] \in Nat
      BY <3>3, SizeOne, QuotaAssumption
    <3> QED
      BY <2>2, <3>1, <3>4, <3>5
  <2> QED
    BY <2>4, <2>5, <2>6 DEF Budget
<1> QED
  BY <1>2, <1>3

LEMMA NextBudget ==
    ASSUME IInv, FewWait, Next, NEW p \in Peer
    PROVE  Budget(p)
<1>1. ASSUME NEW q \in Peer, NEW e \in Own, Author(q, e)
      PROVE  Budget(p)
  <2>1. CASE p = q
    <3>1. UNCHANGED pending /\ ~alive[p]
      BY <1>1, <2>1 DEF Author
    <3> QED
      BY <3>1 DEF Budget, FewWait
  <2>2. CASE p # q
    <3>1. UNCHANGED <<store[p], pending[p]>>
      BY <1>1, <2>2 DEF Author, Create, IInv, TypeOK
    <3> QED
      BY <3>1, NoChange
  <2> QED
    BY <2>1, <2>2
<1>2. ASSUME NEW q \in Peer, NEW e \in Own, Redeem(q, e)
      PROVE  Budget(p)
  <2>1. CASE p = q
    <3>1. UNCHANGED pending
      BY <1>2 DEF Redeem
    <3> QED
      BY <1>2, <2>1, <3>1 DEF Budget, FewWait
  <2>2. CASE p # q
    <3>1. UNCHANGED <<store[p], pending[p]>>
      BY <1>2, <2>2 DEF Redeem, Create, IInv, TypeOK
    <3> QED
      BY <3>1, NoChange
  <2> QED
    BY <2>1, <2>2
<1>3. ASSUME NEW q \in Peer, Exit(q), UNCHANGED store
      PROVE  Budget(p)
  <2>1. CASE p = q
    <3>1. pending'[p] = {} /\ UNCHANGED store[p]
      BY <1>3, <2>1 DEF Exit, IInv, TypeOK
    <3> QED
      BY <3>1, NoneWait
  <2>2. CASE p # q
    <3>1. UNCHANGED <<store[p], pending[p]>>
      BY <1>3, <2>2 DEF Exit, IInv, TypeOK
    <3> QED
      BY <3>1, NoChange
  <2> QED
    BY <2>1, <2>2
<1>4. ASSUME UNCHANGED <<store, pending>>
      PROVE  Budget(p)
  <2>1. UNCHANGED <<store[p], pending[p]>>
    BY <1>4
  <2> QED
    BY <2>1, NoChange
<1>5. ASSUME NEW l \in Link, NEW e \in Event, Receive(l, e)
      PROVE  Budget(p)
  BY <1>5, ReceiveBudget
<1>6. ASSUME NEW l \in Link PROVE l[1] \in Peer
  BY DEF Link
<1> QED
  BY <1>1, <1>2, <1>3, <1>4, <1>5, <1>6
     DEF Next, Answer, Start, Stop, Connect, Disconnect, StartSync, HandleHello,
         ReceiveRejected, ReceiveHeads, HandleWant, ReceiveRefused, LoseHello, LoseWant,
         LoseReply

(***************************************************************************)
(* Whoever sends what in which order, a process takes in nothing past its  *)
(* quota but the redemption of an invitation, and lets no more wait than   *)
(* it may: sizes of disjoint sets add up, so what accept stores and keeps  *)
(* weighs what it has counted before.                                      *)
(***************************************************************************)
THEOREM AlwaysWithinBudget == Spec => WithinBudget
<1>1. Init => FewWait
  <2>1. Cardinality({}) = 0 /\ MaxPending \in Nat
    BY FS_EmptySet, LimitAssumption
  <2> QED
    BY <2>1 DEF Init, FewWait
<1>2. IInv /\ FewWait /\ [Next]_vars => FewWait'
  <2>1. ASSUME IInv, FewWait, Next PROVE FewWait'
    BY <2>1, NextBudget DEF FewWait, Budget
  <2>2. ASSUME FewWait, UNCHANGED vars PROVE FewWait'
    BY <2>2 DEF FewWait, vars
  <2> QED
    BY <2>1, <2>2
<1>3. IInv /\ FewWait /\ [Next]_vars =>
        [\A p \in Peer :
          /\ Cardinality(pending'[p]) <= MaxPending
          /\ Usage(p)' <= Quota[p] \/ Usage(p)' <= Usage(p) \/ \E e \in Own : Redeem(p, e)
             \/ ~alive[p]]_vars
  <2>1. ASSUME IInv, FewWait, Next, NEW p \in Peer PROVE Budget(p)
    BY <2>1, NextBudget
  <2> QED
    BY <2>1 DEF Budget
<1> QED
  BY SpecIInv, <1>1, <1>2, <1>3, PTL DEF Spec, WithinBudget
=============================================================================
