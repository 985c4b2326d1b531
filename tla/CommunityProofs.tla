-------------------------- MODULE CommunityProofs ---------------------------
(***************************************************************************)
(* For every set of events and users, whatever they say: the ancestry that *)
(* a joiner is sent vouches for the endpoint of the code it was given.     *)
(* The rules of the chat profile are here an instance with the parents as  *)
(* a parameter, since parents are what the heads were when an event was    *)
(* made.  What resolve returns is shown to be a state of a community, to   *)
(* depend on nothing but the parents of the events it is given, and to be  *)
(* Judge's verdict on the last event when that is on top of all others.    *)
(*                                                                         *)
(* The last part is about communities that keep the people who join apart  *)
(* from the Home Server (Separate), for as long as no snapshot is          *)
(* restored: until then the replicas only ever hold histories of which     *)
(* resolve accepts everything.                                             *)
(***************************************************************************)
EXTENDS Community, Recursion

----------------------------------------------------------------------------
\* The rules of the chat profile, on any graph of events

Decoded(S) == {e \in S : Payload[e].kind # "other"}

State ==
    [community : Event \cup {None}, owner : User \cup {None},
     members : SUBSET User, administrators : SUBSET User, channels : SUBSET Channel,
     invitations : SUBSET Event, accepted_invitations : SUBSET Event,
     home_server : Event \cup {None}]

\* The administrators are members, and the Home Server was declared.
Sane ==
    {s \in State : /\ s.administrators \subseteq s.members
                   /\ s.home_server # None => Payload[s.home_server].kind = "home"}

\* What resolve may return of the events of S.
Outcome(par, S) ==
    {o \in [state : Sane, accepted : SUBSET S, rejected : SUBSET S] :
        \A e \in o.accepted : par[e] \subseteq S}

LEMMA ApplyType ==
    ASSUME NEW par, NEW s \in State, NEW e \in Event
    PROVE  Rules(par)!apply(s, e) \in State
<1> DEFINE kind == Payload[e].kind
<1> USE DEF Rules!apply, State
<1>0. Author[e] \in User
  BY AuthorAssumption
<1>1. CASE kind = "create"
  BY <1>0, <1>1
<1>2. CASE kind = "channel"
  BY <1>2, PayloadAssumption
<1>3. CASE kind = "invite"
  BY <1>3
<1>4. CASE kind = "accept"
  <2>1. Payload[e].subject \in Event
    BY <1>4, PayloadAssumption
  <2> QED
    BY <1>0, <1>4, <2>1
<1>5. CASE kind = "remove"
  BY <1>5 DEF Rules!without
<1>6. CASE kind = "grant"
  BY <1>6, PayloadAssumption
<1>7. CASE kind = "revoke"
  BY <1>7
<1>8. CASE kind = "transfer"
  <2>1. Payload[e].subject \in User
    BY <1>8, PayloadAssumption
  <2> QED
    BY <1>8, <2>1
<1>9. CASE kind = "home"
  BY <1>9
<1>10. CASE kind \in {"message", "other"}
  BY <1>10
<1> QED
  BY <1>1, <1>2, <1>3, <1>4, <1>5, <1>6, <1>7, <1>8, <1>9, <1>10, PayloadAssumption

\* An event that is permitted leaves a sane state sane.
LEMMA ApplySane ==
    ASSUME NEW par, NEW s \in Sane, NEW e \in Event, NEW accepted,
           Rules(par)!validate_context(s, e, accepted)
    PROVE  Rules(par)!apply(s, e) \in Sane
<1> DEFINE kind == Payload[e].kind
           t == Rules(par)!apply(s, e)
<1>0. s \in State /\ t \in State
  BY ApplyType DEF Sane
<1>1. t.administrators \subseteq t.members
  <2>1. CASE kind \in {"create", "remove", "revoke", "accept"}
    BY <1>0, <2>1 DEF Sane, State, Rules!apply, Rules!without
  <2>2. CASE kind \in {"grant", "transfer"}
    BY <1>0, <2>2 DEF Sane, State, Rules!apply, Rules!validate_context, Rules!permits
  <2>3. CASE kind \in {"channel", "invite", "message", "home", "other"}
    BY <1>0, <2>3 DEF Sane, State, Rules!apply
  <2> QED
    BY <2>1, <2>2, <2>3, PayloadAssumption
<1>2. t.home_server # None => Payload[t.home_server].kind = "home"
  <2>1. CASE kind = "home"
    BY <1>0, <2>1 DEF State, Rules!apply
  <2>2. CASE kind # "home"
    <3>1. t.home_server = s.home_server
      BY <1>0, <2>2, PayloadAssumption DEF State, Rules!apply, Rules!without
    <3> QED
      BY <3>1 DEF Sane
  <2> QED
    BY <2>1, <2>2
<1> HIDE DEF t
<1> QED
  BY <1>0, <1>1, <1>2 DEF Sane, t

LEMMA JudgeType ==
    ASSUME NEW par, NEW S \in SUBSET Event, NEW e \in S, NEW o \in Outcome(par, S)
    PROVE  Rules(par)!Judge(e, S, o) \in Outcome(par, S)
<1>1. o.state \in Sane /\ o.accepted \in SUBSET S /\ o.rejected \in SUBSET S
      /\ \A x \in o.accepted : par[x] \subseteq S
  BY DEF Outcome
<1>2. CASE /\ par[e] \subseteq S \ o.rejected
           /\ Rules(par)!validate_context(o.state, e, o.accepted)
  <2>1. PICK t : t = Rules(par)!apply(o.state, e)
    OBVIOUS
  <2>2. t \in Sane
    BY <1>1, <1>2, <2>1, ApplySane
  <2>3. Rules(par)!Judge(e, S, o) = [o EXCEPT !.state = t, !.accepted = @ \cup {e}]
    BY <1>2, <2>1 DEF Rules!Judge, Outcome
  <2>4. [o EXCEPT !.state = t, !.accepted = @ \cup {e}] \in Outcome(par, S)
    BY <1>1, <1>2, <2>2 DEF Outcome
  <2> QED
    BY <2>3, <2>4
<1>3. CASE ~(/\ par[e] \subseteq S \ o.rejected
             /\ Rules(par)!validate_context(o.state, e, o.accepted))
  <2>1. Rules(par)!Judge(e, S, o) = [o EXCEPT !.rejected = @ \cup {e}]
    BY <1>3 DEF Rules!Judge
  <2>2. [o EXCEPT !.rejected = @ \cup {e}] \in Outcome(par, S)
    BY <1>1 DEF Outcome
  <2> QED
    BY <2>1, <2>2
<1> QED
  BY <1>2, <1>3

----------------------------------------------------------------------------
\* The order of resolve and its fold

\* A graph of events.
Graph == {par \in [Event -> SUBSET Event] : Acyclic(par, Event)}

LEMMA Finite ==
    ASSUME NEW S \in SUBSET Event, NEW par \in Graph
    PROVE  IsFiniteSet(S) /\ Acyclic(par, S)
BY EventAssumption, FS_Subset DEF Graph, Acyclic

Precedes(par, depth, e, f) ==
    \/ depth[e] < depth[f]
    \/ depth[e] = depth[f] /\ Rules(par)!priority(e) < Rules(par)!priority(f)
    \/ depth[e] = depth[f] /\ Rules(par)!priority(e) = Rules(par)!priority(f) /\ e <= f

Last(par, depth, T) == CHOOSE f \in T : \A e \in T : Precedes(par, depth, e, f)

LEMMA PriorityType ==
    ASSUME NEW par, NEW oth, NEW e
    PROVE  Rules(par)!priority(e) \in Nat /\ Rules(par)!priority(e) = Rules(oth)!priority(e)
BY DEF Rules!priority

\* The last event of a set is the one that the others precede.
LEMMA LastIs ==
    ASSUME NEW par, NEW T \in SUBSET Event, T # {}, NEW depth, \A e \in T : depth[e] \in Nat
    PROVE  /\ Last(par, depth, T) \in T
           /\ \A e \in T : Precedes(par, depth, e, Last(par, depth, T))
           /\ \A f \in T : (\A e \in T : Precedes(par, depth, e, f)) =>
                 Last(par, depth, T) = f
<1>1. IsFiniteSet(T)
  BY EventAssumption, FS_Subset
<1>2. \A e \in T : depth[e] \in Nat /\ Rules(par)!priority(e) \in Nat /\ e \in Nat
  BY EventAssumption, PriorityType
<1> DEFINE before == {pair \in T \X T : Precedes(par, depth, pair[1], pair[2])}
<1>3. \A x, y \in T : <<x, y>> \in before <=> Precedes(par, depth, x, y)
  OBVIOUS
<1> HIDE DEF before
<1>4. /\ \A x, y \in T : <<x, y>> \in before \/ <<y, x>> \in before
      /\ \A x, y, z \in T : <<x, y>> \in before /\ <<y, z>> \in before => <<x, z>> \in before
  BY <1>2, <1>3 DEF Precedes
<1>5. PICK x \in T : \A y \in T : <<y, x>> \in before
  BY <1>1, <1>4, LastElement
<1>6. \E f \in T : \A e \in T : Precedes(par, depth, e, f)
  BY <1>3, <1>5
<1>7. PICK last : last = Last(par, depth, T)
  OBVIOUS
<1>8. last \in T /\ \A e \in T : Precedes(par, depth, e, last)
  BY <1>6, <1>7 DEF Last
<1>9. ASSUME NEW f \in T, \A e \in T : Precedes(par, depth, e, f)
      PROVE  last = f
  <2>1. Precedes(par, depth, last, f) /\ Precedes(par, depth, f, last)
    BY <1>8, <1>9
  <2> QED
    BY <1>2, <1>8, <2>1 DEF Precedes
<1> QED
  BY <1>7, <1>8, <1>9

Empty(par, S) ==
    [state |-> Rules(par)!EmptyState, accepted |-> {}, rejected |-> S \ Decoded(S)]

\* verdict[T]: what has become of the events of S when those of T are judged.
Judges(verdict, par, depth, S) ==
    verdict = [T \in SUBSET Decoded(S) |->
                  IF T = {} THEN Empty(par, S)
                  ELSE Rules(par)!Judge(Last(par, depth, T), S,
                                        verdict[T \ {Last(par, depth, T)}])]

LEMMA ResolveExpands ==
    \A par, S : Rules(par)!resolve(S) =
        (CHOOSE v : Judges(v, par, Rules(par)!Depth(Decoded(S)), S))[Decoded(S)]
BY DEF Rules!resolve, Rules!MapThenFoldSet, Rules!decode, Decoded, Judges, Empty, Last, Precedes

LEMMA DepthDeepens ==
    ASSUME NEW par \in Graph, NEW D \in SUBSET Event
    PROVE  Deepens(Rules(par)!Depth(D), par, D)
<1>1. PICK depth : depth = CHOOSE d : Deepens(d, par, D)
  OBVIOUS
<1>2. Deepens(depth, par, D)
  BY <1>1, Finite, DepthExists
<1>3. Rules(par)!Depth(D) = [e \in D |-> depth[e]]
  BY <1>1 DEF Rules!Depth, Deepens, Deeper
<1>4. depth = [e \in D |-> depth[e]]
  BY <1>2 DEF Deepens
<1> QED
  BY <1>2, <1>3, <1>4

LEMMA VerdictExists ==
    ASSUME NEW par \in Graph, NEW S \in SUBSET Event, NEW depth \in [Decoded(S) -> Nat]
    PROVE  \E v \in [SUBSET Decoded(S) -> Outcome(par, S)] : Judges(v, par, depth, S)
<1> DEFINE D == Decoded(S)
           O == Outcome(par, S)
           pick == [T \in SUBSET D |-> Last(par, depth, T)]
           op == [x \in D \X O |-> Rules(par)!Judge(x[1], S, x[2])]
<1>1. D \in SUBSET S /\ D \in SUBSET Event /\ IsFiniteSet(D)
  <2>1. D \in SUBSET Event /\ D \in SUBSET S
    BY DEF Decoded
  <2> HIDE DEF D
  <2> QED
    BY <2>1, Finite
<1>2. Empty(par, S) \in O
  BY DEF Empty, Outcome, Sane, State, Rules!EmptyState
<1>3. \A T \in SUBSET D : T # {} => pick[T] \in T
  BY <1>1, LastIs
<1>4. \A e \in D, o \in O : op[<<e, o>>] \in O
  <2>1. ASSUME NEW e \in D, NEW o \in O
        PROVE  op[<<e, o>>] \in O
    <3>1. op[<<e, o>>] = Rules(par)!Judge(e, S, o) /\ e \in S
      BY <1>1
    <3>2. Rules(par)!Judge(e, S, o) \in O
      BY <3>1, JudgeType
    <3> QED
      BY <3>1, <3>2
  <2> QED
    BY <2>1
<1>5. PICK f \in [SUBSET D -> O] : IsFold(f, D, Empty(par, S), pick, op)
  <2> HIDE DEF D, O, pick, op
  <2> QED
    BY <1>1, <1>2, <1>3, <1>4, FoldExists
<1>6. ASSUME NEW T \in SUBSET D
      PROVE  f[T] = IF T = {} THEN Empty(par, S)
                    ELSE Rules(par)!Judge(Last(par, depth, T), S, f[T \ {Last(par, depth, T)}])
  <2>1. f[T] = IF T = {} THEN Empty(par, S) ELSE op[<<pick[T], f[T \ {pick[T]}]>>]
    <3> HIDE DEF D, O, pick, op
    <3> QED
      BY <1>5 DEF IsFold
  <2>2. CASE T = {}
    BY <2>1, <2>2
  <2>3. CASE T # {}
    <3>1. PICK e : e = Last(par, depth, T)
      OBVIOUS
    <3>2. pick[T] = e /\ e \in D
      BY <1>1, <2>3, <3>1, LastIs
    <3>3. f[T \ {e}] \in O
      BY <1>5
    <3>4. op[<<e, f[T \ {e}]>>] = Rules(par)!Judge(e, S, f[T \ {e}])
      BY <3>2, <3>3
    <3> HIDE DEF D, O, pick, op
    <3> QED
      BY <2>1, <2>3, <3>1, <3>2, <3>4
  <2> QED
    BY <2>2, <2>3
<1>7. Judges(f, par, depth, S)
  BY <1>5, <1>6 DEF Judges
<1> QED
  BY <1>5, <1>7

\* Two graphs in which the events of D have the same parents, judged on what
\* they have in common: the verdicts are the same.
LEMMA VerdictUnique ==
    ASSUME NEW par, NEW oth, NEW S \in SUBSET Event, NEW R \in SUBSET Event,
           NEW D, D \subseteq Decoded(S), D \subseteq Decoded(R),
           NEW depth, \A e \in Decoded(S) : depth[e] \in Nat,
           NEW deoth, \A e \in Decoded(R) : deoth[e] \in Nat,
           \A e \in D : depth[e] = deoth[e],
           Empty(par, S) = Empty(oth, R),
           \A e \in D : \A o : Rules(par)!Judge(e, S, o) = Rules(oth)!Judge(e, R, o),
           NEW v, Judges(v, par, depth, S), NEW w, Judges(w, oth, deoth, R)
    PROVE  v[D] = w[D]
<1>0. D \in SUBSET Event /\ IsFiniteSet(D) /\ Decoded(S) \in SUBSET Event
      /\ Decoded(R) \in SUBSET Event
  <2>1. D \in SUBSET Event /\ Decoded(S) \in SUBSET Event /\ Decoded(R) \in SUBSET Event
    BY DEF Decoded
  <2> QED
    BY <2>1, EventAssumption, FS_Subset
<1> DEFINE X == {T \in SUBSET D : v[T] # w[T]}
<1>1. ASSUME X # {} PROVE FALSE
  <2>1. PICK T \in X : \A U \in X : U \subseteq T => U = T
    <3>1. X \in SUBSET SUBSET D
      OBVIOUS
    <3> HIDE DEF X
    <3> QED
      BY <1>0, <1>1, <3>1, LeastSubset
  <2>2. T \in SUBSET D /\ T \in SUBSET Decoded(S) /\ T \in SUBSET Decoded(R)
    BY <2>1
  <2>3. T # {}
    BY <2>1, <2>2 DEF Judges
  <2>4. PICK e : e = Last(par, depth, T)
    OBVIOUS
  <2>5. e \in T /\ e = Last(oth, deoth, T)
    <3>1. e \in T /\ \A x \in T : Precedes(par, depth, x, e)
      BY <1>0, <2>2, <2>3, <2>4, LastIs
    <3>2. \A x \in T : Precedes(oth, deoth, x, e)
      BY <2>2, <3>1, PriorityType DEF Precedes
    <3>3. Last(oth, deoth, T) = e
      BY <1>0, <2>2, <2>3, <3>1, <3>2, LastIs
    <3> QED
      BY <3>1, <3>3
  <2>6. v[T] = Rules(par)!Judge(e, S, v[T \ {e}])
    BY <2>2, <2>3, <2>4 DEF Judges
  <2>7. w[T] = Rules(oth)!Judge(e, R, w[T \ {e}])
    BY <2>2, <2>3, <2>5 DEF Judges
  <2>8. T \ {e} \notin X
    <3>1. T \ {e} \subseteq T /\ T \ {e} # T
      BY <2>5
    <3> HIDE DEF X
    <3> QED
      BY <2>1, <3>1
  <2>9. v[T \ {e}] = w[T \ {e}]
    BY <2>2, <2>8
  <2> QED
    BY <2>1, <2>2, <2>5, <2>6, <2>7, <2>9
<1> QED
  BY <1>1

----------------------------------------------------------------------------
\* What resolve returns

\* The depths and the verdicts with which resolve goes through S.
Resolves(depth, v, par, S) ==
    /\ depth \in [Decoded(S) -> Nat]
    /\ v \in [SUBSET Decoded(S) -> Outcome(par, S)]
    /\ Deepens(depth, par, Decoded(S))
    /\ Judges(v, par, depth, S)
    /\ Rules(par)!resolve(S) = v[Decoded(S)]

LEMMA ResolveIs ==
    ASSUME NEW par \in Graph, NEW S \in SUBSET Event
    PROVE  \E depth, v : Resolves(depth, v, par, S)
<1> DEFINE D == Decoded(S)
<1> HIDE DEF D
<1>1. D \in SUBSET Event /\ D = Decoded(S)
  BY DEF D, Decoded
<1>2. PICK depth : depth = Rules(par)!Depth(D)
  OBVIOUS
<1>3. Deepens(depth, par, D) /\ depth \in [D -> Nat]
  <2>1. Deepens(depth, par, D)
    BY <1>1, <1>2, DepthDeepens
  <2>2. IsFiniteSet(D) /\ Acyclic(par, D)
    BY <1>1, Finite
  <2> QED
    BY <2>1, <2>2, DepthFacts
<1>4. PICK v \in [SUBSET D -> Outcome(par, S)] : Judges(v, par, depth, S)
  BY <1>1, <1>3, VerdictExists
<1>5. PICK w : w = CHOOSE x : Judges(x, par, depth, S)
  OBVIOUS
<1>6. Judges(w, par, depth, S)
  BY <1>4, <1>5
<1>7. Rules(par)!resolve(S) = w[D]
  BY <1>1, <1>2, <1>5, ResolveExpands
<1>8. w[D] = v[D]
  BY <1>1, <1>3, <1>4, <1>6, VerdictUnique
<1>9. Resolves(depth, v, par, S)
  BY <1>1, <1>3, <1>4, <1>7, <1>8 DEF Resolves
<1> QED
  BY <1>9

LEMMA ResolveType ==
    ASSUME NEW par \in Graph, NEW S \in SUBSET Event
    PROVE  Rules(par)!resolve(S) \in Outcome(par, S)
<1>1. PICK depth, v : Resolves(depth, v, par, S)
  BY ResolveIs
<1>2. Decoded(S) \in SUBSET Decoded(S)
  OBVIOUS
<1> QED
  BY <1>1, <1>2 DEF Resolves

\* resolve looks at the parents of the events it is given.
LEMMA JudgeSame ==
    ASSUME NEW par, NEW oth, NEW e, par[e] = oth[e],
           NEW S, NEW R, S = R \/ par[e] \subseteq S \cap R
    PROVE  \A o : Rules(par)!Judge(e, S, o) = Rules(oth)!Judge(e, R, o)
<1> SUFFICES ASSUME NEW o
             PROVE  Rules(par)!Judge(e, S, o) = Rules(oth)!Judge(e, R, o)
  OBVIOUS
<1>1. Rules(par)!validate_context(o.state, e, o.accepted)
          <=> Rules(oth)!validate_context(o.state, e, o.accepted)
  BY DEF Rules!validate_context, Rules!CommunityField, Rules!IsGenesis, Rules!permits,
         Rules!require_admin, Rules!require_owner, Rules!redeemable, Rules!removable
<1>2. Rules(par)!apply(o.state, e) = Rules(oth)!apply(o.state, e)
  BY DEF Rules!apply, Rules!without
<1>3. par[e] \subseteq S \ o.rejected <=> oth[e] \subseteq R \ o.rejected
  OBVIOUS
<1> QED
  BY <1>1, <1>2, <1>3 DEF Rules!Judge

LEMMA ResolveSame ==
    ASSUME NEW par \in Graph, NEW oth \in Graph, NEW S \in SUBSET Event,
           \A e \in S : par[e] = oth[e]
    PROVE  Rules(par)!resolve(S) = Rules(oth)!resolve(S)
<1>1. PICK D : D = Decoded(S)
  OBVIOUS
<1>2. D \in SUBSET Event /\ D \subseteq S
  BY <1>1 DEF Decoded
<1>3. PICK depth, v :
          /\ depth \in [D -> Nat]
          /\ Deepens(depth, par, D)
          /\ Judges(v, par, depth, S)
          /\ Rules(par)!resolve(S) = v[D]
  <2>1. PICK depth, v : Resolves(depth, v, par, S)
    BY <1>1, ResolveIs
  <2> QED
    BY <1>1, <2>1 DEF Resolves
<1>4. PICK deoth, w :
          /\ deoth \in [D -> Nat]
          /\ Deepens(deoth, oth, D)
          /\ Judges(w, oth, deoth, S)
          /\ Rules(oth)!resolve(S) = w[D]
  <2>1. PICK deoth, w : Resolves(deoth, w, oth, S)
    BY <1>1, ResolveIs
  <2> QED
    BY <1>1, <2>1 DEF Resolves
<1>5. depth = deoth
  <2>1. \A e \in D : par[e] = oth[e]
    BY <1>2
  <2>2. Deepens(deoth, par, D)
    BY <1>4, <2>1 DEF Deepens
  <2> QED
    BY <1>2, <1>3, <2>2, Finite, DepthUnique
<1>6. \A e \in D : \A o : Rules(par)!Judge(e, S, o) = Rules(oth)!Judge(e, S, o)
  <2>1. \A e \in D : par[e] = oth[e]
    BY <1>2
  <2> QED
    BY <2>1, JudgeSame
<1>7. Empty(par, S) = Empty(oth, S)
  BY DEF Empty, Rules!EmptyState
<1>8. v[D] = w[D]
  <2>1. D \subseteq Decoded(S) /\ \A e \in Decoded(S) : depth[e] \in Nat /\ depth[e] = deoth[e]
    BY <1>1, <1>3, <1>5
  <2>2. Judges(v, par, depth, S) /\ Judges(w, oth, deoth, S)
    BY <1>3, <1>4
  <2> QED
    BY <1>1, <1>2, <1>5, <1>6, <1>7, <2>1, <2>2, VerdictUnique
<1> QED
  BY <1>3, <1>4, <1>8

\* Of any events some have no child among them.
LEMMA Topmost ==
    ASSUME NEW par \in Graph, NEW X \in SUBSET Event, X # {}
    PROVE  \E x \in X : \A y \in X : x \notin par[y]
<1>1. IsFiniteSet(X) /\ Acyclic(par, X)
  BY Finite
<1>2. PICK depth \in [X -> Nat] : Deepens(depth, par, X)
  BY <1>1, DepthExists
<1>3. \A y \in X : \A x \in par[y] \cap X : depth[x] < depth[y]
  BY <1>1, <1>2, DepthFacts
<1> DEFINE before == {pair \in X \X X : depth[pair[1]] <= depth[pair[2]]}
<1>4. \A x, y \in X : <<x, y>> \in before <=> depth[x] <= depth[y]
  OBVIOUS
<1> HIDE DEF before
<1>5. \A x \in X : depth[x] \in Nat
  OBVIOUS
<1>6. /\ \A x, y \in X : <<x, y>> \in before \/ <<y, x>> \in before
      /\ \A x, y, z \in X : <<x, y>> \in before /\ <<y, z>> \in before => <<x, z>> \in before
  BY <1>4, <1>5
<1>7. PICK x \in X : \A y \in X : <<y, x>> \in before
  BY <1>1, <1>6, LastElement
<1>8. ASSUME NEW y \in X, x \in par[y] PROVE FALSE
  <2>1. depth[x] < depth[y]
    BY <1>3, <1>8
  <2>2. depth[y] <= depth[x]
    BY <1>4, <1>7
  <2> QED
    BY <1>5, <2>1, <2>2
<1> QED
  BY <1>8

\* A history: the events are closed under their parents, and decode.
History(par, S) ==
    /\ S \in SUBSET Event
    /\ \A e \in S : par[e] \subseteq S /\ Payload[e].kind # "other"

HeadsOf(par, S) == S \ UNION {par[e] : e \in S}

\* oth is par with a new event on top of the heads of S.
OnTop(oth, par, S, e) ==
    /\ e \in Event \ S
    /\ Payload[e].kind # "other"
    /\ \A x \in S : oth[x] = par[x]
    /\ oth[e] = HeadsOf(par, S)

\* Such an event is judged last, on what resolve says of the others.
LEMMA ResolveGrows ==
    ASSUME NEW par \in Graph, NEW oth \in Graph, NEW S, History(par, S), NEW e,
           OnTop(oth, par, S, e)
    PROVE  Rules(oth)!resolve(S \cup {e}) =
              Rules(oth)!Judge(e, S \cup {e}, Rules(par)!resolve(S))
<1>1. S \in SUBSET Event /\ Decoded(S) = S /\ e \in Event /\ e \notin S
  BY DEF History, Decoded, OnTop
<1>2. PICK R : R = S \cup {e}
  OBVIOUS
<1>3. R \in SUBSET Event /\ Decoded(R) = R /\ S \in SUBSET R
  BY <1>1, <1>2 DEF Decoded, OnTop
<1>4. PICK depth, v :
          /\ depth \in [S -> Nat]
          /\ Deepens(depth, par, S)
          /\ Judges(v, par, depth, S)
          /\ Rules(par)!resolve(S) = v[S]
  <2>1. PICK depth, v : Resolves(depth, v, par, S)
    BY <1>1, ResolveIs
  <2> QED
    BY <1>1, <2>1 DEF Resolves
<1>5. PICK deoth, w :
          /\ deoth \in [R -> Nat]
          /\ Deepens(deoth, oth, R)
          /\ Judges(w, oth, deoth, R)
          /\ Rules(oth)!resolve(R) = w[R]
  <2>1. PICK deoth, w : Resolves(deoth, w, oth, R)
    BY <1>3, ResolveIs
  <2> QED
    BY <1>3, <2>1 DEF Resolves
<1>6. \A x \in S : oth[x] = par[x] /\ par[x] \subseteq S
  BY DEF OnTop, History
<1>7. \A x \in S : depth[x] = deoth[x]
  <2>1. PICK cut : cut = [x \in S |-> deoth[x]]
    OBVIOUS
  <2>2. ASSUME NEW x \in S
        PROVE  cut[x] = Deeper({cut[p] : p \in par[x] \cap S})
    <3>1. deoth[x] = Deeper({deoth[p] : p \in oth[x] \cap R})
      BY <1>3, <1>5 DEF Deepens
    <3>2. oth[x] \cap R = par[x] \cap S
      BY <1>2, <1>6
    <3>3. {deoth[p] : p \in par[x] \cap S} = {cut[p] : p \in par[x] \cap S}
      BY <2>1
    <3> QED
      BY <2>1, <3>1, <3>2, <3>3
  <2>3. Deepens(cut, par, S)
    BY <2>1, <2>2 DEF Deepens
  <2>4. depth = cut
    BY <1>1, <1>4, <2>3, Finite, DepthUnique
  <2> QED
    BY <2>1, <2>4
<1>8. \A x \in S : deoth[x] < deoth[e]
  <2>1. \A y \in R : \A x \in oth[y] \cap R : deoth[x] < deoth[y]
    BY <1>3, <1>5, Finite, DepthFacts
  <2>2. \A x \in R : deoth[x] \in Nat
    BY <1>5
  <2> DEFINE X == {x \in S : ~(deoth[x] < deoth[e])}
  <2>3. ASSUME X # {} PROVE FALSE
    <3>1. PICK x \in X : \A y \in X : x \notin par[y]
      <4>1. X \in SUBSET Event
        BY <1>1
      <4> HIDE DEF X
      <4> QED
        BY <2>3, <4>1, Topmost
    <3>2. x \notin oth[e]
      BY <1>2, <1>3, <2>1, <3>1
    <3>3. PICK y \in S : x \in par[y]
      BY <3>1, <3>2 DEF OnTop, HeadsOf
    <3>4. deoth[y] < deoth[e]
      BY <3>1, <3>3
    <3>5. deoth[x] < deoth[y]
      BY <1>2, <1>6, <2>1, <3>1, <3>3
    <3> QED
      BY <1>2, <2>2, <3>1, <3>3, <3>4, <3>5
  <2> QED
    BY <2>3
<1>9. Last(oth, deoth, R) = e
  <2>1. \A x \in R : Precedes(oth, deoth, x, e)
    <3>1. Precedes(oth, deoth, e, e)
      <4>1. e <= e
        BY <1>1, EventAssumption
      <4> QED
        BY <4>1 DEF Precedes
    <3>2. \A x \in S : Precedes(oth, deoth, x, e)
      BY <1>8 DEF Precedes
    <3> QED
      BY <1>2, <3>1, <3>2
  <2>2. e \in R /\ R # {} /\ \A x \in R : deoth[x] \in Nat
    BY <1>2, <1>5
  <2> QED
    BY <1>3, <2>1, <2>2, LastIs
<1>10. w[R] = Rules(oth)!Judge(e, R, w[S])
  <2>1. R \ {e} = S /\ R # {} /\ R \in SUBSET R
    BY <1>1, <1>2
  <2> QED
    BY <1>3, <1>5, <1>9, <2>1 DEF Judges
<1>11. v[S] = w[S]
  <2>1. Empty(par, S) = Empty(oth, R)
    BY <1>1, <1>3 DEF Empty, Rules!EmptyState
  <2>2. \A x \in S : \A o : Rules(par)!Judge(x, S, o) = Rules(oth)!Judge(x, R, o)
    <3>1. \A x \in S : par[x] = oth[x] /\ par[x] \subseteq S \cap R
      BY <1>2, <1>6
    <3> QED
      BY <3>1, JudgeSame
  <2>3. /\ S \subseteq Decoded(S) /\ \A x \in Decoded(S) : depth[x] \in Nat
        /\ S \subseteq Decoded(R) /\ \A x \in Decoded(R) : deoth[x] \in Nat
        /\ S \in SUBSET Event
    BY <1>1, <1>3, <1>4, <1>5
  <2>4. Judges(v, par, depth, S) /\ Judges(w, oth, deoth, R)
    BY <1>4, <1>5
  <2> QED
    BY <1>3, <1>7, <2>1, <2>2, <2>3, <2>4, VerdictUnique
<1> QED
  BY <1>2, <1>4, <1>5, <1>10, <1>11
----------------------------------------------------------------------------
\* Ancestries

\* up is the function that Ancestry defines by recursion.
Ascends(up, par) == up = [f \in Event |-> {f} \cup UNION {up[p] : p \in par[f]}]

Closed(par, T) == T \in SUBSET Event /\ \A x \in T : par[x] \subseteq T

LEMMA AncestryExpands ==
    \A par, e : Rules(par)!Ancestry(e) = (CHOOSE up : Ascends(up, par))[e]
BY DEF Rules!Ancestry, Ascends

LEMMA AscentExists ==
    ASSUME NEW par \in Graph
    PROVE  \E up \in [Event -> SUBSET Event] : Ascends(up, par)
<1> DEFINE T == SUBSET Event
           step == [f \in Event |-> [g \in [par[f] -> T] |-> {f} \cup UNION {g[p] : p \in par[f]}]]
<1>1. par \in [Event -> SUBSET Event] /\ WellFounded(Event, par)
  BY DEF Graph, Acyclic, WellFounded
<1>2. \A f \in Event : \A g \in [par[f] -> T] : step[f][g] \in T
  OBVIOUS
<1>3. PICK up \in [Event -> T] : Solves(up, Event, par, step)
  <2> HIDE DEF T, step
  <2> QED
    BY <1>1, <1>2, RecursionExists
<1>4. ASSUME NEW f \in Event
      PROVE  up[f] = {f} \cup UNION {up[p] : p \in par[f]}
  <2>1. Below(up, par, f) \in [par[f] -> T]
    BY <1>1, <1>3 DEF Below
  <2>2. up[f] = step[f][Below(up, par, f)]
    BY <1>3 DEF Solves
  <2>3. step[f][Below(up, par, f)] = {f} \cup UNION {Below(up, par, f)[p] : p \in par[f]}
    BY <2>1
  <2>4. {Below(up, par, f)[p] : p \in par[f]} = {up[p] : p \in par[f]}
    BY DEF Below
  <2> QED
    BY <2>2, <2>3, <2>4
<1> QED
  BY <1>3, <1>4 DEF Ascends

\* The ancestry of an event is the smallest closed set it is in.
LEMMA AncestryIs ==
    ASSUME NEW par \in Graph, NEW e \in Event
    PROVE  /\ e \in Rules(par)!Ancestry(e)
           /\ Closed(par, Rules(par)!Ancestry(e))
           /\ \A T : Closed(par, T) /\ e \in T => Rules(par)!Ancestry(e) \subseteq T
<1>1. PICK up : up = CHOOSE x : Ascends(x, par)
  OBVIOUS
<1>2. Ascends(up, par)
  BY <1>1, AscentExists
<1>3. Rules(par)!Ancestry(e) = up[e]
  BY <1>1, AncestryExpands
<1>4. \A f \in Event : up[f] = {f} \cup UNION {up[p] : p \in par[f]}
  BY <1>2 DEF Ascends
<1>5. Acyclic(par, Event) /\ \A f \in Event : par[f] \in SUBSET Event
  BY DEF Graph
<1>6. \A f \in Event : Closed(par, up[f])
  <2> DEFINE X == {f \in Event : ~Closed(par, up[f])}
  <2>1. ASSUME X # {} PROVE FALSE
    <3>1. PICK f \in X : par[f] \cap X = {}
      BY <1>5, <2>1 DEF Acyclic
    <3>2. \A p \in par[f] : Closed(par, up[p]) /\ p \in up[p] /\ up[p] \subseteq up[f]
      BY <1>4, <1>5, <3>1
    <3>3. ASSUME NEW x \in up[f]
          PROVE  x \in Event /\ par[x] \subseteq up[f]
      <4>1. CASE x = f
        BY <1>5, <3>2, <4>1
      <4>2. CASE x # f
        <5>1. PICK p \in par[f] : x \in up[p]
          BY <1>4, <4>2
        <5> QED
          BY <3>2, <5>1 DEF Closed
      <4> QED
        BY <4>1, <4>2
    <3>4. Closed(par, up[f])
      BY <3>3 DEF Closed
    <3> QED
      BY <3>1, <3>4
  <2> QED
    BY <2>1
<1>7. ASSUME NEW T, Closed(par, T)
      PROVE  \A f \in T : up[f] \subseteq T
  <2> DEFINE X == {f \in T : ~(up[f] \subseteq T)}
  <2>1. ASSUME X # {} PROVE FALSE
    <3>1. X \in SUBSET Event
      BY <1>7 DEF Closed
    <3>2. PICK f \in X : par[f] \cap X = {}
      BY <1>5, <2>1, <3>1 DEF Acyclic
    <3>3. \A p \in par[f] : up[p] \subseteq T
      BY <1>7, <3>2 DEF Closed
    <3>4. up[f] = {f} \cup UNION {up[p] : p \in par[f]} /\ f \in T
      BY <1>4, <3>1
    <3>5. up[f] \subseteq T
      BY <3>3, <3>4
    <3> QED
      BY <3>2, <3>5
  <2> QED
    BY <2>1
<1>8. e \in up[e]
  BY <1>4
<1> QED
  BY <1>3, <1>6, <1>7, <1>8

\* It does not change with the parents of other events.
LEMMA AncestrySame ==
    ASSUME NEW par \in Graph, NEW oth \in Graph, NEW T, Closed(par, T), NEW e \in T,
           \A x \in T : oth[x] = par[x]
    PROVE  /\ Rules(oth)!Ancestry(e) = Rules(par)!Ancestry(e)
           /\ Rules(par)!Ancestry(e) \subseteq T
<1>1. PICK A : A = Rules(par)!Ancestry(e)
  OBVIOUS
<1>2. PICK B : B = Rules(oth)!Ancestry(e)
  OBVIOUS
<1>3. e \in Event /\ Closed(oth, T)
  BY DEF Closed
<1>4. e \in A /\ Closed(par, A) /\ A \subseteq T
  BY <1>1, <1>3, AncestryIs
<1>5. e \in B /\ Closed(oth, B) /\ B \subseteq T
  BY <1>2, <1>3, AncestryIs
<1>6. Closed(oth, A) /\ Closed(par, B)
  BY <1>4, <1>5 DEF Closed
<1>7. A \subseteq B /\ B \subseteq A
  BY <1>1, <1>2, <1>3, <1>4, <1>5, <1>6, AncestryIs
<1> QED
  BY <1>1, <1>2, <1>4, <1>7

\* The ancestry of an event on top of a history is that history and the event.
LEMMA AncestryOnTop ==
    ASSUME NEW par \in Graph, NEW oth \in Graph, NEW S, History(par, S), NEW e,
           OnTop(oth, par, S, e)
    PROVE  Rules(oth)!Ancestry(e) = S \cup {e}
<1>1. PICK A : A = Rules(oth)!Ancestry(e)
  OBVIOUS
<1>2. e \in Event /\ S \in SUBSET Event /\ oth[e] = HeadsOf(par, S)
      /\ \A x \in S : oth[x] = par[x] /\ par[x] \subseteq S
  BY DEF OnTop, History
<1>3. e \in A /\ Closed(oth, A)
  BY <1>1, <1>2, AncestryIs
<1>4. A \subseteq S \cup {e}
  <2>1. Closed(oth, S \cup {e})
    BY <1>2 DEF Closed, HeadsOf
  <2> QED
    BY <1>1, <1>2, <2>1, AncestryIs
<1>5. S \subseteq A
  <2>1. ASSUME S \ A # {} PROVE FALSE
    <3>1. PICK x \in S \ A : \A y \in S \ A : x \notin par[y]
      <4>1. PICK X : X = S \ A
        OBVIOUS
      <4>2. X \in SUBSET Event /\ X # {}
        BY <1>2, <2>1, <4>1
      <4> QED
        BY <4>1, <4>2, Topmost
    <3>2. x \notin oth[e]
      BY <1>3, <3>1 DEF Closed
    <3>3. PICK y \in S : x \in par[y]
      BY <1>2, <3>1, <3>2 DEF HeadsOf
    <3>4. y \in A
      BY <3>1, <3>3
    <3> QED
      BY <1>2, <1>3, <3>1, <3>3, <3>4 DEF Closed
  <2> QED
    BY <2>1
<1> QED
  BY <1>1, <1>3, <1>4, <1>5
----------------------------------------------------------------------------
\* The inductive invariant

\* The events that somebody has made.
Made(par) == {e \in Event : par[e] # {} \/ e = Community}

\* Events are made on top of events that were made, and never of kind "other".
Good(par) ==
    /\ par \in Graph
    /\ \A e \in Event : par[e] \subseteq Made(par)
    /\ \A e \in Made(par) : Payload[e].kind # "other"
    /\ par[Community] = {}

\* What a database may hold.
Stored(par, S) == Closed(par, S) /\ S \subseteq Made(par)

\* The ancestry of i holds i as active, and q as a member or the Home Server.
Vouches(par, i, q) ==
    LET state == Rules(par)!resolve(Rules(par)!Ancestry(i)).state
    IN  /\ i \in state.invitations \ state.accepted_invitations
        /\ q \in state.members \/ q = BoundServer(state)

GraphIsGood == Good(parents)

StoresAreHistories == \A u \in User : Stored(parents, store[u])

SnapshotsAreHistories == \A s \in Server : \A S \in snapshot[s] : Stored(parents, S)

CodesAreVouched ==
    \A i \in Invitation : endpoint[i] # None =>
        i \in Made(parents) /\ Vouches(parents, i, endpoint[i])

JoinsHaveCodes ==
    \A u \in User : join[u].phase # "idle" =>
        join[u].invitation \in Invitation /\ endpoint[join[u].invitation] # None

\* That parents is a function into sets of events is part of Good.
IInv ==
    /\ TypeOK
    /\ GraphIsGood
    /\ StoresAreHistories
    /\ SnapshotsAreHistories
    /\ CodesAreVouched
    /\ JoinsHaveCodes

LEMMA StoredIsHistory ==
    ASSUME NEW par, Good(par), NEW S, Stored(par, S)
    PROVE  History(par, S)
BY DEF Good, Stored, Closed, History

LEMMA AncestryStored ==
    ASSUME NEW par, Good(par), NEW i \in Made(par)
    PROVE  Stored(par, Rules(par)!Ancestry(i)) /\ i \in Rules(par)!Ancestry(i)
<1>1. par \in Graph /\ i \in Event
  BY DEF Good, Made
<1>2. Closed(par, Made(par))
  BY DEF Good, Made, Closed
<1> QED
  BY <1>1, <1>2, AncestryIs DEF Stored

\* A new event on top of made ones changes nothing that is known of the others.
LEMMA Grows ==
    ASSUME NEW par, Good(par), NEW e \in Event \ Made(par), Payload[e].kind # "other",
           NEW H, H \subseteq Made(par), H # {},
           NEW oth, oth = [par EXCEPT ![e] = H]
    PROVE  /\ Good(oth)
           /\ e \in Made(oth)
           /\ \A S : Stored(par, S) => Stored(oth, S) /\ e \notin S
           /\ \A S : Stored(par, S) /\ H \subseteq S => Stored(oth, S \cup {e})
           /\ \A i \in Made(par) :
                 i \in Made(oth) /\ \A q : Vouches(par, i, q) => Vouches(oth, i, q)
<1>1. par \in [Event -> SUBSET Event] /\ Acyclic(par, Event) /\ par \in Graph
  BY DEF Good, Graph
<1>2. Made(par) \in SUBSET Event /\ H \in SUBSET Event /\ e \in Event /\ e \notin Made(par)
  BY DEF Made
<1>3. oth \in [Event -> SUBSET Event] /\ oth[e] = H /\ \A x \in Event : x # e => oth[x] = par[x]
  BY <1>1, <1>2
<1>4. \A x \in Event : x \in Made(oth) <=> x \in Made(par) \/ x = e
  BY <1>2, <1>3 DEF Made
<1>5. \A x \in Event : e \notin par[x]
  BY <1>2 DEF Good
<1>6. Acyclic(oth, Event)
  <2>1. ASSUME NEW X \in SUBSET Event, X # {}
        PROVE  \E x \in X : oth[x] \cap X = {}
    <3>1. CASE X \ {e} = {}
      BY <1>2, <1>3, <2>1, <3>1
    <3>2. CASE X \ {e} # {}
      <4>1. PICK x \in X \ {e} : par[x] \cap (X \ {e}) = {}
        <5>1. PICK Y : Y = X \ {e}
          OBVIOUS
        <5>2. Y \in SUBSET Event /\ Y # {}
          BY <3>2, <5>1
        <5> QED
          BY <1>1, <5>1, <5>2 DEF Acyclic
      <4> QED
        BY <1>3, <1>5, <4>1
    <3> QED
      BY <3>1, <3>2
  <2> QED
    BY <2>1 DEF Acyclic
<1>7. oth \in Graph
  BY <1>3, <1>6 DEF Graph
<1>8. Good(oth)
  <2>1. \A x \in Event : oth[x] \subseteq Made(oth)
    BY <1>2, <1>3, <1>4 DEF Good
  <2>2. \A x \in Made(oth) : Payload[x].kind # "other"
    <3>1. Made(oth) \in SUBSET Event
      BY DEF Made
    <3> QED
      BY <1>4, <3>1 DEF Good
  <2>3. oth[Community] = {}
    BY <1>3, CommunityAssumption DEF Good, Made
  <2> QED
    BY <1>7, <2>1, <2>2, <2>3 DEF Good
<1>9. ASSUME NEW S, Stored(par, S)
      PROVE  Stored(oth, S) /\ e \notin S
  <2>1. S \in SUBSET Event /\ S \subseteq Made(par) /\ \A x \in S : par[x] \subseteq S
    BY <1>9 DEF Stored, Closed
  <2>2. e \notin S /\ S \subseteq Made(oth) /\ \A x \in S : oth[x] \subseteq S
    <3>1. e \notin S
      BY <1>2, <2>1
    <3>2. \A x \in S : x \in Made(oth) /\ oth[x] = par[x]
      BY <1>3, <1>4, <2>1, <3>1
    <3> QED
      BY <2>1, <3>1, <3>2
  <2> QED
    BY <2>1, <2>2 DEF Stored, Closed
<1>10. ASSUME NEW S, Stored(par, S), H \subseteq S
       PROVE  Stored(oth, S \cup {e})
  <2>1. S \in SUBSET Event /\ S \subseteq Made(oth) /\ \A x \in S : oth[x] \subseteq S
    BY <1>9, <1>10 DEF Stored, Closed
  <2>2. S \cup {e} \in SUBSET Event /\ S \cup {e} \subseteq Made(oth)
    BY <1>2, <1>4, <2>1
  <2>3. \A x \in S \cup {e} : oth[x] \subseteq S \cup {e}
    BY <1>3, <1>10, <2>1
  <2> QED
    BY <2>2, <2>3 DEF Stored, Closed
<1>11. ASSUME NEW i \in Made(par)
       PROVE  i \in Made(oth) /\ \A q : Vouches(par, i, q) => Vouches(oth, i, q)
  <2>1. PICK A : A = Rules(par)!Ancestry(i)
    OBVIOUS
  <2>2. Closed(par, Made(par))
    BY <1>2 DEF Good, Closed
  <2>3. \A x \in Made(par) : oth[x] = par[x]
    BY <1>2, <1>3
  <2>4. Rules(oth)!Ancestry(i) = A /\ A \subseteq Made(par)
    <3>1. PICK T : T = Made(par)
      OBVIOUS
    <3>2. Closed(par, T) /\ i \in T /\ \A x \in T : oth[x] = par[x]
      BY <2>2, <2>3, <3>1
    <3>3. Rules(oth)!Ancestry(i) = Rules(par)!Ancestry(i) /\ Rules(par)!Ancestry(i) \subseteq T
      BY <1>1, <1>7, <3>2, AncestrySame
    <3> QED
      BY <2>1, <3>1, <3>3
  <2>5. A \in SUBSET Event /\ \A x \in A : par[x] = oth[x]
    BY <1>2, <2>3, <2>4
  <2>6. Rules(par)!resolve(A) = Rules(oth)!resolve(A)
    BY <1>1, <1>7, <2>5, ResolveSame
  <2> QED
    BY <1>2, <1>4, <2>1, <2>4, <2>6 DEF Vouches
<1> QED
  BY <1>2, <1>4, <1>8, <1>9, <1>10, <1>11
----------------------------------------------------------------------------
\* Every step preserves it

LEMMA HeadsFacts ==
    ASSUME NEW par, Good(par), NEW S, Stored(par, S), S # {}
    PROVE  HeadsOf(par, S) \subseteq S /\ HeadsOf(par, S) # {}
<1>1. par \in Graph /\ S \in SUBSET Event
  BY DEF Good, Stored, Closed
<1>2. PICK x \in S : \A y \in S : x \notin par[y]
  BY <1>1, Topmost
<1>3. x \in HeadsOf(par, S)
  BY <1>2 DEF HeadsOf
<1> QED
  BY <1>3 DEF HeadsOf

LEMMA AppendKeeps ==
    ASSUME IInv, NEW u \in User, NEW e \in Event, Append(u, e), Payload[e].kind # "other"
    PROVE  /\ GraphIsGood' /\ StoresAreHistories' /\ SnapshotsAreHistories'
           /\ join' = join /\ snapshot' = snapshot /\ restores' = restores
           /\ store' \in [User -> SUBSET Event]
           /\ e \in Made(parents') /\ Author[e] = u
           /\ OnTop(parents', parents, store[u], e)
           /\ parents' = [parents EXCEPT ![e] = Heads(u)]
           /\ \A i \in Made(parents) :
                 i \in Made(parents') /\ \A q : Vouches(parents, i, q) => Vouches(parents', i, q)
<1>1. PICK H : H = HeadsOf(parents, store[u])
  OBVIOUS
<1>2. Heads(u) = H
  BY <1>1 DEF Heads, Rules!Heads, HeadsOf
<1>3. /\ parents' = [parents EXCEPT ![e] = H]
      /\ store' = [store EXCEPT ![u] = @ \cup {e}]
      /\ UNCHANGED <<join, snapshot, restores>>
      /\ Fresh(e) /\ store[u] # {} /\ Author[e] = u
  BY <1>2 DEF Append
<1>4. Good(parents) /\ \A v \in User : Stored(parents, store[v])
  BY DEF IInv, GraphIsGood, StoresAreHistories
<1>5. e \in Event \ Made(parents)
  BY <1>3 DEF Fresh, Made
<1>6. H \subseteq store[u] /\ H # {}
  BY <1>1, <1>3, <1>4, HeadsFacts
<1>7. H \subseteq Made(parents)
  BY <1>4, <1>6 DEF Stored
<1>8. /\ Good(parents') /\ e \in Made(parents')
      /\ \A S : Stored(parents, S) => Stored(parents', S) /\ e \notin S
      /\ \A S : Stored(parents, S) /\ H \subseteq S => Stored(parents', S \cup {e})
      /\ \A i \in Made(parents) :
            i \in Made(parents') /\ \A q : Vouches(parents, i, q) => Vouches(parents', i, q)
  <2>1. PICK par, oth : par = parents /\ oth = parents'
    OBVIOUS
  <2>2. /\ Good(par) /\ e \in Event \ Made(par) /\ H \subseteq Made(par) /\ H # {}
        /\ oth = [par EXCEPT ![e] = H] /\ Payload[e].kind # "other"
    BY <1>3, <1>4, <1>5, <1>6, <1>7, <2>1
  <2>3. /\ Good(oth) /\ e \in Made(oth)
        /\ \A S : Stored(par, S) => Stored(oth, S) /\ e \notin S
        /\ \A S : Stored(par, S) /\ H \subseteq S => Stored(oth, S \cup {e})
        /\ \A i \in Made(par) :
              i \in Made(oth) /\ \A q : Vouches(par, i, q) => Vouches(oth, i, q)
    BY <2>2, Grows
  <2> QED
    BY <2>1, <2>3
<1>9. store \in [User -> SUBSET Event] /\ parents \in [Event -> SUBSET Event]
  BY DEF IInv, TypeOK
<1>10. GraphIsGood'
  BY <1>8 DEF GraphIsGood
<1>11. StoresAreHistories'
  <2>1. ASSUME NEW v \in User PROVE Stored(parents', store'[v])
    <3>1. CASE v = u
      <4>1. store'[v] = store[u] \cup {e}
        BY <1>3, <1>9, <3>1
      <4> QED
        BY <1>4, <1>6, <1>8, <4>1
    <3>2. CASE v # u
      <4>1. store'[v] = store[v]
        BY <1>3, <1>9, <3>2
      <4> QED
        BY <1>4, <1>8, <4>1
    <3> QED
      BY <3>1, <3>2
  <2> QED
    BY <2>1 DEF StoresAreHistories
<1>12. SnapshotsAreHistories'
  <2>1. \A s \in Server : \A S \in snapshot[s] : Stored(parents', S)
    BY <1>8 DEF IInv, SnapshotsAreHistories
  <2> QED
    BY <1>3, <2>1 DEF SnapshotsAreHistories
<1>13. OnTop(parents', parents, store[u], e)
  <2>1. e \notin store[u]
    BY <1>4, <1>8
  <2>2. store[u] \subseteq Event
    BY <1>9
  <2> QED
    BY <1>1, <1>3, <1>9, <2>1, <2>2 DEF OnTop
<1>14. store' \in [User -> SUBSET Event]
  BY <1>3, <1>9
<1> QED
  BY <1>2, <1>3, <1>8, <1>10, <1>11, <1>12, <1>13, <1>14

\* When the graph and the codes stay as they are.
LEMMA QuietKeeps ==
    ASSUME IInv, UNCHANGED <<parents, endpoint>>,
           store' \in [User -> SUBSET Event],
           \A u \in User : Stored(parents, store'[u]),
           snapshot' \in [Server -> SUBSET SUBSET Event],
           \A s \in Server : \A S \in snapshot'[s] : Stored(parents, S),
           join' \in [User -> [phase : Phase, invitation : Invitation \cup {None}]],
           JoinsHaveCodes', restores' \in 0..MaxRestores
    PROVE  IInv'
<1>1. TypeOK'
  BY DEF IInv, TypeOK
<1>2. GraphIsGood'
  BY DEF IInv, GraphIsGood
<1>3. StoresAreHistories' /\ SnapshotsAreHistories'
  BY DEF StoresAreHistories, SnapshotsAreHistories
<1>4. CodesAreVouched'
  BY DEF IInv, CodesAreVouched
<1> QED
  BY <1>1, <1>2, <1>3, <1>4 DEF IInv

LEMMA MoveKeeps ==
    ASSUME IInv, NEW u \in User, NEW phase \in Phase, join[u].phase # "idle",
           Move(u, phase), endpoint' = endpoint
    PROVE  /\ join' \in [User -> [phase : Phase, invitation : Invitation \cup {None}]]
           /\ JoinsHaveCodes'
<1>1. join \in [User -> [phase : Phase, invitation : Invitation \cup {None}]]
  BY DEF IInv, TypeOK
<1>2. join' = [join EXCEPT ![u].phase = phase]
  BY DEF Move
<1>3. \A v \in User : /\ join'[v].invitation = join[v].invitation
                      /\ v # u => join'[v].phase = join[v].phase
  BY <1>1, <1>2
<1>4. JoinsHaveCodes'
  BY <1>3 DEF IInv, JoinsHaveCodes
<1>5. join' \in [User -> [phase : Phase, invitation : Invitation \cup {None}]]
  BY <1>1, <1>2
<1> QED
  BY <1>4, <1>5

LEMMA Initial == Init => IInv
<1> SUFFICES ASSUME Init PROVE IInv
  OBVIOUS
<1>1. TypeOK
  BY RestoresAssumption DEF Init, TypeOK, NoJoin, Phase
<1>2. Acyclic(parents, Event)
  BY DEF Init, Acyclic
<1>3. GraphIsGood
  <2>1. parents \in Graph
    BY <1>1, <1>2 DEF Graph, TypeOK
  <2>2. Made(parents) \subseteq {Community}
    BY DEF Init, Made
  <2>3. \A e \in Event : parents[e] = {}
    BY DEF Init
  <2> QED
    BY <2>1, <2>2, <2>3, CommunityAssumption DEF GraphIsGood, Good
<1>4. StoresAreHistories /\ SnapshotsAreHistories
  BY DEF Init, StoresAreHistories, SnapshotsAreHistories, Stored, Closed
<1>5. CodesAreVouched /\ JoinsHaveCodes
  BY DEF Init, CodesAreVouched, JoinsHaveCodes, NoJoin
<1> QED
  BY <1>1, <1>3, <1>4, <1>5 DEF IInv
\* A new invitation vouches for its author and for the bound Home Server.
LEMMA InviteVouches ==
    ASSUME NEW par, Good(par), NEW S, Stored(par, S), NEW e, Payload[e].kind = "invite",
           NEW oth, Good(oth), OnTop(oth, par, S, e),
           NEW outcome, outcome = Rules(oth)!resolve(S \cup {e}), e \in outcome.accepted,
           e \in Rules(oth)!active_invitations(outcome.state),
           NEW before, before = Rules(par)!resolve(S),
           NEW q, q = Author[e] \/ (q = BoundServer(before.state) /\ q # None)
    PROVE  Vouches(oth, e, q) /\ q \in User
<1>1. par \in Graph /\ oth \in Graph /\ History(par, S) /\ S \in SUBSET Event /\ e \in Event \ S
  BY StoredIsHistory DEF Good, OnTop, History
<1>2. outcome = Rules(oth)!Judge(e, S \cup {e}, before)
  BY <1>1, ResolveGrows
<1>3. before \in Outcome(par, S)
  BY <1>1, ResolveType
<1>4. before.accepted \in SUBSET S /\ before.state \in Sane /\ before.state \in State
  BY <1>3 DEF Outcome, Sane
<1>5. e \notin before.accepted
  BY <1>1, <1>4
<1>6. /\ Rules(oth)!validate_context(before.state, e, before.accepted)
      /\ outcome.state = Rules(oth)!apply(before.state, e)
  <2>1. CASE /\ oth[e] \subseteq (S \cup {e}) \ before.rejected
             /\ Rules(oth)!validate_context(before.state, e, before.accepted)
    <3>1. outcome = [before EXCEPT !.state = Rules(oth)!apply(@, e), !.accepted = @ \cup {e}]
      BY <1>2, <2>1 DEF Rules!Judge
    <3> QED
      BY <1>3, <2>1, <3>1 DEF Outcome
  <2>2. CASE ~(/\ oth[e] \subseteq (S \cup {e}) \ before.rejected
               /\ Rules(oth)!validate_context(before.state, e, before.accepted))
    <3>1. outcome = [before EXCEPT !.rejected = @ \cup {e}]
      BY <1>2, <2>2 DEF Rules!Judge
    <3>2. outcome.accepted = before.accepted
      BY <1>3, <3>1 DEF Outcome
    <3> QED
      BY <1>5, <3>2
  <2> QED
    BY <2>1, <2>2
<1>7. Author[e] \in before.state.administrators
  BY <1>6 DEF Rules!validate_context, Rules!permits, Rules!require_admin
<1>8. Author[e] \in before.state.members
  BY <1>4, <1>7 DEF Sane
<1>9. /\ outcome.state.members = before.state.members
      /\ outcome.state.home_server = before.state.home_server
  BY <1>4, <1>6 DEF Rules!apply, State
<1>10. BoundServer(outcome.state) = BoundServer(before.state)
  BY <1>9 DEF BoundServer
<1>11. q \in outcome.state.members \/ q = BoundServer(outcome.state)
  BY <1>8, <1>9, <1>10
<1>12. Rules(oth)!Ancestry(e) = S \cup {e}
  BY <1>1, AncestryOnTop
<1>13. e \in outcome.state.invitations \ outcome.state.accepted_invitations
  BY DEF Rules!active_invitations
<1>14. q \in User
  <2>1. CASE q = Author[e]
    BY <1>1, <2>1, AuthorAssumption
  <2>2. CASE q = BoundServer(before.state) /\ q # None
    <3>1. before.state.home_server # None /\ q = Payload[before.state.home_server].subject
      BY <2>2 DEF BoundServer
    <3>2. before.state.home_server \in Event /\ Payload[before.state.home_server].kind = "home"
      BY <1>4, <3>1 DEF Sane, State
    <3> QED
      BY <3>1, <3>2, PayloadAssumption
  <2> QED
    BY <2>1, <2>2
<1> QED
  BY <1>11, <1>12, <1>13, <1>14 DEF Vouches

LEMMA PreservedByAppend ==
    ASSUME IInv, NEW u \in User, NEW e \in Event,
           CreateChannel(u, e) \/ SendMessage(u, e) \/ SetHomeServer(u, e)
    PROVE  IInv'
<1>1. Append(u, e) /\ Payload[e].kind # "other" /\ endpoint' = endpoint
  BY DEF CreateChannel, SendMessage, SetHomeServer
<1>2. /\ GraphIsGood' /\ StoresAreHistories' /\ SnapshotsAreHistories'
      /\ join' = join /\ snapshot' = snapshot /\ restores' = restores
      /\ store' \in [User -> SUBSET Event]
      /\ \A i \in Made(parents) :
            i \in Made(parents') /\ \A q : Vouches(parents, i, q) => Vouches(parents', i, q)
  BY <1>1, AppendKeeps
<1>3. TypeOK'
  BY <1>1, <1>2 DEF IInv, TypeOK, GraphIsGood, Good, Graph
<1>4. CodesAreVouched'
  BY <1>1, <1>2 DEF IInv, CodesAreVouched
<1>5. JoinsHaveCodes'
  BY <1>1, <1>2 DEF IInv, JoinsHaveCodes
<1> QED
  BY <1>2, <1>3, <1>4, <1>5 DEF IInv

LEMMA PreservedByCreateInvite ==
    ASSUME IInv, NEW u \in User, NEW e \in Event, CreateInvite(u, e)
    PROVE  IInv'
<1>1. e \in Invitation /\ Append(u, e) /\ Payload[e].kind = "invite"
  BY DEF CreateInvite, Invitation
<1>2. /\ GraphIsGood' /\ StoresAreHistories' /\ SnapshotsAreHistories'
      /\ join' = join /\ snapshot' = snapshot /\ restores' = restores
      /\ store' \in [User -> SUBSET Event]
      /\ e \in Made(parents') /\ Author[e] = u
      /\ OnTop(parents', parents, store[u], e)
      /\ parents' = [parents EXCEPT ![e] = Heads(u)]
      /\ \A i \in Made(parents) :
            i \in Made(parents') /\ \A q : Vouches(parents, i, q) => Vouches(parents', i, q)
  BY <1>1, AppendKeeps
<1>3. PICK outcome : outcome = Rules(parents')!resolve(store[u] \cup {e})
  OBVIOUS
<1>4. outcome = Candidate(u, e, Heads(u))
  BY <1>2, <1>3 DEF Candidate
<1>5. PICK before : before = Rules(parents)!resolve(store[u])
  OBVIOUS
<1>6. /\ e \in outcome.accepted
      /\ e \in Rules(parents)!active_invitations(outcome.state)
  BY <1>4 DEF CreateInvite
<1>7. PICK q \in {u, BoundServer(before.state)} \ {None} : endpoint' = [endpoint EXCEPT ![e] = q]
  BY <1>5 DEF CreateInvite, View
<1>8. Vouches(parents', e, q) /\ q \in User
  <2>1. PICK par, oth : par = parents /\ oth = parents'
    OBVIOUS
  <2>2. Good(par) /\ Good(oth) /\ Stored(par, store[u]) /\ OnTop(oth, par, store[u], e)
    BY <1>2, <2>1 DEF IInv, GraphIsGood, StoresAreHistories
  <2>3. e \in Rules(oth)!active_invitations(outcome.state)
    BY <1>6 DEF Rules!active_invitations
  <2>4. outcome = Rules(oth)!resolve(store[u] \cup {e}) /\ before = Rules(par)!resolve(store[u])
    BY <1>3, <1>5, <2>1
  <2>5. q = Author[e] \/ (q = BoundServer(before.state) /\ q # None)
    BY <1>2, <1>7
  <2>6. Vouches(oth, e, q) /\ q \in User
    BY <1>1, <1>6, <2>2, <2>3, <2>4, <2>5, InviteVouches
  <2> QED
    BY <2>1, <2>6
<1>9. endpoint \in [Invitation -> User \cup {None}]
  BY DEF IInv, TypeOK
<1>10. TypeOK'
  BY <1>1, <1>2, <1>7, <1>8, <1>9 DEF IInv, TypeOK, GraphIsGood, Good, Graph
<1>11. CodesAreVouched'
  <2>1. ASSUME NEW i \in Invitation, endpoint'[i] # None
        PROVE  i \in Made(parents') /\ Vouches(parents', i, endpoint'[i])
    <3>1. CASE i = e
      BY <1>2, <1>7, <1>8, <1>9, <3>1
    <3>2. CASE i # e
      <4>1. endpoint'[i] = endpoint[i]
        BY <1>7, <1>9, <3>2
      <4> QED
        BY <1>2, <2>1, <4>1 DEF IInv, CodesAreVouched
    <3> QED
      BY <3>1, <3>2
  <2> QED
    BY <2>1 DEF CodesAreVouched
<1>12. JoinsHaveCodes'
  <2>1. q # None
    BY <1>7
  <2> QED
    BY <1>2, <1>7, <1>9, <2>1 DEF IInv, JoinsHaveCodes
<1> QED
  BY <1>2, <1>10, <1>11, <1>12 DEF IInv
\* The invitation of a join that has begun has an ancestry of its own.
LEMMA Joining ==
    ASSUME IInv, NEW u \in User, join[u].phase # "idle", NEW i, i = join[u].invitation
    PROVE  /\ i \in Invitation /\ i \in Made(parents) /\ endpoint[i] \in User
           /\ Stored(parents, Ancestry(i)) /\ i \in Ancestry(i)
           /\ Vouches(parents, i, endpoint[i])
<1>1. i \in Invitation /\ endpoint[i] # None
  BY DEF IInv, JoinsHaveCodes
<1>2. i \in Made(parents) /\ Vouches(parents, i, endpoint[i])
  BY <1>1 DEF IInv, CodesAreVouched
<1>3. endpoint[i] \in User
  BY <1>1 DEF IInv, TypeOK
<1>4. Stored(parents, Ancestry(i)) /\ i \in Ancestry(i)
  <2>1. PICK par : par = parents
    OBVIOUS
  <2>2. Stored(par, Rules(par)!Ancestry(i)) /\ i \in Rules(par)!Ancestry(i)
    BY <1>2, <2>1, AncestryStored DEF IInv, GraphIsGood
  <2> QED
    BY <2>1, <2>2 DEF Ancestry
<1> QED
  BY <1>1, <1>2, <1>3, <1>4

LEMMA PreservedByReceiveAncestry ==
    ASSUME IInv, NEW u \in User, NEW e \in Event, ReceiveAncestry(u, e)
    PROVE  IInv'
<1>1. PICK i, A : i = join[u].invitation /\ A = Ancestry(i)
  OBVIOUS
<1>2. /\ join[u].phase = "proved" /\ Fresh(e) /\ Payload[e].kind = "accept"
      /\ parents' = [parents EXCEPT ![e] = {i}]
      /\ store' = [store EXCEPT ![u] = A \cup {e}]
      /\ Move(u, "submitted")
      /\ UNCHANGED <<endpoint, snapshot, restores>>
  BY <1>1 DEF ReceiveAncestry, Trusts
<1>3. i \in Made(parents) /\ Stored(parents, A) /\ i \in A
  BY <1>1, <1>2, Joining
<1>4. /\ join' \in [User -> [phase : Phase, invitation : Invitation \cup {None}]]
      /\ JoinsHaveCodes'
  BY <1>2, MoveKeeps DEF Phase
<1>5. /\ Good(parents')
      /\ \A S : Stored(parents, S) => Stored(parents', S)
      /\ Stored(parents', A \cup {e})
      /\ \A x \in Made(parents) :
            x \in Made(parents') /\ \A q : Vouches(parents, x, q) => Vouches(parents', x, q)
  <2>1. PICK par, oth, H : par = parents /\ oth = parents' /\ H = {i}
    OBVIOUS
  <2>2. /\ Good(par) /\ e \in Event \ Made(par) /\ H \subseteq Made(par) /\ H # {}
        /\ oth = [par EXCEPT ![e] = H] /\ Payload[e].kind # "other"
        /\ H \subseteq A /\ Stored(par, A)
    BY <1>2, <1>3, <2>1 DEF IInv, GraphIsGood, Fresh, Made
  <2>3. /\ Good(oth)
        /\ \A S : Stored(par, S) => Stored(oth, S)
        /\ \A S : Stored(par, S) /\ H \subseteq S => Stored(oth, S \cup {e})
        /\ \A x \in Made(par) :
              x \in Made(oth) /\ \A q : Vouches(par, x, q) => Vouches(oth, x, q)
    BY <2>2, Grows
  <2>4. Stored(oth, A \cup {e})
    BY <2>2, <2>3
  <2> QED
    BY <2>1, <2>3, <2>4
<1>6. store \in [User -> SUBSET Event] /\ A \cup {e} \in SUBSET Event
  BY <1>3 DEF IInv, TypeOK, Stored, Closed
<1>7. TypeOK'
  BY <1>2, <1>4, <1>5, <1>6 DEF IInv, TypeOK, Good, Graph
<1>8. StoresAreHistories'
  <2>1. ASSUME NEW v \in User PROVE Stored(parents', store'[v])
    <3>1. CASE v = u
      BY <1>2, <1>5, <1>6, <3>1
    <3>2. CASE v # u
      <4>1. store'[v] = store[v] /\ Stored(parents, store[v])
        BY <1>2, <1>6, <3>2 DEF IInv, StoresAreHistories
      <4> QED
        BY <1>5, <4>1
    <3> QED
      BY <3>1, <3>2
  <2> QED
    BY <2>1 DEF StoresAreHistories
<1>9. SnapshotsAreHistories'
  BY <1>2, <1>5 DEF IInv, SnapshotsAreHistories
<1>10. CodesAreVouched'
  BY <1>2, <1>5 DEF IInv, CodesAreVouched
<1> QED
  BY <1>4, <1>5, <1>7, <1>8, <1>9, <1>10 DEF IInv, GraphIsGood

\* The histories that come into being from others.
LEMMA StoredUnion ==
    ASSUME NEW par, NEW S, NEW T, Stored(par, S), Stored(par, T)
    PROVE  Stored(par, S \cup T)
BY DEF Stored, Closed

\* One database changes, to a history, and nothing else but a join.
LEMMA StoreKeeps ==
    ASSUME IInv, NEW u \in User, NEW S, Stored(parents, S), store' = [store EXCEPT ![u] = S]
    PROVE  store' \in [User -> SUBSET Event] /\ \A v \in User : Stored(parents, store'[v])
<1>1. store \in [User -> SUBSET Event] /\ S \in SUBSET Event
  BY DEF IInv, TypeOK, Stored, Closed
<1>2. ASSUME NEW v \in User PROVE Stored(parents, store'[v])
  <2>1. CASE v = u
    BY <1>1, <2>1
  <2>2. CASE v # u
    <3>1. store'[v] = store[v]
      BY <1>1, <2>2
    <3> QED
      BY <3>1 DEF IInv, StoresAreHistories
  <2> QED
    BY <2>1, <2>2
<1> QED
  BY <1>1, <1>2

\* What holds of the parts of the state that a step leaves alone.
LEMMA Standing ==
    ASSUME IInv
    PROVE  /\ store \in [User -> SUBSET Event]
           /\ \A u \in User : Stored(parents, store[u])
           /\ snapshot \in [Server -> SUBSET SUBSET Event]
           /\ \A s \in Server : \A S \in snapshot[s] : Stored(parents, S)
           /\ join \in [User -> [phase : Phase, invitation : Invitation \cup {None}]]
           /\ restores \in 0..MaxRestores
BY DEF IInv, TypeOK, StoresAreHistories, SnapshotsAreHistories

LEMMA JoinKeeps ==
    ASSUME IInv, UNCHANGED <<join, endpoint>>
    PROVE  JoinsHaveCodes'
BY DEF IInv, JoinsHaveCodes

LEMMA PreservedByCreateCommunity ==
    ASSUME IInv, NEW u \in User, CreateCommunity(u)
    PROVE  IInv'
<1>1. /\ store' = [store EXCEPT ![u] = {Community}]
      /\ UNCHANGED <<parents, endpoint, join, snapshot, restores>>
      /\ store = [v \in User |-> {}]
  BY DEF CreateCommunity
<1>2. Stored(parents, {Community})
  <2>1. parents[Community] \subseteq {Community}
    BY DEF IInv, GraphIsGood, Good
  <2> QED
    BY <2>1, CommunityAssumption DEF Stored, Closed, Made
<1>3. store' \in [User -> SUBSET Event] /\ \A v \in User : Stored(parents, store'[v])
  BY <1>1, <1>2, StoreKeeps
<1> QED
  BY <1>1, <1>3, Standing, JoinKeeps, QuietKeeps
LEMMA PreservedByProve ==
    ASSUME IInv, NEW u \in User, NEW i \in Invitation, Prove(u, i)
    PROVE  IInv'
<1>1. /\ endpoint[i] # None
      /\ join' = [join EXCEPT ![u] = [phase |-> "proved", invitation |-> i]]
      /\ UNCHANGED <<parents, store, endpoint, snapshot, restores>>
  BY DEF Prove
<1>2. join' \in [User -> [phase : Phase, invitation : Invitation \cup {None}]]
  BY <1>1, Standing DEF Phase
<1>3. JoinsHaveCodes'
  <2>1. ASSUME NEW v \in User, join'[v].phase # "idle"
        PROVE  join'[v].invitation \in Invitation /\ endpoint[join'[v].invitation] # None
    <3>1. CASE v = u
      BY <1>1, <3>1, Standing
    <3>2. CASE v # u
      <4>1. join'[v] = join[v]
        BY <1>1, <3>2, Standing
      <4> QED
        BY <2>1, <4>1 DEF IInv, JoinsHaveCodes
    <3> QED
      BY <3>1, <3>2
  <2> QED
    BY <1>1, <2>1 DEF JoinsHaveCodes
<1> QED
  BY <1>1, <1>2, <1>3, Standing, QuietKeeps

LEMMA PreservedByStoreInterrupted ==
    ASSUME IInv, NEW u \in User, StoreInterrupted(u)
    PROVE  IInv'
<1>1. /\ join[u].phase = "proved" /\ Move(u, "failed")
      /\ UNCHANGED <<parents, endpoint, snapshot, restores>>
  BY DEF StoreInterrupted, Trusts
<1>2. PICK S \in SUBSET Ancestry(join[u].invitation) :
          ParentClosed(S) /\ store' = [store EXCEPT ![u] = S]
  BY DEF StoreInterrupted
<1>3. Stored(parents, Ancestry(join[u].invitation))
  BY <1>1, Joining
<1>4. Stored(parents, S)
  BY <1>2, <1>3 DEF Stored, Closed, ParentClosed, Rules!ParentClosed
<1>5. store' \in [User -> SUBSET Event] /\ \A v \in User : Stored(parents, store'[v])
  BY <1>2, <1>4, StoreKeeps
<1>6. /\ join' \in [User -> [phase : Phase, invitation : Invitation \cup {None}]]
      /\ JoinsHaveCodes'
  BY <1>1, MoveKeeps DEF Phase
<1> QED
  BY <1>1, <1>5, <1>6, Standing, QuietKeeps

LEMMA PreservedByAnswer ==
    ASSUME IInv, NEW u \in User, Answer(u) \/ Break(u)
    PROVE  IInv'
<1>1. PICK phase \in {"joined", "failed"} : Move(u, phase)
  BY DEF Answer, Break
<1>2. join[u].phase # "idle" /\ UNCHANGED <<parents, store, endpoint, snapshot, restores>>
  BY DEF Answer, Break, Locked
<1>3. /\ join' \in [User -> [phase : Phase, invitation : Invitation \cup {None}]]
      /\ JoinsHaveCodes'
  BY <1>1, <1>2, MoveKeeps DEF Phase
<1> QED
  BY <1>2, <1>3, Standing, QuietKeeps

\* The endpoint stores an acceptance that it has the parents of.
LEMMA PreservedByDecide ==
    ASSUME IInv, NEW u \in User, NEW e \in Event, Decide(u, e)
    PROVE  IInv'
<1>1. PICK q : q = endpoint[join[u].invitation]
  OBVIOUS
<1>2. /\ join[u].phase = "submitted" /\ e \in store[u]
      /\ UNCHANGED <<parents, endpoint, snapshot, restores>>
  BY DEF Decide
<1>3. q \in User
  BY <1>1, <1>2, Joining
<1>4. CASE Approves(q, u, e)
  <2>1. Move(u, "approved") /\ store' = [store EXCEPT ![q] = @ \cup {e}]
    BY <1>1, <1>4 DEF Decide
  <2>2. PICK par, S : par = parents /\ S = store[q] \cup {e}
    OBVIOUS
  <2>3. par \in Graph /\ S \in SUBSET Event
    BY <1>3, <2>2, Standing DEF IInv, GraphIsGood, Good
  <2>4. Rules(par)!resolve(S) \in Outcome(par, S)
    BY <2>3, ResolveType
  <2>5. e \in Rules(par)!resolve(S).accepted
    BY <1>4, <2>2 DEF Approves, View
  <2>6. parents[e] \subseteq store[q] \cup {e}
    BY <2>2, <2>4, <2>5 DEF Outcome
  <2>7. Stored(parents, store[q]) /\ e \in Made(parents)
    BY <1>2, <1>3, Standing DEF Stored
  <2>8. Stored(parents, store[q] \cup {e})
    BY <2>6, <2>7 DEF Stored, Closed
  <2>9. store' = [store EXCEPT ![q] = store[q] \cup {e}]
    BY <2>1
  <2>10. store' \in [User -> SUBSET Event] /\ \A v \in User : Stored(parents, store'[v])
    BY <1>3, <2>8, <2>9, StoreKeeps
  <2>11. /\ join' \in [User -> [phase : Phase, invitation : Invitation \cup {None}]]
         /\ JoinsHaveCodes'
    BY <1>2, <2>1, MoveKeeps DEF Phase
  <2> QED
    BY <1>2, <2>10, <2>11, Standing, QuietKeeps
<1>5. CASE ~Approves(q, u, e)
  <2>1. Move(u, "refused") /\ store' = store
    BY <1>1, <1>5 DEF Decide
  <2>2. /\ join' \in [User -> [phase : Phase, invitation : Invitation \cup {None}]]
        /\ JoinsHaveCodes'
    BY <1>2, <2>1, MoveKeeps DEF Phase
  <2> QED
    BY <1>2, <2>1, <2>2, Standing, QuietKeeps
<1> QED
  BY <1>4, <1>5

LEMMA PreservedBySynchronize ==
    ASSUME IInv, NEW p \in User, NEW q \in User, Synchronize(p, q)
    PROVE  IInv'
<1>1. UNCHANGED <<parents, endpoint, join, snapshot, restores>>
  BY DEF Synchronize
<1>2. PICK new \in SUBSET (store[q] \ store[p]) :
          ParentClosed(store[p] \cup new) /\ store' = [store EXCEPT ![p] = @ \cup new]
  BY DEF Synchronize
<1>3. Stored(parents, store[p]) /\ Stored(parents, store[q])
  BY Standing
<1>4. Stored(parents, store[p] \cup new)
  BY <1>2, <1>3 DEF Stored, Closed, ParentClosed, Rules!ParentClosed
<1>5. store' = [store EXCEPT ![p] = store[p] \cup new]
  BY <1>2
<1>6. store' \in [User -> SUBSET Event] /\ \A v \in User : Stored(parents, store'[v])
  BY <1>4, <1>5, StoreKeeps
<1> QED
  BY <1>1, <1>6, Standing, JoinKeeps, QuietKeeps

LEMMA PreservedByImport ==
    ASSUME IInv, NEW p \in User, NEW q \in User, Import(p, q)
    PROVE  IInv'
<1>1. /\ store' = [store EXCEPT ![p] = store[p] \cup store[q]]
      /\ UNCHANGED <<parents, endpoint, join, snapshot, restores>>
  BY DEF Import
<1>2. Stored(parents, store[p] \cup store[q])
  BY Standing, StoredUnion
<1>3. store' \in [User -> SUBSET Event] /\ \A v \in User : Stored(parents, store'[v])
  BY <1>1, <1>2, StoreKeeps
<1> QED
  BY <1>1, <1>3, Standing, JoinKeeps, QuietKeeps

LEMMA PreservedBySnapshot ==
    ASSUME IInv, NEW s \in Server, Snapshot(s)
    PROVE  IInv'
<1>1. /\ snapshot' = [snapshot EXCEPT ![s] = @ \cup {store[s]}]
      /\ UNCHANGED <<parents, store, endpoint, join, restores>>
  BY DEF Snapshot
<1>2. s \in User /\ store[s] \in SUBSET Event /\ Stored(parents, store[s])
  BY Standing, ReplicaAssumption
<1>3. snapshot' \in [Server -> SUBSET SUBSET Event]
  BY <1>1, <1>2, Standing
<1>4. \A r \in Server : \A S \in snapshot'[r] : Stored(parents, S)
  <2>1. ASSUME NEW r \in Server, NEW S \in snapshot'[r] PROVE Stored(parents, S)
    <3>1. S \in snapshot[r] \/ S = store[s]
      BY <1>1, Standing
    <3> QED
      BY <1>2, <3>1, Standing
  <2> QED
    BY <2>1
<1> QED
  BY <1>1, <1>3, <1>4, Standing, JoinKeeps, QuietKeeps

LEMMA PreservedByRestore ==
    ASSUME IInv, NEW s \in Server, Restore(s)
    PROVE  IInv'
<1>1. restores' = restores + 1 /\ restores < MaxRestores
      /\ UNCHANGED <<parents, endpoint, join, snapshot>>
  BY DEF Restore
<1>2. PICK S \in snapshot[s] : store' = [store EXCEPT ![s] = S]
  BY DEF Restore
<1>3. s \in User /\ Stored(parents, S)
  BY <1>2, Standing, ReplicaAssumption
<1>4. store' \in [User -> SUBSET Event] /\ \A v \in User : Stored(parents, store'[v])
  BY <1>2, <1>3, StoreKeeps
<1>5. restores' \in 0..MaxRestores
  BY <1>1, Standing, RestoresAssumption
<1> QED
  BY <1>1, <1>4, <1>5, Standing, JoinKeeps, QuietKeeps

LEMMA Preserved == IInv /\ [Next]_vars => IInv'
<1> SUFFICES ASSUME IInv, [Next]_vars PROVE IInv'
  OBVIOUS
<1>1. CASE UNCHANGED vars
  BY <1>1, Standing, JoinKeeps, QuietKeeps DEF vars
<1>2. ASSUME NEW u \in User, CreateCommunity(u) PROVE IInv'
  BY <1>2, PreservedByCreateCommunity
<1>3. ASSUME NEW u \in User, StoreInterrupted(u) PROVE IInv'
  BY <1>3, PreservedByStoreInterrupted
<1>4. ASSUME NEW u \in User, Answer(u) \/ Break(u) PROVE IInv'
  BY <1>4, PreservedByAnswer
<1>5. ASSUME NEW u \in User, NEW i \in Invitation, Prove(u, i) PROVE IInv'
  BY <1>5, PreservedByProve
<1>6. ASSUME NEW u \in User, NEW e \in Event,
             CreateChannel(u, e) \/ SendMessage(u, e) \/ SetHomeServer(u, e)
      PROVE  IInv'
  BY <1>6, PreservedByAppend
<1>7. ASSUME NEW u \in User, NEW e \in Event, CreateInvite(u, e) PROVE IInv'
  BY <1>7, PreservedByCreateInvite
<1>8. ASSUME NEW u \in User, NEW e \in Event, ReceiveAncestry(u, e) PROVE IInv'
  BY <1>8, PreservedByReceiveAncestry
<1>9. ASSUME NEW u \in User, NEW e \in Event, Decide(u, e) PROVE IInv'
  BY <1>9, PreservedByDecide
<1>10. ASSUME NEW pair \in Dial, Synchronize(pair[1], pair[2]) PROVE IInv'
  BY <1>10, ReplicaAssumption, PreservedBySynchronize
<1>11. ASSUME NEW pair \in Handover, Import(pair[1], pair[2]) PROVE IInv'
  BY <1>11, ReplicaAssumption, PreservedByImport
<1>12. ASSUME NEW s \in Server, Snapshot(s) PROVE IInv'
  BY <1>12, PreservedBySnapshot
<1>13. ASSUME NEW s \in Server, Restore(s) PROVE IInv'
  BY <1>13, PreservedByRestore
<1> QED
  BY <1>1, <1>2, <1>3, <1>4, <1>5, <1>6, <1>7, <1>8, <1>9, <1>10, <1>11, <1>12, <1>13 DEF Next

LEMMA Invariance == Spec => []IInv
BY Initial, Preserved, PTL DEF Spec

\* The replicas, the codes and the joins stay what they are declared to be.
THEOREM TypeCorrect == Spec => []TypeOK
<1>1. IInv => TypeOK
  BY DEF IInv
<1> QED
  BY <1>1, Invariance, PTL

(***************************************************************************)
(* In every community, whoever joins through a code finds its endpoint and *)
(* its invitation vouched for by the ancestry that the endpoint sends: the *)
(* checks of join before it signs never say UntrustedBootstrapEndpoint,    *)
(* nor that the invitation is spent, although redemptions, restored        *)
(* snapshots and another Home Server may have come since the code was made.*)
(***************************************************************************)
THEOREM AlwaysVouched == Spec => []EndpointVouched
<1>1. IInv => EndpointVouched
  <2>1. ASSUME IInv, NEW u \in User, join[u].phase = "proved", NEW i, i = join[u].invitation
        PROVE  /\ i \in Rules(parents)!active_invitations(View(Ancestry(i)).state)
               /\ Admits(Ancestry(i), endpoint[i])
    <3>1. Vouches(parents, i, endpoint[i])
      BY <2>1, Joining
    <3> QED
      BY <3>1 DEF Vouches, Admits, View, Ancestry, Rules!active_invitations
  <2> QED
    BY <2>1 DEF EndpointVouched
<1> QED
  BY <1>1, Invariance, PTL

----------------------------------------------------------------------------
\* Histories that resolve accepts all of

Owner == Author[Community]

\* What the commands check before they make an event, as it can still be read
\* from the event and its ancestry.
Lawful(par, e) ==
    LET kind == Payload[e].kind
    IN  /\ kind \in {"create", "channel", "invite", "accept", "message", "home"}
        /\ kind = "create" => e = Community
        /\ kind \in {"channel", "invite", "home"} => Author[e] = Owner
        /\ kind \in {"invite", "accept", "home"} => Payload[e].sound
        /\ kind = "accept" =>
              par[e] = {Payload[e].subject} /\ Payload[Payload[e].subject].kind = "invite"
        /\ kind = "message" =>
              /\ \/ Author[e] = Owner
                 \/ \E a \in Rules(par)!Ancestry(e) \cap Acceptance : Author[a] = Author[e]
              /\ \E c \in Rules(par)!Ancestry(e) :
                    Payload[c].kind = "channel" /\ Payload[c].subject = Payload[e].subject

\* No two acceptances of an invitation are in S.
Single(S) ==
    \A e, f \in S \cap Acceptance : Payload[e].subject = Payload[f].subject => e = f

\* A history that resolve accepts all of.
Peaceful(par, S) ==
    /\ Stored(par, S)
    /\ S # {}
    /\ \A e \in S : Lawful(par, e)
    /\ Single(S)

\* The state is what the events of S say together, whatever their order.
Describes(state, S) ==
    /\ state \in State
    /\ state.community = Community
    /\ state.owner = Owner
    /\ state.members = {Owner} \cup {Author[a] : a \in S \cap Acceptance}
    /\ state.administrators = {Owner}
    /\ state.channels = {Payload[c].subject : c \in {x \in S : Payload[x].kind = "channel"}}
    /\ state.invitations = S \cap Invitation
    /\ state.accepted_invitations = {Payload[a].subject : a \in S \cap Acceptance}
    /\ state.home_server \in S \cup {None}

\* Every history begins with the genesis event.
LEMMA FromGenesis ==
    ASSUME NEW par, Good(par), NEW S, Stored(par, S), S # {}
    PROVE  Community \in S
<1>1. Acyclic(par, Event) /\ S \in SUBSET Event
  BY DEF Good, Graph, Stored, Closed
<1>2. PICK x \in S : par[x] \cap S = {}
  BY <1>1 DEF Acyclic
<1>3. par[x] = {} /\ x \in Made(par)
  BY <1>2 DEF Stored, Closed
<1> QED
  BY <1>3 DEF Made

\* The rules permit a lawful event on what the events before it say.
LEMMA LawfulIsPermitted ==
    ASSUME NEW par, NEW e \in Event, e # Community, Lawful(par, e), par[e] # {},
           NEW U \in SUBSET Event, par[e] \subseteq U, e \notin U, NEW state, Describes(state, U),
           Rules(par)!Ancestry(e) \subseteq U \cup {e}, Single(U \cup {e})
    PROVE  Rules(par)!validate_context(state, e, U)
<1> DEFINE kind == Payload[e].kind
<1>1. kind \in {"channel", "invite", "accept", "message", "home"}
  BY DEF Lawful
<1>2. Rules(par)!CommunityField(e) = state.community
  BY DEF Rules!CommunityField, Rules!IsGenesis, Describes
<1>3. Rules(par)!permits(state, e)
  <2>1. CASE kind = "channel"
    BY <2>1 DEF Lawful, Describes, Rules!permits, Rules!require_admin
  <2>2. CASE kind = "invite"
    BY <2>2 DEF Lawful, Describes, Rules!permits, Rules!require_admin
  <2>3. CASE kind = "home"
    BY <2>3 DEF Lawful, Describes, Rules!permits, Rules!require_owner
  <2>4. CASE kind = "accept"
    <3>1. PICK i : i = Payload[e].subject
      OBVIOUS
    <3>2. par[e] = {i} /\ Payload[i].kind = "invite" /\ Payload[e].sound
      BY <2>4, <3>1 DEF Lawful
    <3>3. i \in state.invitations
      BY <3>2 DEF Describes, Invitation
    <3>4. i \notin state.accepted_invitations
      <4>1. \A a \in U \cap Acceptance : Payload[a].subject # i
        BY <2>4, <3>1 DEF Single, Acceptance
      <4> QED
        BY <4>1 DEF Describes
    <3> QED
      BY <2>4, <3>1, <3>2, <3>3, <3>4 DEF Rules!permits, Rules!redeemable
  <2>5. CASE kind = "message"
    <3>1. Author[e] \in state.members
      <4>1. Author[e] = Owner
            \/ \E a \in Rules(par)!Ancestry(e) \cap Acceptance : Author[a] = Author[e]
        BY <2>5 DEF Lawful
      <4>2. ASSUME NEW a \in Rules(par)!Ancestry(e) \cap Acceptance
            PROVE  a \in U \cap Acceptance
        BY <2>5 DEF Acceptance
      <4> QED
        BY <4>1, <4>2 DEF Describes
    <3>2. Payload[e].subject \in state.channels
      <4>1. PICK c \in Rules(par)!Ancestry(e) :
                Payload[c].kind = "channel" /\ Payload[c].subject = Payload[e].subject
        BY <2>5 DEF Lawful
      <4>2. c \in U
        BY <2>5, <4>1
      <4> QED
        BY <4>1, <4>2 DEF Describes
    <3> QED
      BY <2>5, <3>1, <3>2 DEF Rules!permits
  <2> QED
    BY <1>1, <2>1, <2>2, <2>3, <2>4, <2>5
<1> QED
  BY <1>1, <1>2, <1>3 DEF Rules!validate_context

LEMMA LawfulIsApplied ==
    ASSUME NEW par, NEW e \in Event, e # Community, Lawful(par, e),
           NEW U \in SUBSET Event, NEW state, Describes(state, U)
    PROVE  Describes(Rules(par)!apply(state, e), U \cup {e})
<1> DEFINE kind == Payload[e].kind
           t == Rules(par)!apply(state, e)
<1>1. state \in State /\ t \in State
  BY ApplyType DEF Describes
<1>2. CASE kind = "channel"
  <2>1. t = [state EXCEPT !.channels = @ \cup {Payload[e].subject}]
    BY <1>2 DEF Rules!apply
  <2>2. (U \cup {e}) \cap Acceptance = U \cap Acceptance
        /\ (U \cup {e}) \cap Invitation = U \cap Invitation
    BY <1>2 DEF Acceptance, Invitation
  <2>3. {Payload[c].subject : c \in {x \in U \cup {e} : Payload[x].kind = "channel"}}
        = {Payload[c].subject : c \in {x \in U : Payload[x].kind = "channel"}}
              \cup {Payload[e].subject}
    BY <1>2
  <2> QED
    BY <1>1, <2>1, <2>2, <2>3 DEF Describes, State
<1>3. CASE kind = "invite"
  <2>1. t = [state EXCEPT !.invitations = @ \cup {e}]
    BY <1>3 DEF Rules!apply
  <2>2. (U \cup {e}) \cap Acceptance = U \cap Acceptance
        /\ (U \cup {e}) \cap Invitation = (U \cap Invitation) \cup {e}
    BY <1>3 DEF Acceptance, Invitation
  <2>3. {x \in U \cup {e} : Payload[x].kind = "channel"} = {x \in U : Payload[x].kind = "channel"}
    BY <1>3
  <2> QED
    BY <1>1, <2>1, <2>2, <2>3 DEF Describes, State
<1>4. CASE kind = "accept"
  <2>1. t = [state EXCEPT !.accepted_invitations = @ \cup {Payload[e].subject},
                          !.members = @ \cup {Author[e]}]
    BY <1>4 DEF Rules!apply
  <2>2. (U \cup {e}) \cap Acceptance = (U \cap Acceptance) \cup {e}
        /\ (U \cup {e}) \cap Invitation = U \cap Invitation
    BY <1>4 DEF Acceptance, Invitation
  <2>3. {x \in U \cup {e} : Payload[x].kind = "channel"} = {x \in U : Payload[x].kind = "channel"}
    BY <1>4
  <2>4. /\ {Author[a] : a \in (U \cap Acceptance) \cup {e}}
           = {Author[a] : a \in U \cap Acceptance} \cup {Author[e]}
        /\ {Payload[a].subject : a \in (U \cap Acceptance) \cup {e}}
           = {Payload[a].subject : a \in U \cap Acceptance} \cup {Payload[e].subject}
    OBVIOUS
  <2>5. /\ t.community = state.community /\ t.owner = state.owner
        /\ t.administrators = state.administrators /\ t.channels = state.channels
        /\ t.invitations = state.invitations /\ t.home_server = state.home_server
        /\ t.members = state.members \cup {Author[e]}
        /\ t.accepted_invitations = state.accepted_invitations \cup {Payload[e].subject}
    BY <1>1, <2>1 DEF State
  <2> HIDE DEF t
  <2>6. t.members = {Owner} \cup {Author[a] : a \in (U \cup {e}) \cap Acceptance}
    BY <2>2, <2>4, <2>5 DEF Describes
  <2> QED
    BY <1>1, <2>2, <2>3, <2>4, <2>5, <2>6 DEF Describes, t
<1>5. CASE kind = "home"
  <2>1. t = [state EXCEPT !.home_server = e]
    BY <1>5 DEF Rules!apply
  <2>2. (U \cup {e}) \cap Acceptance = U \cap Acceptance
        /\ (U \cup {e}) \cap Invitation = U \cap Invitation
    BY <1>5 DEF Acceptance, Invitation
  <2>3. {x \in U \cup {e} : Payload[x].kind = "channel"} = {x \in U : Payload[x].kind = "channel"}
    BY <1>5
  <2> QED
    BY <1>1, <2>1, <2>2, <2>3 DEF Describes, State
<1>6. CASE kind = "message"
  <2>1. t = state
    BY <1>6 DEF Rules!apply
  <2>2. (U \cup {e}) \cap Acceptance = U \cap Acceptance
        /\ (U \cup {e}) \cap Invitation = U \cap Invitation
    BY <1>6 DEF Acceptance, Invitation
  <2>3. {x \in U \cup {e} : Payload[x].kind = "channel"} = {x \in U : Payload[x].kind = "channel"}
    BY <1>6
  <2> QED
    BY <1>1, <2>1, <2>2, <2>3 DEF Describes
<1>7. kind \in {"channel", "invite", "accept", "message", "home"}
  BY DEF Lawful
<1> QED
  BY <1>2, <1>3, <1>4, <1>5, <1>6, <1>7

LEMMA GenesisIsApplied ==
    ASSUME NEW par
    PROVE  /\ Rules(par)!validate_context(Rules(par)!EmptyState, Community, {})
           /\ Describes(Rules(par)!apply(Rules(par)!EmptyState, Community), {Community})
<1> DEFINE none == Rules(par)!EmptyState
           t == Rules(par)!apply(none, Community)
<1>1. none \in State /\ none.community = None /\ Community \in Event
  BY CommunityAssumption DEF Rules!EmptyState, State
<1>2. t \in State
  BY <1>1, ApplyType
<1>3. t = [none EXCEPT !.community = Community, !.owner = Owner,
                       !.members = @ \cup {Owner}, !.administrators = @ \cup {Owner}]
  BY CommunityAssumption DEF Rules!apply, Owner
<1>4. /\ {Community} \cap Acceptance = {} /\ {Community} \cap Invitation = {}
      /\ {x \in {Community} : Payload[x].kind = "channel"} = {}
  BY CommunityAssumption DEF Acceptance, Invitation
<1>5. /\ t.community = Community /\ t.owner = Owner /\ t.members = {Owner}
      /\ t.administrators = {Owner} /\ t.channels = {} /\ t.invitations = {}
      /\ t.accepted_invitations = {} /\ t.home_server = None
  BY <1>1, <1>3 DEF State, Rules!EmptyState
<1> HIDE DEF t
<1>6. Describes(t, {Community})
  BY <1>2, <1>4, <1>5 DEF Describes
<1> QED
  BY <1>1, <1>6, CommunityAssumption DEF Rules!validate_context, t

\* What is judged before an event of T is in T.
Down(par, depth, T, S) == \A x \in T, y \in S : Precedes(par, depth, y, x) => y \in T

\* All events of T have been accepted.
AllTaken(par, outcome, T) ==
    /\ outcome.accepted = T
    /\ outcome.rejected = {}
    /\ IF T = {} THEN outcome.state = Rules(par)!EmptyState ELSE Describes(outcome.state, T)

\* One round of the loop of resolve in a peaceful history.
LEMMA JudgeAccepts ==
    ASSUME NEW par, Good(par), NEW S, Peaceful(par, S), NEW T \in SUBSET S, NEW e \in T,
           Stored(par, T), Stored(par, T \ {e}), e = Community => T = {e},
           NEW outcome, outcome \in Outcome(par, S), AllTaken(par, outcome, T \ {e})
    PROVE  AllTaken(par, Rules(par)!Judge(e, S, outcome), T)
<1>1. PICK U : U = T \ {e}
  OBVIOUS
<1>2. T = U \cup {e} /\ e \notin U /\ e \in S /\ Stored(par, T) /\ Stored(par, U)
  BY <1>1
<1>3. e \in Event /\ U \in SUBSET Event /\ T \in SUBSET Event /\ par[e] \subseteq T
  BY <1>2 DEF Stored, Closed
<1>4. par[e] \subseteq U
  <2>1. e \notin par[e]
    <3>1. {e} \in SUBSET Event /\ {e} # {}
      BY <1>3
    <3>2. \E x \in {e} : par[x] \cap {e} = {}
      BY <3>1 DEF Good, Graph, Acyclic
    <3> QED
      BY <3>2
  <2> QED
    BY <1>2, <1>3, <2>1
<1>5. AllTaken(par, outcome, U) /\ par[e] \subseteq S \ outcome.rejected
  BY <1>1, <1>4 DEF AllTaken
<1>6. /\ Rules(par)!validate_context(outcome.state, e, outcome.accepted)
      /\ Describes(Rules(par)!apply(outcome.state, e), T)
  <2>1. CASE e = Community
    <3>1. U = {} /\ T = {Community}
      BY <1>1, <2>1
    <3>2. outcome.state = Rules(par)!EmptyState /\ outcome.accepted = {}
      BY <1>5, <3>1 DEF AllTaken
    <3> QED
      BY <2>1, <3>1, <3>2, GenesisIsApplied
  <2>2. CASE e # Community
    <3>1. Lawful(par, e) /\ Single(U \cup {e})
      BY <1>2 DEF Peaceful, Single
    <3>2. par[e] # {}
      BY <1>2, <2>2 DEF Stored, Made
    <3>3. Describes(outcome.state, U) /\ outcome.accepted = U
      BY <1>4, <1>5, <3>2 DEF AllTaken
    <3>4. Rules(par)!Ancestry(e) \subseteq U \cup {e}
      <4>1. par \in Graph /\ Closed(par, T)
        BY <1>2 DEF Good, Stored
      <4> QED
        BY <1>2, <1>3, <4>1, AncestryIs
    <3>5. Rules(par)!validate_context(outcome.state, e, U)
      BY <1>2, <1>3, <1>4, <2>2, <3>1, <3>2, <3>3, <3>4, LawfulIsPermitted
    <3>6. Describes(Rules(par)!apply(outcome.state, e), U \cup {e})
      BY <1>3, <2>2, <3>1, <3>3, LawfulIsApplied
    <3> QED
      BY <1>2, <3>3, <3>5, <3>6
  <2> QED
    BY <2>1, <2>2
<1>7. PICK t : t = Rules(par)!apply(outcome.state, e)
  OBVIOUS
<1>8. Rules(par)!Judge(e, S, outcome) = [outcome EXCEPT !.state = t, !.accepted = @ \cup {e}]
  BY <1>5, <1>6, <1>7 DEF Rules!Judge, Outcome
<1>9. PICK new : new = Rules(par)!Judge(e, S, outcome)
  OBVIOUS
<1>10. new.state = t /\ new.accepted = U \cup {e} /\ new.rejected = {}
  BY <1>5, <1>8, <1>9 DEF Outcome, AllTaken
<1> QED
  BY <1>2, <1>6, <1>7, <1>9, <1>10 DEF AllTaken

LEMMA AllAccepted ==
    ASSUME NEW par, Good(par), NEW S, Peaceful(par, S)
    PROVE  /\ Rules(par)!resolve(S).accepted = S
           /\ Rules(par)!resolve(S).rejected = {}
           /\ Describes(Rules(par)!resolve(S).state, S)
<1>1. par \in Graph /\ S \in SUBSET Event /\ S \subseteq Made(par)
      /\ \A x \in S : par[x] \subseteq S
  BY DEF Good, Peaceful, Stored, Closed
<1>2. Decoded(S) = S /\ IsFiniteSet(S) /\ Acyclic(par, S)
  BY <1>1, Finite DEF Good, Decoded
<1>3. PICK depth, v :
          /\ depth \in [S -> Nat]
          /\ v \in [SUBSET S -> Outcome(par, S)]
          /\ Deepens(depth, par, S)
          /\ Judges(v, par, depth, S)
          /\ Rules(par)!resolve(S) = v[S]
  <2>1. PICK depth, v : Resolves(depth, v, par, S)
    BY <1>1, ResolveIs
  <2> QED
    BY <1>2, <2>1 DEF Resolves
<1>4. \A x \in S : \A p \in par[x] : p \in S /\ depth[p] < depth[x]
  BY <1>1, <1>2, <1>3, DepthFacts
<1>5. \A x \in S : depth[x] \in Nat /\ Rules(par)!priority(x) \in Nat /\ x \in Nat
  BY <1>1, <1>3, EventAssumption, PriorityType
<1>6. ASSUME NEW T \in SUBSET S, Down(par, depth, T, S)
      PROVE  Stored(par, T)
  <2>1. \A x \in T : par[x] \subseteq T
    BY <1>4, <1>6 DEF Down, Precedes
  <2> QED
    BY <1>1, <2>1 DEF Stored, Closed
<1>7. ASSUME NEW x \in S, Precedes(par, depth, x, Community), Community \in S
      PROVE  x = Community
  <2>1. Rules(par)!priority(Community) = 0
    BY CommunityAssumption DEF Rules!priority
  <2>2. depth[Community] = 0
    <3>1. \A k \in Nat : (\A p \in par[Community] \cap S : depth[p] < k) => depth[Community] <= k
      BY <1>2, <1>3, <1>7, DepthFacts
    <3>2. depth[Community] <= 0
      BY <3>1 DEF Good
    <3> QED
      BY <1>5, <1>7, <3>2
  <2>3. depth[x] = 0
    BY <1>5, <1>7, <2>2 DEF Precedes
  <2>4. par[x] = {}
    BY <1>4, <1>5, <2>3
  <2> QED
    BY <1>1, <2>4 DEF Made
<1> DEFINE X == {T \in SUBSET S : Down(par, depth, T, S) /\ ~AllTaken(par, v[T], T)}
<1>8. ASSUME X # {} PROVE FALSE
  <2>1. PICK T \in X : \A U \in X : U \subseteq T => U = T
    <3>1. X \in SUBSET SUBSET S
      OBVIOUS
    <3> HIDE DEF X
    <3> QED
      BY <1>2, <1>8, <3>1, LeastSubset
  <2>2. T \in SUBSET S /\ Down(par, depth, T, S) /\ ~AllTaken(par, v[T], T)
    BY <2>1
  <2>3. T # {}
    <3>1. ASSUME T = {} PROVE FALSE
      <4>1. v[T] = Empty(par, S)
        BY <1>2, <1>3, <3>1 DEF Judges
      <4> QED
        BY <1>2, <2>2, <3>1, <4>1 DEF Empty, AllTaken
    <3> QED
      BY <3>1
  <2>4. PICK e : e = Last(par, depth, T)
    OBVIOUS
  <2>5. e \in T /\ \A x \in T : Precedes(par, depth, x, e)
    <3>1. T \in SUBSET Event /\ \A x \in T : depth[x] \in Nat
      BY <1>1, <1>5, <2>2
    <3> QED
      BY <2>3, <2>4, <3>1, LastIs
  <2>6. PICK U : U = T \ {e}
    OBVIOUS
  <2>7. Down(par, depth, U, S)
    <3>1. ASSUME NEW x \in U, NEW y \in S, Precedes(par, depth, y, x) PROVE y \in U
      <4>1. y \in T
        BY <2>2, <2>6, <3>1 DEF Down
      <4>2. ASSUME y = e PROVE FALSE
        <5>1. Precedes(par, depth, x, e) /\ Precedes(par, depth, e, x) /\ x # e
          BY <2>5, <2>6, <3>1, <4>2
        <5>2. x \in S /\ e \in S
          BY <2>2, <2>5, <2>6
        <5> QED
          BY <1>5, <5>1, <5>2 DEF Precedes
      <4> QED
        BY <2>6, <4>1, <4>2
    <3> QED
      BY <3>1 DEF Down
  <2>8. AllTaken(par, v[U], U)
    <3>1. U \in SUBSET S /\ U # T /\ U \subseteq T
      BY <2>2, <2>5, <2>6
    <3>2. U \notin X
      <4> HIDE DEF X
      <4> QED
        BY <2>1, <3>1
    <3> QED
      BY <2>7, <3>1, <3>2
  <2>9. v[T] = Rules(par)!Judge(e, S, v[U])
    BY <1>2, <1>3, <2>2, <2>3, <2>4, <2>6 DEF Judges
  <2>10. e = Community => T = {e}
    <3>1. \A x \in T : x \in S
      BY <2>2
    <3> QED
      BY <1>7, <2>5, <3>1
  <2>11. Stored(par, T) /\ Stored(par, T \ {e}) /\ v[U] \in Outcome(par, S)
    BY <1>3, <1>6, <2>2, <2>6, <2>7
  <2>12. AllTaken(par, Rules(par)!Judge(e, S, v[U]), T)
    <3>1. PICK outcome : outcome = v[U]
      OBVIOUS
    <3>2. outcome \in Outcome(par, S) /\ AllTaken(par, outcome, T \ {e})
      BY <2>6, <2>8, <2>11, <3>1
    <3>3. AllTaken(par, Rules(par)!Judge(e, S, outcome), T)
      BY <2>2, <2>5, <2>10, <2>11, <3>2, JudgeAccepts
    <3> QED
      BY <3>1, <3>3
  <2> QED
    BY <2>2, <2>9, <2>12
<1>9. AllTaken(par, v[S], S)
  <2>1. Down(par, depth, S, S)
    BY DEF Down
  <2> QED
    BY <1>8, <2>1
<1> QED
  BY <1>3, <1>9 DEF AllTaken, Peaceful

\* The one head of an ancestry is the event whose ancestry it is.
LEMMA HeadOfAncestry ==
    ASSUME NEW par \in Graph, NEW i \in Event
    PROVE  HeadsOf(par, Rules(par)!Ancestry(i)) = {i}
<1>1. PICK A : A = Rules(par)!Ancestry(i)
  OBVIOUS
<1>2. i \in A /\ Closed(par, A) /\ \A T : Closed(par, T) /\ i \in T => A \subseteq T
  BY <1>1, AncestryIs
<1>3. A \in SUBSET Event /\ \A x \in A : par[x] \subseteq A
  BY <1>2 DEF Closed
<1>4. \A x \in HeadsOf(par, A) : x = i
  <2>1. ASSUME NEW x \in HeadsOf(par, A), x # i PROVE FALSE
    <3>1. x \in A /\ \A y \in A : x \notin par[y]
      BY <2>1 DEF HeadsOf
    <3>2. Closed(par, A \ {x})
      BY <1>3, <3>1 DEF Closed
    <3> QED
      BY <1>2, <2>1, <3>1, <3>2
  <2> QED
    BY <2>1
<1>5. HeadsOf(par, A) # {}
  <2>1. PICK x \in A : \A y \in A : x \notin par[y]
    BY <1>2, <1>3, Topmost
  <2> QED
    BY <2>1 DEF HeadsOf
<1> QED
  BY <1>1, <1>4, <1>5

\* x keeps its ancestry, and stays lawful.
Undisturbed(par, oth, x) ==
    /\ Rules(oth)!Ancestry(x) = Rules(par)!Ancestry(x)
    /\ Lawful(par, x) => Lawful(oth, x)

LEMMA UndisturbedBelow ==
    ASSUME NEW par \in Graph, NEW oth \in Graph, NEW T, Closed(par, T), NEW e \in T,
           \A x \in T : oth[x] = par[x]
    PROVE  Undisturbed(par, oth, e)
<1>1. Rules(oth)!Ancestry(e) = Rules(par)!Ancestry(e)
  BY AncestrySame
<1>2. oth[e] = par[e]
  OBVIOUS
<1> QED
  BY <1>1, <1>2 DEF Lawful, Undisturbed

\* Judge has accepted an event that resolve goes through last.
LEMMA AcceptedOnTop ==
    ASSUME NEW par, Good(par), NEW oth, Good(oth), NEW S, Peaceful(par, S), NEW e,
           OnTop(oth, par, S, e), NEW outcome, outcome = Rules(oth)!resolve(S \cup {e}),
           e \in outcome.accepted \/ outcome.state.home_server = e,
           NEW before, before = Rules(par)!resolve(S)
    PROVE  /\ Describes(before.state, S)
           /\ Rules(oth)!validate_context(before.state, e, S)
           /\ Rules(oth)!Ancestry(e) = S \cup {e}
<1>1. Stored(par, S) /\ History(par, S) /\ par \in Graph /\ oth \in Graph
  BY StoredIsHistory DEF Peaceful, Good
<1>2. before = Rules(par)!resolve(S)
  OBVIOUS
<1>3. before.accepted = S /\ Describes(before.state, S) /\ before \in Outcome(par, S)
  <2>1. S \in SUBSET Event
    BY <1>1 DEF History
  <2> QED
    BY <1>1, <1>2, <2>1, AllAccepted, ResolveType
<1>4. outcome = Rules(oth)!Judge(e, S \cup {e}, before)
  BY <1>1, <1>2, ResolveGrows
<1>5. Rules(oth)!Ancestry(e) = S \cup {e}
  BY <1>1, AncestryOnTop
<1>6. e \notin before.accepted /\ before.state.home_server # e
  <2>1. e \notin S /\ e # None
    BY NoneAssumption DEF OnTop
  <2> QED
    BY <1>3, <2>1 DEF Describes
<1>7. Rules(oth)!validate_context(before.state, e, before.accepted)
  <2>1. ASSUME ~Rules(oth)!validate_context(before.state, e, before.accepted) PROVE FALSE
    <3>1. outcome = [before EXCEPT !.rejected = @ \cup {e}]
      BY <1>4, <2>1 DEF Rules!Judge
    <3>2. outcome.accepted = before.accepted /\ outcome.state = before.state
      BY <1>3, <3>1 DEF Outcome
    <3> QED
      BY <1>6, <3>2
  <2> QED
    BY <2>1
<1> QED
  BY <1>2, <1>3, <1>5, <1>7

\* What the commands ask of a new event makes it lawful.
LEMMA AcceptedIsLawful ==
    ASSUME NEW par, Good(par), NEW oth, Good(oth), NEW S, Peaceful(par, S), NEW e,
           OnTop(oth, par, S, e), NEW outcome, outcome = Rules(oth)!resolve(S \cup {e}),
           e \in outcome.accepted \/ outcome.state.home_server = e,
           Payload[e].kind \in {"channel", "message", "home", "invite"}
    PROVE  Lawful(oth, e)
<1>0. PICK before : before = Rules(par)!resolve(S)
  OBVIOUS
<1>1. PICK state : /\ Describes(state, S)
                   /\ Rules(oth)!validate_context(state, e, S)
                   /\ Rules(oth)!Ancestry(e) = S \cup {e}
  BY <1>0, AcceptedOnTop
<1>2. Rules(oth)!permits(state, e)
  BY <1>1 DEF Rules!validate_context
<1>3. CASE Payload[e].kind = "channel"
  BY <1>1, <1>2, <1>3 DEF Rules!permits, Rules!require_admin, Describes, Lawful
<1>4. CASE Payload[e].kind = "invite"
  BY <1>1, <1>2, <1>4 DEF Rules!permits, Rules!require_admin, Describes, Lawful
<1>5. CASE Payload[e].kind = "home"
  BY <1>1, <1>2, <1>5 DEF Rules!permits, Rules!require_owner, Describes, Lawful
<1>6. CASE Payload[e].kind = "message"
  <2>1. Author[e] \in state.members /\ Payload[e].subject \in state.channels
    BY <1>2, <1>6 DEF Rules!permits
  <2>2. Author[e] = Owner \/ \E a \in S \cap Acceptance : Author[a] = Author[e]
    BY <1>1, <2>1 DEF Describes
  <2>3. \E c \in S : Payload[c].kind = "channel" /\ Payload[c].subject = Payload[e].subject
    BY <1>1, <2>1 DEF Describes
  <2> QED
    BY <1>1, <1>6, <2>2, <2>3 DEF Lawful
<1> QED
  BY <1>3, <1>4, <1>5, <1>6

----------------------------------------------------------------------------
\* Without restored snapshots

MadeLawfully == \A e \in Made(parents) : Lawful(parents, e)

\* Its author keeps an event.
KeptByAuthor == \A e \in Made(parents) \ {Community} : e \in store[Author[e]]

AcceptOnce ==
    \A e, f \in Made(parents) \cap Acceptance : Author[e] = Author[f] => e = f

\* An acceptance leaves its author's replica by way of the endpoint.
KeptByEndpoint ==
    \A e \in Made(parents) \cap Acceptance, v \in User :
        e \in store[v] /\ v # Author[e] => e \in store[endpoint[Payload[e].subject]]

AcceptancesFit ==
    \A e \in Made(parents) \cap Acceptance :
        Author[e] # Owner /\ endpoint[Payload[e].subject] \in User

RedeemedOnce == \A v \in User : Single(store[v])

JoinFits(u) ==
    /\ join[u].phase = "proved" => store[u] = {}
    /\ join[u].phase \in {"submitted", "approved", "joined"} =>
          \E e \in Made(parents) \cap Acceptance :
              /\ Author[e] = u
              /\ Payload[e].subject = join[u].invitation
              /\ join[u].phase # "submitted" => e \in store[endpoint[join[u].invitation]]

JoinsFit == \A u \in User : JoinFits(u)

\* The events of an author are on top of each other.
Chains ==
    \A e, f \in Made(parents) :
        Author[e] = Author[f] =>
            e \in Rules(parents)!Ancestry(f) \/ f \in Rules(parents)!Ancestry(e)

Orderly ==
    /\ MadeLawfully /\ KeptByAuthor /\ AcceptOnce /\ KeptByEndpoint
    /\ AcceptancesFit /\ RedeemedOnce /\ JoinsFit /\ Chains

\* The histories in a replica are peaceful.
LEMMA PartIsPeaceful ==
    ASSUME IInv, Orderly, NEW u \in User, NEW S, S \subseteq store[u], Stored(parents, S), S # {}
    PROVE  Peaceful(parents, S)
<1>1. S \subseteq Made(parents)
  BY DEF Stored
<1>2. Single(S)
  BY DEF Orderly, RedeemedOnce, Single
<1> QED
  BY <1>1, <1>2 DEF Peaceful, Orderly, MadeLawfully

LEMMA NothingResolved ==
    ASSUME NEW par, Good(par)
    PROVE  Rules(par)!resolve({}).state = Rules(par)!EmptyState
<1>1. PICK depth, v : Resolves(depth, v, par, {})
  BY ResolveIs DEF Good
<1>2. Decoded({}) = {}
  BY DEF Decoded
<1>3. v[{}] = Empty(par, {})
  BY <1>1, <1>2 DEF Resolves, Judges
<1> QED
  BY <1>1, <1>2, <1>3 DEF Resolves, Empty

\* What a replica says of its events.
LEMMA ViewIs ==
    ASSUME IInv, Orderly, NEW u \in User, NEW S, S \subseteq store[u], Stored(parents, S)
    PROVE  IF S = {} THEN View(S).state = Rules(parents)!EmptyState
           ELSE Describes(View(S).state, S) /\ View(S).accepted = S
<1>1. PICK par : par = parents
  OBVIOUS
<1>2. Good(par)
  BY <1>1 DEF IInv, GraphIsGood
<1>3. CASE S = {}
  <2>1. Rules(par)!resolve(S).state = Rules(par)!EmptyState
    BY <1>2, <1>3, NothingResolved
  <2> QED
    BY <1>1, <1>3, <2>1 DEF View
<1>4. CASE S # {}
  <2>1. Peaceful(par, S)
    BY <1>1, <1>4, PartIsPeaceful
  <2>2. Rules(par)!resolve(S).accepted = S /\ Describes(Rules(par)!resolve(S).state, S)
    BY <1>2, <2>1, AllAccepted
  <2> QED
    BY <1>1, <1>4, <2>2 DEF View
<1> QED
  BY <1>3, <1>4

\* Whoever is let in has its acceptance known.
LEMMA Admitted ==
    ASSUME IInv, Orderly, Separate, NEW p \in User, NEW q \in User, Admits(store[p], q),
           NEW e \in Made(parents) \cap Acceptance, Author[e] = q
    PROVE  e \in store[p]
<1>1. PICK state : state = View(store[p]).state
  OBVIOUS
<1>2. q \in state.members \/ q = BoundServer(state)
  BY <1>1 DEF Admits
<1>3. Stored(parents, store[p]) /\ store[p] \subseteq Event
  BY Standing
<1>4. CASE store[p] = {}
  <2>1. state = Rules(parents)!EmptyState
    BY <1>1, <1>3, <1>4, ViewIs
  <2>2. state.members = {} /\ BoundServer(state) = None
    BY <2>1 DEF Rules!EmptyState, BoundServer
  <2> QED
    BY <1>2, <2>2, NoneAssumption
<1>5. CASE store[p] # {}
  <2>1. Describes(state, store[p])
    BY <1>1, <1>3, <1>5, ViewIs
  <2>2. CASE q \in state.members
    <3>1. q # Owner
      BY DEF Orderly, AcceptancesFit
    <3>2. PICK a \in store[p] \cap Acceptance : Author[a] = q
      BY <2>1, <2>2, <3>1 DEF Describes
    <3>3. a \in Made(parents) \cap Acceptance
      BY <1>3, <3>2 DEF Stored
    <3> QED
      BY <3>2, <3>3 DEF Orderly, AcceptOnce
  <2>3. CASE q = BoundServer(state)
    <3>1. state.home_server # None /\ q = Payload[state.home_server].subject
      BY <2>3, NoneAssumption DEF BoundServer
    <3>2. state \in Sane
      <4>1. PICK par, S : par = parents /\ S = store[p]
        OBVIOUS
      <4>2. par \in Graph /\ S \in SUBSET Event
        BY <1>3, <4>1 DEF IInv, GraphIsGood, Good
      <4>3. Rules(par)!resolve(S) \in Outcome(par, S)
        BY <4>2, ResolveType
      <4> QED
        BY <1>1, <4>1, <4>3 DEF Outcome, View
    <3>3. state.home_server \in Event /\ Payload[state.home_server].kind = "home"
      BY <3>1, <3>2 DEF Sane, State
    <3> QED
      BY <3>1, <3>3 DEF Separate
  <2> QED
    BY <1>2, <2>2, <2>3
<1> QED
  BY <1>4, <1>5

\* When an invitation is active, no acceptance of it is known.
LEMMA ActiveMeansUnused ==
    ASSUME IInv, Orderly, NEW u \in User, NEW S, S \subseteq store[u], Stored(parents, S),
           NEW i, i \in Rules(parents)!active_invitations(View(S).state)
    PROVE  \A a \in S \cap Acceptance : Payload[a].subject # i
<1>1. PICK state : state = View(S).state
  OBVIOUS
<1>2. i \in state.invitations /\ i \notin state.accepted_invitations
  BY <1>1 DEF Rules!active_invitations
<1>3. CASE S = {}
  BY <1>3
<1>4. CASE S # {}
  <2>1. Describes(state, S)
    BY <1>1, <1>4, ViewIs
  <2> QED
    BY <1>2, <2>1 DEF Describes
<1> QED
  BY <1>3, <1>4

LEMMA OrderlyAtFirst == Init => Orderly
<1> SUFFICES ASSUME Init PROVE Orderly
  OBVIOUS
<1>1. Made(parents) = {Community}
  BY CommunityAssumption DEF Init, Made
<1>2. Community \notin Acceptance /\ Made(parents) \cap Acceptance = {}
  BY <1>1, CommunityAssumption DEF Acceptance
<1>3. MadeLawfully
  BY <1>1, CommunityAssumption DEF MadeLawfully, Lawful
<1>4. KeptByAuthor
  BY <1>1 DEF KeptByAuthor
<1>5. AcceptOnce /\ KeptByEndpoint /\ AcceptancesFit
  BY <1>2 DEF AcceptOnce, KeptByEndpoint, AcceptancesFit
<1>6. RedeemedOnce
  BY DEF Init, RedeemedOnce, Single
<1>7. JoinsFit
  BY DEF Init, JoinsFit, JoinFits, NoJoin
<1>8. Chains
  <2>1. PICK par : par = parents
    OBVIOUS
  <2>2. par \in Graph
    BY <2>1, Initial DEF IInv, GraphIsGood, Good
  <2>3. Community \in Rules(par)!Ancestry(Community)
    BY <2>2, CommunityAssumption, AncestryIs
  <2> QED
    BY <1>1, <2>1, <2>3 DEF Chains
<1> QED
  BY <1>3, <1>4, <1>5, <1>6, <1>7, <1>8 DEF Orderly

\* The parts that are about the graph and the codes alone.
LEMMA QuietOrder ==
    ASSUME Orderly, UNCHANGED <<parents, endpoint>>
    PROVE  MadeLawfully' /\ AcceptOnce' /\ AcceptancesFit' /\ Chains'
<1>1. MadeLawfully'
  BY DEF Orderly, MadeLawfully
<1>2. AcceptOnce'
  BY DEF Orderly, AcceptOnce
<1>3. AcceptancesFit'
  BY DEF Orderly, AcceptancesFit
<1>4. Chains'
  BY DEF Orderly, Chains
<1> QED
  BY <1>1, <1>2, <1>3, <1>4

\* A join that the step does not touch.
LEMMA JoinKept ==
    ASSUME IInv, Orderly, NEW v \in User, join'[v] = join[v],
           Made(parents) \subseteq Made(parents'),
           \A i \in Invitation : i \in Made(parents) => endpoint'[i] = endpoint[i],
           \A w \in User : store[w] \subseteq store'[w],
           join[v].phase = "proved" => store'[v] = store[v]
    PROVE  JoinFits(v)'
<1>1. JoinFits(v)
  BY DEF Orderly, JoinsFit
<1>2. join[v].phase = "proved" => store'[v] = {}
  BY <1>1 DEF JoinFits
<1>3. ASSUME join[v].phase \in {"submitted", "approved", "joined"}
      PROVE  \E e \in Made(parents') \cap Acceptance :
                 /\ Author[e] = v
                 /\ Payload[e].subject = join[v].invitation
                 /\ join[v].phase # "submitted" => e \in store'[endpoint'[join[v].invitation]]
  <2>1. PICK i : i = join[v].invitation
    OBVIOUS
  <2>2. i \in Invitation /\ i \in Made(parents) /\ endpoint[i] \in User
    BY <1>3, <2>1, Joining
  <2>3. PICK e \in Made(parents) \cap Acceptance :
            /\ Author[e] = v
            /\ Payload[e].subject = i
            /\ join[v].phase # "submitted" => e \in store[endpoint[i]]
    BY <1>1, <1>3, <2>1 DEF JoinFits
  <2>4. endpoint'[i] = endpoint[i] /\ store[endpoint[i]] \subseteq store'[endpoint[i]]
    BY <2>2
  <2> QED
    BY <2>1, <2>3, <2>4
<1> QED
  BY <1>2, <1>3 DEF JoinFits

\* One replica grows.
LEMMA MergeKeeps ==
    ASSUME IInv, Orderly, UNCHANGED <<parents, endpoint>>,
           NEW p \in User, NEW new, new \subseteq Made(parents),
           store' = [store EXCEPT ![p] = store[p] \cup new],
           Single(store[p] \cup new),
           \A e \in new \cap Acceptance :
              p # Author[e] => e \in store'[endpoint[Payload[e].subject]]
    PROVE  /\ MadeLawfully' /\ AcceptOnce' /\ AcceptancesFit' /\ Chains'
           /\ KeptByAuthor' /\ KeptByEndpoint' /\ RedeemedOnce'
           /\ \A w \in User : store[w] \subseteq store'[w]
<1>1. store \in [User -> SUBSET Event]
  BY Standing
<1>2. store'[p] = store[p] \cup new /\ \A w \in User : w # p => store'[w] = store[w]
  BY <1>1
<1>3. \A w \in User : store[w] \subseteq store'[w]
  BY <1>2
<1>4. KeptByAuthor'
  <2>1. ASSUME NEW e \in Made(parents) \ {Community} PROVE e \in store'[Author[e]]
    <3>1. Author[e] \in User /\ e \in store[Author[e]]
      BY AuthorAssumption DEF Orderly, KeptByAuthor, Made
    <3> QED
      BY <1>3, <3>1
  <2> QED
    BY <2>1 DEF KeptByAuthor
<1>5. KeptByEndpoint'
  <2>1. ASSUME NEW e \in Made(parents) \cap Acceptance, NEW v \in User, e \in store'[v],
               v # Author[e]
        PROVE  e \in store'[endpoint[Payload[e].subject]]
    <3>1. CASE e \in store[v]
      <4>1. e \in store[endpoint[Payload[e].subject]]
        BY <2>1, <3>1 DEF Orderly, KeptByEndpoint
      <4>2. endpoint[Payload[e].subject] \in User
        BY DEF Orderly, AcceptancesFit
      <4> QED
        BY <1>3, <4>1, <4>2
    <3>2. CASE e \notin store[v]
      BY <1>2, <2>1, <3>2
    <3> QED
      BY <3>1, <3>2
  <2> QED
    BY <2>1 DEF KeptByEndpoint
<1>6. RedeemedOnce'
  <2>1. ASSUME NEW v \in User PROVE Single(store'[v])
    BY <1>2 DEF Orderly, RedeemedOnce
  <2> QED
    BY <2>1 DEF RedeemedOnce
<1> QED
  BY <1>3, <1>4, <1>5, <1>6, QuietOrder

\* Acceptances that the endpoints have do not meet others.
LEMMA MergeIsSingle ==
    ASSUME IInv, Orderly, NEW p \in User, NEW q \in User, NEW new, new \subseteq store[q],
           \A e \in new \cap Acceptance : e \in store[endpoint[Payload[e].subject]],
           \A e \in new \cap Acceptance, f \in store[p] \cap Acceptance :
              Author[f] = p /\ Payload[e].subject = Payload[f].subject => e = f
    PROVE  Single(store[p] \cup new)
<1>1. Stored(parents, store[p]) /\ Stored(parents, store[q])
  BY Standing
<1>2. store[p] \subseteq Made(parents) /\ store[q] \subseteq Made(parents)
  BY <1>1 DEF Stored
<1>3. ASSUME NEW e \in new \cap Acceptance, NEW f \in store[p] \cap Acceptance,
             Payload[e].subject = Payload[f].subject
      PROVE  e = f
  <2>1. CASE Author[f] = p
    BY <1>3, <2>1
  <2>2. CASE Author[f] # p
    <3>1. f \in Made(parents) \cap Acceptance
      BY <1>2
    <3>2. f \in store[endpoint[Payload[f].subject]] /\ endpoint[Payload[f].subject] \in User
      BY <2>2, <3>1 DEF Orderly, KeptByEndpoint, AcceptancesFit
    <3>3. e \in store[endpoint[Payload[f].subject]]
      BY <1>3
    <3> QED
      BY <1>3, <3>2, <3>3 DEF Orderly, RedeemedOnce, Single
  <2> QED
    BY <2>1, <2>2
<1>4. Single(store[p]) /\ Single(store[q])
  BY DEF Orderly, RedeemedOnce
<1>5. ASSUME NEW e \in (store[p] \cup new) \cap Acceptance,
             NEW f \in (store[p] \cup new) \cap Acceptance,
             Payload[e].subject = Payload[f].subject
      PROVE  e = f
  <2>1. CASE e \in store[p] /\ f \in store[p]
    BY <1>4, <1>5, <2>1 DEF Single
  <2>2. CASE e \in new /\ f \in new
    BY <1>4, <1>5, <2>2 DEF Single
  <2>3. CASE e \in new /\ f \in store[p]
    BY <1>3, <1>5, <2>3
  <2>4. CASE e \in store[p] /\ f \in new
    BY <1>3, <1>5, <2>4
  <2> QED
    BY <2>1, <2>2, <2>3, <2>4
<1> QED
  BY <1>5 DEF Single

LEMMA OrderlyAfterSynchronize ==
    ASSUME IInv, Orderly, Separate, NEW p \in User, NEW q \in User, Synchronize(p, q)
    PROVE  Orderly'
<1>1. /\ UNCHANGED <<parents, endpoint, join>> /\ ~Locked(p)
      /\ Admits(store[p], q) /\ Admits(store[q], p)
  BY DEF Synchronize
<1>2. PICK new \in SUBSET (store[q] \ store[p]) : store' = [store EXCEPT ![p] = store[p] \cup new]
  BY DEF Synchronize
<1>3. Stored(parents, store[p]) /\ Stored(parents, store[q])
  BY Standing
<1>4. new \subseteq store[q] /\ new \subseteq Made(parents) /\ store[p] \subseteq Made(parents)
  BY <1>2, <1>3 DEF Stored
<1>5. ASSUME NEW e \in new \cap Acceptance PROVE e \in store[endpoint[Payload[e].subject]]
  <2>1. e \in Made(parents) \cap Acceptance /\ e \in store[q] /\ e \notin store[p]
    BY <1>2, <1>4
  <2>2. Author[e] # q
    BY <1>1, <2>1, Admitted
  <2> QED
    BY <2>1, <2>2 DEF Orderly, KeptByEndpoint
<1>6. ASSUME NEW e \in new \cap Acceptance, NEW f \in store[p] \cap Acceptance,
             Author[f] = p, Payload[e].subject = Payload[f].subject
      PROVE  e = f
  <2>1. f \in store[q]
    BY <1>1, <1>4, <1>6, Admitted
  <2> QED
    BY <1>4, <1>6, <2>1 DEF Orderly, RedeemedOnce, Single
<1>7. Single(store[p] \cup new)
  BY <1>4, <1>5, <1>6, MergeIsSingle
<1>8. \A e \in new \cap Acceptance :
          p # Author[e] => e \in store'[endpoint[Payload[e].subject]]
  <2>1. ASSUME NEW e \in new \cap Acceptance PROVE e \in store'[endpoint[Payload[e].subject]]
    <3>1. e \in store[endpoint[Payload[e].subject]] /\ e \in Made(parents) \cap Acceptance
      BY <1>4, <1>5
    <3>2. endpoint[Payload[e].subject] \in User
      BY <3>1 DEF Orderly, AcceptancesFit
    <3> QED
      BY <1>2, <3>1, <3>2, Standing
  <2> QED
    BY <2>1
<1>9. /\ MadeLawfully' /\ AcceptOnce' /\ AcceptancesFit' /\ Chains'
      /\ KeptByAuthor' /\ KeptByEndpoint' /\ RedeemedOnce'
      /\ \A w \in User : store[w] \subseteq store'[w]
  BY <1>1, <1>2, <1>4, <1>7, <1>8, MergeKeeps
<1>10. JoinsFit'
  <2>1. ASSUME NEW v \in User PROVE JoinFits(v)'
    <3>1. join[v].phase = "proved" => store'[v] = store[v]
      BY <1>1, <1>2, Standing DEF Locked
    <3> QED
      BY <1>1, <1>9, <3>1, JoinKept
  <2> QED
    BY <2>1 DEF JoinsFit
<1> QED
  BY <1>9, <1>10 DEF Orderly

LEMMA OrderlyAfterImport ==
    ASSUME IInv, Orderly, Separate, NEW p \in User, NEW q \in User, <<p, q>> \in Handover,
           Import(p, q)
    PROVE  Orderly'
<1>1. /\ UNCHANGED <<parents, endpoint, join>> /\ ~Locked(p)
      /\ store' = [store EXCEPT ![p] = store[p] \cup store[q]]
  BY DEF Import, Free
<1>2. Stored(parents, store[p]) /\ Stored(parents, store[q])
  BY Standing
<1>3. store[p] \subseteq Made(parents) /\ store[q] \subseteq Made(parents)
  BY <1>2 DEF Stored
<1>4. \A a \in Acceptance : Author[a] # p /\ Author[a] # q
  BY DEF Separate
<1>5. ASSUME NEW e \in store[q] \cap Acceptance
      PROVE  /\ e \in store[endpoint[Payload[e].subject]]
             /\ e \in store'[endpoint[Payload[e].subject]]
  <2>1. e \in Made(parents) \cap Acceptance /\ Author[e] # q
    BY <1>3, <1>4
  <2>2. endpoint[Payload[e].subject] \in User /\ e \in store[endpoint[Payload[e].subject]]
    BY <2>1 DEF Orderly, AcceptancesFit, KeptByEndpoint
  <2> QED
    BY <1>1, <2>2, Standing
<1>6. Single(store[p] \cup store[q])
  BY <1>4, <1>5, MergeIsSingle
<1>7. /\ MadeLawfully' /\ AcceptOnce' /\ AcceptancesFit' /\ Chains'
      /\ KeptByAuthor' /\ KeptByEndpoint' /\ RedeemedOnce'
      /\ \A w \in User : store[w] \subseteq store'[w]
  BY <1>1, <1>3, <1>5, <1>6, MergeKeeps
<1>8. JoinsFit'
  <2>1. ASSUME NEW v \in User PROVE JoinFits(v)'
    <3>1. join[v].phase = "proved" => store'[v] = store[v]
      BY <1>1, Standing DEF Locked
    <3> QED
      BY <1>1, <1>7, <3>1, JoinKept
  <2> QED
    BY <2>1 DEF JoinsFit
<1> QED
  BY <1>7, <1>8 DEF Orderly

\* Before the genesis event nothing is made.
LEMMA OrderlyAfterCreateCommunity ==
    ASSUME IInv, Orderly, NEW u \in User, CreateCommunity(u)
    PROVE  Orderly'
<1>1. /\ UNCHANGED <<parents, endpoint, join>> /\ ~Locked(u)
      /\ store' = [store EXCEPT ![u] = store[u] \cup {Community}]
      /\ store[u] = {}
  BY DEF CreateCommunity, Free
<1>2. {Community} \subseteq Made(parents) /\ {Community} \cap Acceptance = {}
  BY CommunityAssumption DEF Made, Acceptance
<1>3. Single(store[u] \cup {Community})
  BY <1>1, <1>2 DEF Single
<1>4. /\ MadeLawfully' /\ AcceptOnce' /\ AcceptancesFit' /\ Chains'
      /\ KeptByAuthor' /\ KeptByEndpoint' /\ RedeemedOnce'
      /\ \A w \in User : store[w] \subseteq store'[w]
  BY <1>1, <1>2, <1>3, MergeKeeps
<1>5. JoinsFit'
  <2>1. ASSUME NEW v \in User PROVE JoinFits(v)'
    <3>1. join[v].phase = "proved" => store'[v] = store[v]
      BY <1>1, Standing DEF Locked
    <3> QED
      BY <1>1, <1>4, <3>1, JoinKept
  <2> QED
    BY <2>1 DEF JoinsFit
<1> QED
  BY <1>4, <1>5 DEF Orderly

\* The replicas stay as they are.
LEMMA StillOrder ==
    ASSUME Orderly, UNCHANGED <<parents, store, endpoint>>
    PROVE  /\ MadeLawfully' /\ AcceptOnce' /\ AcceptancesFit' /\ Chains'
           /\ KeptByAuthor' /\ KeptByEndpoint' /\ RedeemedOnce'
           /\ \A v \in User : join'[v] = join[v] => JoinFits(v)'
<1>1. KeptByAuthor'
  BY DEF Orderly, KeptByAuthor
<1>2. KeptByEndpoint'
  BY DEF Orderly, KeptByEndpoint
<1>3. RedeemedOnce'
  BY DEF Orderly, RedeemedOnce
<1>4. \A v \in User : join'[v] = join[v] => JoinFits(v)'
  BY DEF Orderly, JoinsFit, JoinFits
<1> QED
  BY <1>1, <1>2, <1>3, <1>4, QuietOrder

\* What a change of phase does to the joins.
LEMMA Moved ==
    ASSUME IInv, NEW u \in User, NEW phase, Move(u, phase)
    PROVE  /\ join'[u].phase = phase /\ join'[u].invitation = join[u].invitation
           /\ \A v \in User : v # u => join'[v] = join[v]
<1>1. join \in [User -> [phase : Phase, invitation : Invitation \cup {None}]]
  BY Standing
<1> QED
  BY <1>1 DEF Move

LEMMA OrderlyAfterAnswer ==
    ASSUME IInv, Orderly, NEW u \in User, Answer(u) \/ Break(u)
    PROVE  Orderly'
<1>1. UNCHANGED <<parents, store, endpoint>>
  BY DEF Answer, Break
<1>2. PICK phase : /\ Move(u, phase)
                   /\ \/ phase = "failed"
                      \/ phase = "joined" /\ join[u].phase = "approved"
  BY DEF Answer, Break
<1>3. /\ join'[u].phase = phase /\ join'[u].invitation = join[u].invitation
      /\ \A v \in User : v # u => join'[v] = join[v]
  BY <1>2, Moved
<1>4. JoinFits(u)'
  <2>1. CASE phase = "failed"
    BY <1>3, <2>1 DEF JoinFits
  <2>2. CASE phase = "joined" /\ join[u].phase = "approved"
    BY <1>1, <1>3, <2>2 DEF JoinFits, Orderly, JoinsFit
  <2> QED
    BY <1>2, <2>1, <2>2
<1> QED
  BY <1>1, <1>3, <1>4, StillOrder DEF Orderly, JoinsFit

LEMMA OrderlyAfterProve ==
    ASSUME IInv, Orderly, NEW u \in User, NEW i \in Invitation, Prove(u, i)
    PROVE  Orderly'
<1>1. /\ UNCHANGED <<parents, store, endpoint>> /\ store[u] = {}
      /\ join' = [join EXCEPT ![u] = [phase |-> "proved", invitation |-> i]]
  BY DEF Prove
<1>2. join'[u].phase = "proved" /\ \A v \in User : v # u => join'[v] = join[v]
  BY <1>1, Standing
<1>3. JoinFits(u)'
  BY <1>1, <1>2 DEF JoinFits
<1> QED
  BY <1>1, <1>2, <1>3, StillOrder DEF Orderly, JoinsFit

\* The owner has the ancestry of every invitation, and its acceptances are
\* those that their endpoints have.
LEMMA InvitationIsOwners ==
    ASSUME IInv, Orderly, NEW i \in Made(parents), i \in Invitation
    PROVE  /\ Owner \in User /\ i \in store[Owner] /\ Ancestry(i) \subseteq store[Owner]
           /\ Stored(parents, Ancestry(i))
           /\ \A a \in Ancestry(i) \cap Acceptance : a \in store[endpoint[Payload[a].subject]]
<1>1. Author[i] = Owner /\ i # Community /\ i \in Event
  BY CommunityAssumption DEF Orderly, MadeLawfully, Lawful, Invitation
<1>2. Owner \in User /\ i \in store[Owner]
  BY <1>1, AuthorAssumption DEF Orderly, KeptByAuthor
<1>3. Ancestry(i) \subseteq store[Owner] /\ Stored(parents, Ancestry(i))
  <2>1. PICK par : par = parents
    OBVIOUS
  <2>2. Good(par) /\ par \in Graph /\ i \in Made(par) /\ Stored(par, store[Owner])
    BY <1>2, <2>1, Standing DEF IInv, GraphIsGood, Good
  <2>3. Stored(par, Rules(par)!Ancestry(i))
    BY <2>2, AncestryStored
  <2>4. Closed(par, store[Owner])
    BY <2>2 DEF Stored
  <2>5. Rules(par)!Ancestry(i) \subseteq store[Owner]
    BY <1>1, <1>2, <2>2, <2>4, AncestryIs
  <2> QED
    BY <2>1, <2>3, <2>5 DEF Ancestry
<1>4. ASSUME NEW a \in Ancestry(i) \cap Acceptance
      PROVE  a \in store[endpoint[Payload[a].subject]]
  <2>1. a \in Made(parents) \cap Acceptance /\ a \in store[Owner]
    BY <1>3 DEF Stored
  <2>2. Author[a] # Owner
    BY <2>1 DEF Orderly, AcceptancesFit
  <2> QED
    BY <1>2, <2>1, <2>2 DEF Orderly, KeptByEndpoint
<1> QED
  BY <1>2, <1>3, <1>4

LEMMA OrderlyAfterStoreInterrupted ==
    ASSUME IInv, Orderly, NEW u \in User, StoreInterrupted(u)
    PROVE  Orderly'
<1>1. /\ join[u].phase = "proved" /\ Move(u, "failed")
      /\ UNCHANGED <<parents, endpoint>>
  BY DEF StoreInterrupted, Trusts
<1>2. PICK i : i = join[u].invitation
  OBVIOUS
<1>3. PICK S \in SUBSET Ancestry(i) : store' = [store EXCEPT ![u] = S]
  BY <1>2 DEF StoreInterrupted
<1>4. i \in Made(parents) /\ i \in Invitation
  BY <1>1, <1>2, Joining
<1>5. /\ Owner \in User /\ Ancestry(i) \subseteq store[Owner] /\ Stored(parents, Ancestry(i))
      /\ \A a \in Ancestry(i) \cap Acceptance : a \in store[endpoint[Payload[a].subject]]
  BY <1>4, InvitationIsOwners
<1>6. store[u] = {}
  BY <1>1 DEF Orderly, JoinsFit, JoinFits
<1>7. S \subseteq Made(parents) /\ S \subseteq store[Owner]
  BY <1>3, <1>5 DEF Stored
<1>8. store' = [store EXCEPT ![u] = store[u] \cup S]
  BY <1>3, <1>6
<1>9. Single(store[u] \cup S)
  BY <1>5, <1>6, <1>7 DEF Orderly, RedeemedOnce, Single
<1>10. \A e \in S \cap Acceptance :
          u # Author[e] => e \in store'[endpoint[Payload[e].subject]]
  <2>1. ASSUME NEW e \in S \cap Acceptance PROVE e \in store'[endpoint[Payload[e].subject]]
    <3>1. e \in store[endpoint[Payload[e].subject]] /\ e \in Made(parents) \cap Acceptance
      BY <1>3, <1>5, <1>7
    <3>2. endpoint[Payload[e].subject] \in User
      BY <3>1 DEF Orderly, AcceptancesFit
    <3> QED
      BY <1>8, <3>1, <3>2, Standing
  <2> QED
    BY <2>1
<1>11. /\ MadeLawfully' /\ AcceptOnce' /\ AcceptancesFit' /\ Chains'
       /\ KeptByAuthor' /\ KeptByEndpoint' /\ RedeemedOnce'
       /\ \A w \in User : store[w] \subseteq store'[w]
  BY <1>1, <1>7, <1>8, <1>9, <1>10, MergeKeeps
<1>12. JoinsFit'
  <2>1. join'[u].phase = "failed" /\ \A v \in User : v # u => join'[v] = join[v]
    BY <1>1, Moved
  <2>2. ASSUME NEW v \in User PROVE JoinFits(v)'
    <3>1. CASE v = u
      BY <2>1, <3>1 DEF JoinFits
    <3>2. CASE v # u
      <4>1. store'[v] = store[v] /\ join'[v] = join[v]
        BY <1>3, <2>1, <3>2, Standing
      <4> QED
        BY <1>1, <1>11, <4>1, JoinKept
    <3> QED
      BY <3>1, <3>2
  <2> QED
    BY <2>2 DEF JoinsFit
<1> QED
  BY <1>11, <1>12 DEF Orderly

\* The endpoint stores an acceptance only of an invitation it has none of.
LEMMA OrderlyAfterDecide ==
    ASSUME IInv, Orderly, NEW u \in User, NEW e \in Event, Decide(u, e)
    PROVE  Orderly'
<1>1. PICK i, q : i = join[u].invitation /\ q = endpoint[i]
  OBVIOUS
<1>2. /\ join[u].phase = "submitted" /\ e \in store[u] /\ Author[e] = u
      /\ Payload[e].kind = "accept" /\ ~Locked(q)
      /\ UNCHANGED <<parents, endpoint>>
  BY <1>1 DEF Decide
<1>3. i \in Made(parents) /\ i \in Invitation /\ q \in User
  BY <1>1, <1>2, Joining
<1>4. e \in Made(parents) \cap Acceptance
  <2>1. Stored(parents, store[u])
    BY Standing
  <2> QED
    BY <1>2, <2>1 DEF Stored, Acceptance
<1>5. Payload[e].subject = i
  <2>1. PICK f \in Made(parents) \cap Acceptance : Author[f] = u /\ Payload[f].subject = i
    BY <1>1, <1>2 DEF Orderly, JoinsFit, JoinFits
  <2> QED
    BY <1>2, <1>4, <2>1 DEF Orderly, AcceptOnce
<1>6. CASE Approves(q, u, e)
  <2>1. Move(u, "approved") /\ store' = [store EXCEPT ![q] = store[q] \cup {e}]
    BY <1>1, <1>6 DEF Decide
  <2>2. i \in Rules(parents)!active_invitations(View(store[q]).state)
    BY <1>5, <1>6 DEF Approves, Granted
  <2>3. \A a \in store[q] \cap Acceptance : Payload[a].subject # i
    <3>1. Stored(parents, store[q])
      BY <1>3, Standing
    <3> QED
      BY <1>3, <2>2, <3>1, ActiveMeansUnused
  <2>4. Single(store[q] \cup {e})
    <3>1. Single(store[q])
      BY <1>3 DEF Orderly, RedeemedOnce
    <3> QED
      BY <1>5, <2>3, <3>1 DEF Single
  <2>5. e \in store'[q] /\ {e} \subseteq Made(parents)
    BY <1>3, <1>4, <2>1, Standing
  <2>6. \A x \in {e} \cap Acceptance : q # Author[x] => x \in store'[endpoint[Payload[x].subject]]
    BY <1>1, <1>5, <2>5
  <2>7. /\ MadeLawfully' /\ AcceptOnce' /\ AcceptancesFit' /\ Chains'
        /\ KeptByAuthor' /\ KeptByEndpoint' /\ RedeemedOnce'
        /\ \A w \in User : store[w] \subseteq store'[w]
    <3>1. PICK new : new = {e}
      OBVIOUS
    <3>2. /\ new \subseteq Made(parents) /\ Single(store[q] \cup new)
          /\ store' = [store EXCEPT ![q] = store[q] \cup new]
          /\ \A x \in new \cap Acceptance :
                q # Author[x] => x \in store'[endpoint[Payload[x].subject]]
      BY <2>1, <2>4, <2>5, <2>6, <3>1
    <3> QED
      BY <1>2, <1>3, <3>2, MergeKeeps
  <2>8. JoinsFit'
    <3>1. /\ join'[u].phase = "approved" /\ join'[u].invitation = i
          /\ \A v \in User : v # u => join'[v] = join[v]
      BY <1>1, <2>1, Moved
    <3>2. ASSUME NEW v \in User PROVE JoinFits(v)'
      <4>1. CASE v = u
        <5>1. endpoint'[i] = q /\ Made(parents') = Made(parents)
          BY <1>1, <1>2
        <5> QED
          BY <1>2, <1>4, <1>5, <2>5, <3>1, <4>1, <5>1 DEF JoinFits
      <4>2. CASE v # u
        <5>1. join[v].phase = "proved" => store'[v] = store[v]
          BY <1>2, <2>1, Standing DEF Locked
        <5> QED
          BY <1>2, <2>7, <3>1, <4>2, <5>1, JoinKept
      <4> QED
        BY <4>1, <4>2
    <3> QED
      BY <3>2 DEF JoinsFit
  <2> QED
    BY <2>7, <2>8 DEF Orderly
<1>7. CASE ~Approves(q, u, e)
  <2>1. Move(u, "refused") /\ store' = store
    BY <1>1, <1>7 DEF Decide
  <2>2. join'[u].phase = "refused" /\ \A v \in User : v # u => join'[v] = join[v]
    BY <2>1, Moved
  <2>3. JoinFits(u)'
    BY <2>2 DEF JoinFits
  <2> QED
    BY <1>2, <2>1, <2>2, <2>3, StillOrder DEF Orderly, JoinsFit
<1> QED
  BY <1>6, <1>7

\* A new event leaves the others as they were.
LEMMA GrowthKeeps ==
    ASSUME NEW par, Good(par), NEW e \in Event \ Made(par),
           NEW H, H \subseteq Made(par), H # {},
           NEW oth, Good(oth), oth = [par EXCEPT ![e] = H]
    PROVE  /\ Made(oth) = Made(par) \cup {e}
           /\ \A x \in Made(par) : Undisturbed(par, oth, x)
<1>1. par \in [Event -> SUBSET Event] /\ par \in Graph /\ oth \in Graph
  BY DEF Good, Graph
<1>2. oth[e] = H /\ \A x \in Event : x # e => oth[x] = par[x]
  BY <1>1
<1>3. Made(oth) = Made(par) \cup {e}
  <2>1. \A x \in Event : x \in Made(oth) <=> x \in Made(par) \/ x = e
    BY <1>2 DEF Made
  <2> QED
    BY <2>1 DEF Made
<1>4. PICK T : T = Made(par)
  OBVIOUS
<1>5. Closed(par, T) /\ \A x \in T : oth[x] = par[x]
  BY <1>2, <1>4 DEF Good, Closed, Made
<1>6. \A x \in T : Undisturbed(par, oth, x)
  BY <1>1, <1>5, UndisturbedBelow
<1> QED
  BY <1>3, <1>4, <1>6

\* The same of a step that makes an event.
LEMMA MadeAnother ==
    ASSUME IInv, GraphIsGood', NEW e \in Event, Fresh(e), NEW H, H \subseteq Made(parents), H # {},
           parents' = [parents EXCEPT ![e] = H]
    PROVE  /\ Made(parents') = Made(parents) \cup {e} /\ e \notin Made(parents)
           /\ \A x \in Made(parents) :
                 /\ Rules(parents')!Ancestry(x) = Rules(parents)!Ancestry(x)
                 /\ Lawful(parents, x) => Lawful(parents', x)
<1>1. PICK par, oth : par = parents /\ oth = parents'
  OBVIOUS
<1>2. Good(par) /\ Good(oth) /\ e \in Event \ Made(par) /\ H \subseteq Made(par) /\ H # {}
      /\ oth = [par EXCEPT ![e] = H]
  BY <1>1 DEF IInv, GraphIsGood, Fresh, Made
<1>3. /\ Made(oth) = Made(par) \cup {e}
      /\ \A x \in Made(par) : Undisturbed(par, oth, x)
  BY <1>2, GrowthKeeps
<1> QED
  BY <1>1, <1>2, <1>3 DEF Undisturbed

\* An acceptance names an invitation that was made before.
LEMMA SubjectMade ==
    ASSUME IInv, Orderly, NEW e \in Made(parents) \cap Acceptance
    PROVE  Payload[e].subject \in Made(parents) /\ Payload[e].subject \in Invitation
<1>1. parents[e] = {Payload[e].subject} /\ Payload[Payload[e].subject].kind = "invite"
  BY DEF Orderly, MadeLawfully, Lawful, Acceptance
<1>2. parents[e] \subseteq Made(parents)
  BY DEF IInv, GraphIsGood, Good, Made
<1> QED
  BY <1>1, <1>2 DEF Made, Invitation

\* An author appends what its own replica permits.
LEMMA OrderlyAfterAppend ==
    ASSUME IInv, IInv', Orderly, NEW u \in User, NEW e \in Event, Append(u, e),
           Payload[e].kind \in {"channel", "message", "home", "invite"},
           \/ e \in Candidate(u, e, Heads(u)).accepted
           \/ Candidate(u, e, Heads(u)).state.home_server = e,
           \A i \in Invitation : i # e => endpoint'[i] = endpoint[i]
    PROVE  Orderly'
<1>1. /\ Fresh(e) /\ Author[e] = u /\ store[u] # {} /\ ~Locked(u)
      /\ parents' = [parents EXCEPT ![e] = Heads(u)]
      /\ store' = [store EXCEPT ![u] = store[u] \cup {e}]
      /\ join' = join
  BY DEF Append, Free
<1>2. OnTop(parents', parents, store[u], e)
  BY AppendKeeps
<1>3. Stored(parents, store[u]) /\ store \in [User -> SUBSET Event]
  BY Standing
<1>4. Heads(u) = HeadsOf(parents, store[u])
  BY DEF Heads, Rules!Heads, HeadsOf
<1>5. Heads(u) \subseteq store[u] /\ Heads(u) # {}
  BY <1>1, <1>3, <1>4, HeadsFacts DEF IInv, GraphIsGood
<1>6. /\ Made(parents') = Made(parents) \cup {e} /\ e \notin Made(parents)
      /\ \A x \in Made(parents) :
            /\ Rules(parents')!Ancestry(x) = Rules(parents)!Ancestry(x)
            /\ Lawful(parents, x) => Lawful(parents', x)
  <2>1. Heads(u) \subseteq Made(parents) /\ GraphIsGood'
    BY <1>3, <1>5 DEF Stored, IInv
  <2> QED
    BY <1>1, <1>5, <2>1, MadeAnother
<1>7. Lawful(parents', e) /\ Rules(parents')!Ancestry(e) = store[u] \cup {e}
  <2>1. PICK par, oth, S : par = parents /\ oth = parents' /\ S = store[u]
    OBVIOUS
  <2>2. Good(par) /\ Good(oth) /\ Peaceful(par, S) /\ OnTop(oth, par, S, e)
    <3>1. Peaceful(parents, store[u])
      BY <1>1, <1>3, PartIsPeaceful
    <3> QED
      BY <1>2, <2>1, <3>1 DEF IInv, GraphIsGood
  <2>3. PICK outcome : outcome = Rules(oth)!resolve(S \cup {e})
    OBVIOUS
  <2>4. outcome = Candidate(u, e, Heads(u))
    BY <1>1, <2>1, <2>3 DEF Candidate
  <2>5. Lawful(oth, e)
    BY <2>2, <2>3, <2>4, AcceptedIsLawful
  <2>6. Rules(oth)!Ancestry(e) = S \cup {e}
    <3>1. par \in Graph /\ oth \in Graph /\ History(par, S)
      BY <2>2, StoredIsHistory DEF Good, Peaceful
    <3> QED
      BY <2>2, <3>1, AncestryOnTop
  <2> QED
    BY <2>1, <2>5, <2>6
<1>8. MadeLawfully'
  BY <1>6, <1>7 DEF Orderly, MadeLawfully
<1>9. store'[u] = store[u] \cup {e} /\ \A w \in User : w # u => store'[w] = store[w]
  BY <1>1, <1>3
<1>10. \A w \in User : store[w] \subseteq store'[w]
  BY <1>9
<1>11. KeptByAuthor'
  <2>1. ASSUME NEW x \in Made(parents') \ {Community} PROVE x \in store'[Author[x]]
    <3>1. CASE x = e
      BY <1>1, <1>9, <3>1
    <3>2. CASE x # e
      <4>1. x \in store[Author[x]] /\ Author[x] \in User
        BY <1>6, <3>2, AuthorAssumption DEF Orderly, KeptByAuthor, Made
      <4> QED
        BY <1>10, <4>1
    <3> QED
      BY <3>1, <3>2
  <2> QED
    BY <2>1 DEF KeptByAuthor
<1>12. e \notin Acceptance /\ Made(parents') \cap Acceptance = Made(parents) \cap Acceptance
  <2>1. e \notin Acceptance
    BY DEF Acceptance
  <2> QED
    BY <1>6, <2>1
<1>13. AcceptOnce'
  BY <1>12 DEF Orderly, AcceptOnce
<1>14. \A i \in Invitation : i \in Made(parents) => endpoint'[i] = endpoint[i]
  BY <1>6
<1>15. \A x \in Made(parents) \cap Acceptance :
          endpoint'[Payload[x].subject] = endpoint[Payload[x].subject]
  BY <1>14, SubjectMade
<1>16. KeptByEndpoint'
  <2>1. ASSUME NEW x \in Made(parents) \cap Acceptance, NEW v \in User, x \in store'[v],
               v # Author[x]
        PROVE  x \in store'[endpoint'[Payload[x].subject]]
    <3>1. x \in store[v]
      BY <1>9, <1>12, <2>1
    <3>2. x \in store[endpoint[Payload[x].subject]] /\ endpoint[Payload[x].subject] \in User
      BY <2>1, <3>1 DEF Orderly, KeptByEndpoint, AcceptancesFit
    <3> QED
      BY <1>10, <1>15, <3>2
  <2> QED
    BY <1>12, <2>1 DEF KeptByEndpoint
<1>17. AcceptancesFit'
  BY <1>12, <1>15 DEF Orderly, AcceptancesFit
<1>18. RedeemedOnce'
  <2>1. ASSUME NEW v \in User PROVE Single(store'[v])
    <3>1. store'[v] \cap Acceptance = store[v] \cap Acceptance
      BY <1>9, <1>12
    <3> QED
      BY <3>1 DEF Orderly, RedeemedOnce, Single
  <2> QED
    BY <2>1 DEF RedeemedOnce
<1>19. JoinsFit'
  <2>1. ASSUME NEW v \in User PROVE JoinFits(v)'
    <3>1. join[v].phase = "proved" => store'[v] = store[v]
      BY <1>1, <1>9 DEF Locked
    <3>2. Made(parents) \subseteq Made(parents') /\ join'[v] = join[v]
      BY <1>1, <1>6
    <3> QED
      BY <1>10, <1>14, <3>1, <3>2, JoinKept
  <2> QED
    BY <2>1 DEF JoinsFit
<1>20. Chains'
  <2>1. ASSUME NEW x \in Made(parents), Author[x] = u
        PROVE  x \in store[u]
    <3>1. Community \in store[u]
      BY <1>1, <1>3, FromGenesis DEF IInv, GraphIsGood
    <3> QED
      BY <2>1, <3>1 DEF Orderly, KeptByAuthor
  <2>2. ASSUME NEW x \in Made(parents'), NEW y \in Made(parents'), Author[x] = Author[y]
        PROVE  x \in Rules(parents')!Ancestry(y) \/ y \in Rules(parents')!Ancestry(x)
    <3>1. CASE x # e /\ y # e
      <4>1. x \in Made(parents) /\ y \in Made(parents)
        BY <1>6, <3>1
      <4>2. x \in Rules(parents)!Ancestry(y) \/ y \in Rules(parents)!Ancestry(x)
        BY <2>2, <4>1 DEF Orderly, Chains
      <4> QED
        BY <1>6, <4>1, <4>2
    <3>2. CASE x = e
      BY <1>1, <1>6, <1>7, <2>1, <2>2, <3>2
    <3>3. CASE y = e
      BY <1>1, <1>6, <1>7, <2>1, <2>2, <3>3
    <3> QED
      BY <3>1, <3>2, <3>3
  <2> QED
    BY <2>2 DEF Chains
<1> QED
  BY <1>8, <1>11, <1>13, <1>16, <1>17, <1>18, <1>19, <1>20 DEF Orderly

\* Whoever is sent an ancestry has made nothing yet, and nobody has redeemed
\* the invitation in that ancestry.
LEMMA OrderlyAfterReceiveAncestry ==
    ASSUME IInv, IInv', Orderly, NEW u \in User, NEW e \in Event, ReceiveAncestry(u, e)
    PROVE  Orderly'
<1>1. PICK i, A : i = join[u].invitation /\ A = Ancestry(i)
  OBVIOUS
<1>2. /\ join[u].phase = "proved" /\ Fresh(e) /\ Author[e] = u
      /\ Payload[e].kind = "accept" /\ Payload[e].subject = i
      /\ parents' = [parents EXCEPT ![e] = {i}]
      /\ store' = [store EXCEPT ![u] = A \cup {e}]
      /\ Move(u, "submitted") /\ endpoint' = endpoint
      /\ i \in Rules(parents)!active_invitations(View(A).state)
  BY <1>1 DEF ReceiveAncestry, Trusts
<1>3. i \in Made(parents) /\ i \in Invitation /\ endpoint[i] \in User /\ i \in A
  BY <1>1, <1>2, Joining
<1>4. /\ Owner \in User /\ i \in store[Owner] /\ A \subseteq store[Owner] /\ Stored(parents, A)
      /\ \A a \in A \cap Acceptance : a \in store[endpoint[Payload[a].subject]]
  BY <1>1, <1>3, InvitationIsOwners
<1>5. store[u] = {} /\ u # Owner
  <2>1. store[u] = {}
    BY <1>2 DEF Orderly, JoinsFit, JoinFits
  <2> QED
    BY <1>4, <2>1
<1>6. \A x \in Made(parents) : Author[x] # u
  BY <1>5 DEF Orderly, KeptByAuthor, Owner
<1>7. /\ Made(parents') = Made(parents) \cup {e} /\ e \notin Made(parents)
      /\ \A x \in Made(parents) :
            /\ Rules(parents')!Ancestry(x) = Rules(parents)!Ancestry(x)
            /\ Lawful(parents, x) => Lawful(parents', x)
  <2>1. PICK H : H = {i}
    OBVIOUS
  <2>2. H \subseteq Made(parents) /\ H # {} /\ GraphIsGood'
        /\ parents' = [parents EXCEPT ![e] = H]
    BY <1>2, <1>3, <2>1 DEF IInv
  <2> QED
    BY <1>2, <2>2, MadeAnother
<1>8. parents'[e] = {i} /\ \A x \in Event : x # e => parents'[x] = parents[x]
  BY <1>2 DEF IInv, TypeOK
<1>9. Lawful(parents', e)
  <2>1. PICK par, oth : par = parents /\ oth = parents'
    OBVIOUS
  <2>2. Good(par) /\ Good(oth) /\ Peaceful(par, A)
    <3>1. Peaceful(parents, A)
      BY <1>3, <1>4, PartIsPeaceful
    <3> QED
      BY <2>1, <3>1 DEF IInv, GraphIsGood
  <2>3. HeadsOf(par, A) = {i}
    <3>1. par \in Graph /\ i \in Event /\ A = Rules(par)!Ancestry(i)
      BY <1>1, <1>3, <2>1, <2>2 DEF Good, Ancestry, Invitation
    <3> QED
      BY <3>1, HeadOfAncestry
  <2>4. OnTop(oth, par, A, e)
    <3>1. e \notin A /\ A \subseteq Event
      BY <1>4, <1>7 DEF Stored, Closed
    <3> QED
      BY <1>2, <1>8, <2>1, <2>3, <3>1 DEF OnTop
  <2>5. PICK outcome : outcome = Rules(oth)!resolve(A \cup {e})
    OBVIOUS
  <2>6. e \in outcome.accepted
    <3>1. outcome = Rules([parents EXCEPT ![e] = {i}])!resolve(Ancestry(i) \cup {e})
      BY <1>1, <1>2, <2>1, <2>5
    <3> QED
      BY <1>1, <3>1 DEF ReceiveAncestry
  <2>7. PICK before : before = Rules(par)!resolve(A)
    OBVIOUS
  <2>8. Rules(oth)!validate_context(before.state, e, A)
    BY <2>2, <2>4, <2>5, <2>6, <2>7, AcceptedOnTop
  <2>9. Payload[e].sound
    BY <1>2, <2>8 DEF Rules!validate_context, Rules!permits
  <2> QED
    BY <1>2, <1>3, <1>8, <2>9 DEF Lawful, Invitation
<1>10. MadeLawfully'
  BY <1>7, <1>9 DEF Orderly, MadeLawfully
<1>11. store'[u] = A \cup {e} /\ \A w \in User : w # u => store'[w] = store[w]
  BY <1>2, Standing
<1>12. \A w \in User : store[w] \subseteq store'[w]
  BY <1>5, <1>11
<1>13. KeptByAuthor'
  <2>1. ASSUME NEW x \in Made(parents') \ {Community} PROVE x \in store'[Author[x]]
    <3>1. CASE x = e
      BY <1>2, <1>11, <3>1
    <3>2. CASE x # e
      <4>1. x \in store[Author[x]] /\ Author[x] \in User
        BY <1>7, <3>2, AuthorAssumption DEF Orderly, KeptByAuthor, Made
      <4> QED
        BY <1>12, <4>1
    <3> QED
      BY <3>1, <3>2
  <2> QED
    BY <2>1 DEF KeptByAuthor
<1>14. AcceptOnce'
  BY <1>2, <1>6, <1>7 DEF Orderly, AcceptOnce
<1>15. KeptByEndpoint'
  <2>1. ASSUME NEW x \in Made(parents') \cap Acceptance, NEW v \in User, x \in store'[v],
               v # Author[x]
        PROVE  x \in store'[endpoint[Payload[x].subject]]
    <3>1. x # e
      <4>1. \A w \in User : e \notin store[w]
        BY <1>7, Standing DEF Stored
      <4> QED
        BY <1>2, <1>11, <2>1, <4>1
    <3>2. x \in Made(parents) \cap Acceptance
      BY <1>7, <3>1
    <3>3. x \in store[endpoint[Payload[x].subject]]
      <4>1. CASE v = u
        BY <1>4, <1>11, <2>1, <3>1, <4>1
      <4>2. CASE v # u
        BY <1>11, <2>1, <3>2, <4>2 DEF Orderly, KeptByEndpoint
      <4> QED
        BY <4>1, <4>2
    <3>4. endpoint[Payload[x].subject] \in User
      BY <3>2 DEF Orderly, AcceptancesFit
    <3> QED
      BY <1>12, <3>3, <3>4
  <2> QED
    BY <1>2, <2>1 DEF KeptByEndpoint
<1>16. AcceptancesFit'
  BY <1>2, <1>3, <1>5, <1>7 DEF Orderly, AcceptancesFit
<1>17. RedeemedOnce'
  <2>1. \A a \in A \cap Acceptance : Payload[a].subject # i
    BY <1>2, <1>4, ActiveMeansUnused
  <2>2. Single(A)
    BY <1>4 DEF Orderly, RedeemedOnce, Single
  <2>3. Single(A \cup {e})
    BY <1>2, <2>1, <2>2 DEF Single
  <2> QED
    BY <1>11, <2>3 DEF Orderly, RedeemedOnce
<1>18. JoinsFit'
  <2>1. /\ join'[u].phase = "submitted" /\ join'[u].invitation = i
        /\ \A v \in User : v # u => join'[v] = join[v]
    BY <1>1, <1>2, Moved
  <2>2. ASSUME NEW v \in User PROVE JoinFits(v)'
    <3>1. CASE v = u
      <4>1. e \in Made(parents') \cap Acceptance
        BY <1>2, <1>7 DEF Acceptance
      <4> QED
        BY <1>2, <2>1, <3>1, <4>1 DEF JoinFits
    <3>2. CASE v # u
      <4>1. store'[v] = store[v] /\ join'[v] = join[v] /\ Made(parents) \subseteq Made(parents')
        BY <1>7, <1>11, <2>1, <3>2
      <4> QED
        BY <1>2, <1>12, <4>1, JoinKept
    <3> QED
      BY <3>1, <3>2
  <2> QED
    BY <2>2 DEF JoinsFit
<1>19. Chains'
  <2>1. PICK oth : oth = parents'
    OBVIOUS
  <2>2. e \in Rules(oth)!Ancestry(e)
    <3>1. oth \in Graph
      BY <2>1 DEF IInv, GraphIsGood, Good
    <3> QED
      BY <3>1, AncestryIs
  <2>3. ASSUME NEW x \in Made(parents'), NEW y \in Made(parents'), Author[x] = Author[y]
        PROVE  x \in Rules(parents')!Ancestry(y) \/ y \in Rules(parents')!Ancestry(x)
    <3>1. CASE x # e /\ y # e
      <4>1. x \in Made(parents) /\ y \in Made(parents)
        BY <1>7, <3>1
      <4>2. x \in Rules(parents)!Ancestry(y) \/ y \in Rules(parents)!Ancestry(x)
        BY <2>3, <4>1 DEF Orderly, Chains
      <4> QED
        BY <1>7, <4>1, <4>2
    <3>2. CASE x = e \/ y = e
      <4>1. x = e /\ y = e
        BY <1>2, <1>6, <1>7, <2>3, <3>2
      <4> QED
        BY <2>1, <2>2, <4>1
    <3> QED
      BY <3>1, <3>2
  <2> QED
    BY <2>3 DEF Chains
<1> QED
  BY <1>10, <1>13, <1>14, <1>15, <1>16, <1>17, <1>18, <1>19 DEF Orderly

LEMMA OrderlyAfterStep ==
    ASSUME IInv, IInv', Orderly, Separate, [Next]_vars, restores' = 0
    PROVE  Orderly'
<1>1. CASE UNCHANGED vars
  BY <1>1, StillOrder DEF vars, Orderly, JoinsFit
<1>2. ASSUME NEW u \in User, CreateCommunity(u) PROVE Orderly'
  BY <1>2, OrderlyAfterCreateCommunity
<1>3. ASSUME NEW u \in User, StoreInterrupted(u) PROVE Orderly'
  BY <1>3, OrderlyAfterStoreInterrupted
<1>4. ASSUME NEW u \in User, Answer(u) \/ Break(u) PROVE Orderly'
  BY <1>4, OrderlyAfterAnswer
<1>5. ASSUME NEW u \in User, NEW i \in Invitation, Prove(u, i) PROVE Orderly'
  BY <1>5, OrderlyAfterProve
<1>6. ASSUME NEW u \in User, NEW e \in Event,
             CreateChannel(u, e) \/ SendMessage(u, e) \/ SetHomeServer(u, e)
      PROVE  Orderly'
  <2>1. /\ Append(u, e) /\ Payload[e].kind \in {"channel", "message", "home", "invite"}
        /\ \/ e \in Candidate(u, e, Heads(u)).accepted
           \/ Candidate(u, e, Heads(u)).state.home_server = e
        /\ endpoint' = endpoint
    BY <1>6 DEF CreateChannel, SendMessage, SetHomeServer, Permitted
  <2> QED
    BY <2>1, OrderlyAfterAppend
<1>7. ASSUME NEW u \in User, NEW e \in Event, CreateInvite(u, e) PROVE Orderly'
  <2>1. /\ Append(u, e) /\ Payload[e].kind \in {"channel", "message", "home", "invite"}
        /\ e \in Candidate(u, e, Heads(u)).accepted
    BY <1>7 DEF CreateInvite, Invitation
  <2>2. \A i \in Invitation : i # e => endpoint'[i] = endpoint[i]
    <3>1. PICK q : endpoint' = [endpoint EXCEPT ![e] = q]
      BY <1>7 DEF CreateInvite
    <3> QED
      BY <3>1 DEF IInv, TypeOK
  <2> QED
    BY <2>1, <2>2, OrderlyAfterAppend
<1>8. ASSUME NEW u \in User, NEW e \in Event, ReceiveAncestry(u, e) PROVE Orderly'
  BY <1>8, OrderlyAfterReceiveAncestry
<1>9. ASSUME NEW u \in User, NEW e \in Event, Decide(u, e) PROVE Orderly'
  BY <1>9, OrderlyAfterDecide
<1>10. ASSUME NEW pair \in Dial, Synchronize(pair[1], pair[2]) PROVE Orderly'
  BY <1>10, ReplicaAssumption, OrderlyAfterSynchronize
<1>11. ASSUME NEW pair \in Handover, Import(pair[1], pair[2]) PROVE Orderly'
  <2>1. pair[1] \in User /\ pair[2] \in User /\ <<pair[1], pair[2]>> \in Handover
    BY ReplicaAssumption
  <2> QED
    BY <1>11, <2>1, OrderlyAfterImport
<1>12. ASSUME NEW s \in Server, Snapshot(s) PROVE Orderly'
  BY <1>12, StillOrder DEF Snapshot, Orderly, JoinsFit
<1>13. ASSUME NEW s \in Server, Restore(s) PROVE FALSE
  BY <1>13, Standing, RestoresAssumption DEF Restore
<1> QED
  BY <1>1, <1>2, <1>3, <1>4, <1>5, <1>6, <1>7, <1>8, <1>9, <1>10, <1>11, <1>12, <1>13 DEF Next

LEMMA RestoresGrow == IInv /\ [Next]_vars /\ restores' = 0 => restores = 0
<1> SUFFICES ASSUME IInv, [Next]_vars, restores' = 0 PROVE restores = 0
  OBVIOUS
<1>1. ASSUME NEW s \in Server, Restore(s) PROVE FALSE
  BY <1>1, Standing, RestoresAssumption DEF Restore
<1>2. CASE UNCHANGED vars
  BY <1>2 DEF vars
<1>3. \A u \in User : CreateCommunity(u) \/ StoreInterrupted(u) \/ Answer(u) \/ Break(u)
          => restores' = restores
  BY DEF CreateCommunity, StoreInterrupted, Answer, Break
<1>4. \A u \in User, i \in Invitation : Prove(u, i) => restores' = restores
  BY DEF Prove
<1>5. \A u \in User, e \in Event :
          CreateChannel(u, e) \/ SendMessage(u, e) \/ SetHomeServer(u, e) \/ CreateInvite(u, e)
          => restores' = restores
  BY DEF CreateChannel, SendMessage, SetHomeServer, CreateInvite, Append
<1>6. \A u \in User, e \in Event :
          ReceiveAncestry(u, e) \/ Decide(u, e) => restores' = restores
  BY DEF ReceiveAncestry, Decide
<1>7. \A p, q \in User : Synchronize(p, q) \/ Import(p, q) => restores' = restores
  BY DEF Synchronize, Import
<1>8. \A s \in Server : Snapshot(s) => restores' = restores
  BY DEF Snapshot
<1>9. \A pair \in Dial \cup Handover : pair[1] \in User /\ pair[2] \in User
  BY ReplicaAssumption
<1>10. CASE Next
  BY <1>1, <1>3, <1>4, <1>5, <1>6, <1>7, <1>8, <1>9, <1>10 DEF Next
<1> QED
  BY <1>2, <1>10

\* Until a snapshot is restored, all replicas are orderly.
OrderInv == restores = 0 => Orderly

LEMMA OrderInvariance == ASSUME Separate PROVE Spec => []OrderInv
<1>1. Init => OrderInv
  BY OrderlyAtFirst DEF OrderInv
<1>2. IInv /\ IInv' /\ OrderInv /\ [Next]_vars => OrderInv'
  BY OrderlyAfterStep, RestoresGrow DEF OrderInv
<1> QED
  BY <1>1, <1>2, Invariance, PTL DEF Spec

(***************************************************************************)
(* Where nobody who joins operates a Home Server or is handed archives: as *)
(* long as no snapshot is restored, whoever was told that its join was     *)
(* approved is a member in the view of the endpoint, however many others   *)
(* raced for the same code.                                                *)
(***************************************************************************)
THEOREM AlwaysMember == ASSUME Separate PROVE Spec => []JoinedIsMember
<1>1. IInv /\ OrderInv => JoinedIsMember
  <2>1. ASSUME IInv, OrderInv, NEW u \in User, join[u].phase = "joined", restores = 0
        PROVE  u \in View(store[endpoint[join[u].invitation]]).state.members
    <3>1. Orderly
      BY <2>1 DEF OrderInv
    <3>2. PICK q : q = endpoint[join[u].invitation]
      OBVIOUS
    <3>3. q \in User
      BY <2>1, <3>2, Joining
    <3>4. PICK e \in Made(parents) \cap Acceptance : Author[e] = u /\ e \in store[q]
      BY <2>1, <3>1, <3>2 DEF Orderly, JoinsFit, JoinFits
    <3>5. Stored(parents, store[q]) /\ store[q] # {}
      BY <2>1, <3>3, <3>4, Standing
    <3>6. Describes(View(store[q]).state, store[q])
      BY <2>1, <3>1, <3>3, <3>5, ViewIs
    <3> QED
      BY <3>2, <3>4, <3>6 DEF Describes
  <2> QED
    BY <2>1 DEF JoinedIsMember
<1> QED
  BY <1>1, Invariance, OrderInvariance, PTL

\* The graph and the replicas after a step are as good as before it.
LEMMA StepKeepsAccepted ==
    ASSUME IInv, IInv', OrderInv', restores' = 0, NEW u \in User
    PROVE  View(store[u]).accepted \cap store'[u]
               \subseteq Rules(parents')!resolve(store'[u]).accepted
<1>1. PICK par, S : par = parents' /\ S = store'[u]
  OBVIOUS
<1>2. CASE S = {}
  BY <1>1, <1>2
<1>3. CASE S # {}
  <2>1. Good(par) /\ Stored(par, S)
    BY <1>1 DEF IInv, GraphIsGood, StoresAreHistories
  <2>2. Peaceful(par, S)
    <3>1. (\A e \in Made(par) : Lawful(par, e)) /\ Single(S)
      BY <1>1 DEF OrderInv, Orderly, MadeLawfully, RedeemedOnce
    <3> QED
      BY <1>3, <2>1, <3>1 DEF Peaceful, Stored
  <2>3. Rules(par)!resolve(S).accepted = S
    BY <2>1, <2>2, AllAccepted
  <2> QED
    BY <1>1, <2>3
<1> QED
  BY <1>2, <1>3

(***************************************************************************)
(* Until a snapshot is restored, no replica rejects an event that it had   *)
(* accepted: whatever comes in, and in whatever order, there is nothing in *)
(* it that resolve would have to decide against.                           *)
(***************************************************************************)
THEOREM AlwaysAccepted ==
    ASSUME Separate PROVE Spec => AcceptedForever
<1>1. IInv /\ IInv' /\ OrderInv' =>
          [restores' = 0 =>
              \A u \in {v \in User : store'[v] # store[v]} :
                  View(store[u]).accepted \cap store'[u]
                      \subseteq Rules(parents')!resolve(store'[u]).accepted]_vars
  BY StepKeepsAccepted
<1> QED
  BY <1>1, Invariance, OrderInvariance, PTL DEF AcceptedForever

\* What vouches for an author: the genesis event, or an invitation.
LEMMA AuthorsAreVouched ==
    ASSUME IInv, Orderly, NEW u \in User, NEW e \in store[u]
    PROVE  Author[e] = Owner \/ \E a \in store[u] \cap Acceptance : Author[a] = Author[e]
<1>1. Stored(parents, store[u])
  BY Standing
<1>2. e \in Made(parents) /\ e \in Event
  BY <1>1 DEF Stored, Made
<1>3. Lawful(parents, e)
  BY <1>2 DEF Orderly, MadeLawfully
<1>4. CASE Payload[e].kind \in {"create", "channel", "invite", "home"}
  BY <1>3, <1>4 DEF Lawful, Owner
<1>5. CASE Payload[e].kind = "accept"
  BY <1>2, <1>5 DEF Acceptance
<1>6. CASE Payload[e].kind = "message"
  <2>1. Rules(parents)!Ancestry(e) \subseteq store[u]
    <3>1. PICK par : par = parents
      OBVIOUS
    <3>2. par \in Graph /\ Closed(par, store[u])
      BY <1>1, <3>1 DEF IInv, GraphIsGood, Good, Stored
    <3>3. Rules(par)!Ancestry(e) \subseteq store[u]
      BY <1>2, <3>2, AncestryIs
    <3> QED
      BY <3>1, <3>3
  <2> QED
    BY <1>3, <1>6, <2>1 DEF Lawful
<1> QED
  BY <1>3, <1>4, <1>5, <1>6 DEF Lawful

\* Nobody has two heads in a replica.
LEMMA OneHeadEach ==
    ASSUME IInv, Orderly, NEW u \in User, NEW e \in Heads(u), NEW f \in Heads(u),
           Author[e] = Author[f]
    PROVE  e = f
<1>1. PICK par, S : par = parents /\ S = store[u]
  OBVIOUS
<1>2. par \in Graph /\ Stored(par, S) /\ Closed(par, S)
  BY <1>1, Standing DEF IInv, GraphIsGood, Good, Stored
<1>3. \A h \in Heads(u) : h \in S /\ \A y \in S : h \notin par[y]
  BY <1>1 DEF Heads, Rules!Heads
<1>4. S \subseteq Event /\ e \in S /\ f \in S /\ e \in Made(par) /\ f \in Made(par)
  BY <1>2, <1>3 DEF Stored, Closed
<1>5. ASSUME NEW h \in Heads(u), NEW g \in S, h \in Rules(par)!Ancestry(g)
      PROVE  h = g
  <2>1. PICK A : A = Rules(par)!Ancestry(g)
    OBVIOUS
  <2>2. /\ g \in Event /\ g \in A /\ Closed(par, A) /\ A \subseteq S
        /\ \A T : Closed(par, T) /\ g \in T => A \subseteq T
    BY <1>2, <1>4, <2>1, AncestryIs
  <2>3. Closed(par, A \ {h})
    <3>1. \A x \in A : par[x] \subseteq A /\ h \notin par[x]
      BY <1>3, <2>2 DEF Closed
    <3>2. A \ {h} \in SUBSET Event
      BY <2>2 DEF Closed
    <3> QED
      BY <3>1, <3>2 DEF Closed
  <2> QED
    BY <1>5, <2>1, <2>2, <2>3
<1>6. e \in Rules(par)!Ancestry(f) \/ f \in Rules(par)!Ancestry(e)
  BY <1>1, <1>4 DEF Orderly, Chains
<1> QED
  BY <1>4, <1>5, <1>6

\* There is room for the owner and for whoever an invitation let in.
LEMMA HeadsAreFew ==
    ASSUME IInv, Orderly, NEW u \in User, MaxParents \in Nat, Cardinality(Invitation) < MaxParents
    PROVE  Cardinality(Heads(u)) <= MaxParents
<1>1. PICK S : S = store[u]
  OBVIOUS
<1>2. PICK H : H = Heads(u)
  OBVIOUS
<1>3. S \subseteq Event /\ H \subseteq S /\ S \subseteq Made(parents)
  <2>1. Stored(parents, S)
    BY <1>1, Standing
  <2> QED
    BY <1>1, <1>2, <2>1 DEF Stored, Closed, Heads, Rules!Heads
<1>4. PICK T : T = Invitation \cup {Community}
  OBVIOUS
<1>5. IsFiniteSet(H) /\ IsFiniteSet(T) /\ Cardinality(T) <= MaxParents
      /\ Cardinality(H) \in Nat /\ Cardinality(T) \in Nat
  <2>1. IsFiniteSet(H) /\ IsFiniteSet(Invitation)
    BY <1>3, EventAssumption, FS_Subset DEF Invitation
  <2>2. IsFiniteSet(T) /\ Cardinality(T) = Cardinality(Invitation) + 1
    <3>1. Community \notin Invitation
      BY CommunityAssumption DEF Invitation
    <3> QED
      BY <1>4, <2>1, <3>1, FS_AddElement
  <2>3. Cardinality(H) \in Nat /\ Cardinality(Invitation) \in Nat
    BY <2>1, FS_CardinalityType
  <2> QED
    BY <2>1, <2>2, <2>3
<1> DEFINE acceptance(h) == CHOOSE a \in S \cap Acceptance : Author[a] = Author[h]
           door == [h \in H |-> IF Author[h] = Owner THEN Community
                                ELSE Payload[acceptance(h)].subject]
<1>6. ASSUME NEW h \in H, Author[h] # Owner
      PROVE  /\ acceptance(h) \in S \cap Acceptance /\ Author[acceptance(h)] = Author[h]
             /\ door[h] = Payload[acceptance(h)].subject
             /\ door[h] \in Invitation
  <2>1. \E a \in S \cap Acceptance : Author[a] = Author[h]
    BY <1>1, <1>3, <1>6, AuthorsAreVouched
  <2>2. PICK a : a = acceptance(h)
    OBVIOUS
  <2>3. a \in S \cap Acceptance /\ Author[a] = Author[h]
    BY <2>1, <2>2
  <2>4. Payload[a].subject \in Invitation
    BY <1>3, <2>3, SubjectMade
  <2>5. door[h] = Payload[a].subject
    BY <1>6, <2>2
  <2> QED
    BY <2>2, <2>3, <2>4, <2>5
<1>7. \A h \in H : Author[h] = Owner => door[h] = Community
  OBVIOUS
<1>8. \A h \in H : Author[h] # Owner => door[h] # Community
  BY <1>6, CommunityAssumption DEF Invitation
<1>9. door \in [H -> T]
  BY <1>4, <1>6, <1>7
<1>10. ASSUME NEW h \in H, NEW g \in H, door[h] = door[g]
       PROVE  h = g
  <2>1. CASE Author[h] = Owner
    <3>1. Author[g] = Owner
      BY <1>7, <1>8, <1>10, <2>1
    <3> QED
      BY <1>2, <2>1, <3>1, OneHeadEach
  <2>2. CASE Author[h] # Owner
    <3>1. Author[g] # Owner
      BY <1>7, <1>8, <1>10, <2>2
    <3>2. PICK a, b : a = acceptance(h) /\ b = acceptance(g)
      OBVIOUS
    <3>3. /\ a \in S \cap Acceptance /\ Author[a] = Author[h] /\ door[h] = Payload[a].subject
          /\ b \in S \cap Acceptance /\ Author[b] = Author[g] /\ door[g] = Payload[b].subject
      BY <1>6, <2>2, <3>1, <3>2
    <3>4. a = b
      BY <1>1, <1>10, <3>3 DEF Orderly, RedeemedOnce, Single
    <3> QED
      BY <1>2, <3>3, <3>4, OneHeadEach
  <2> QED
    BY <2>1, <2>2
<1>11. ~(Cardinality(T) < Cardinality(H))
  <2> HIDE DEF door
  <2> QED
    BY <1>5, <1>9, <1>10, FS_PigeonHole
<1> QED
  BY <1>2, <1>5, <1>11

\* A declaration e on top of S takes effect.
MayDeclare(par, S, e) ==
    Rules([par EXCEPT ![e] = HeadsOf(par, S)])!resolve(S \cup {e}).state.home_server = e

\* The rules permit a declaration of the owner on top of a peaceful history.
LEMMA DeclarationIsTaken ==
    ASSUME NEW par, Good(par), NEW S, Peaceful(par, S), NEW e \in Event \ Made(par),
           SoundDeclarations, Payload[e].kind = "home", Author[e] = Owner
    PROVE  MayDeclare(par, S, e)
<1>0. PICK H, oth : H = HeadsOf(par, S) /\ oth = [par EXCEPT ![e] = H]
  OBVIOUS
<1>1. Stored(par, S) /\ S # {} /\ History(par, S) /\ S \subseteq Made(par) /\ S \subseteq Event
  BY StoredIsHistory DEF Peaceful, Stored, Closed
<1>2. H \subseteq S /\ H # {} /\ H \subseteq Made(par)
  BY <1>0, <1>1, HeadsFacts
<1>3. Good(oth)
  <2>1. oth = [par EXCEPT ![e] = H] /\ Payload[e].kind # "other"
    BY <1>0
  <2> QED
    BY <1>2, <2>1, Grows
<1>4. par \in Graph /\ oth \in Graph /\ oth[e] = H /\ \A x \in Event : x # e => oth[x] = par[x]
  BY <1>0, <1>3 DEF Good, Graph
<1>5. OnTop(oth, par, S, e)
  BY <1>0, <1>1, <1>4 DEF OnTop
<1>6. PICK before : before = Rules(par)!resolve(S)
  OBVIOUS
<1>7. /\ before.accepted = S /\ before.rejected = {} /\ Describes(before.state, S)
      /\ before \in Outcome(par, S)
  BY <1>1, <1>4, <1>6, AllAccepted, ResolveType
<1>8. Rules(oth)!resolve(S \cup {e}) = Rules(oth)!Judge(e, S \cup {e}, before)
  BY <1>1, <1>4, <1>5, <1>6, ResolveGrows
<1>9. Rules(oth)!validate_context(before.state, e, before.accepted)
  BY <1>2, <1>4, <1>7 DEF Rules!validate_context, Rules!CommunityField, Rules!IsGenesis,
     Rules!permits, Rules!require_owner, Describes, SoundDeclarations
<1>10. PICK t : t = Rules(oth)!apply(before.state, e)
  OBVIOUS
<1>11. t.home_server = e
  BY <1>7, <1>10 DEF Rules!apply, Describes, State
<1>12. Rules(oth)!Judge(e, S \cup {e}, before)
          = [before EXCEPT !.state = t, !.accepted = @ \cup {e}]
  BY <1>2, <1>4, <1>7, <1>9, <1>10 DEF Rules!Judge, Outcome
<1>13. PICK new : new = Rules(oth)!Judge(e, S \cup {e}, before)
  OBVIOUS
<1>14. new.state = t
  BY <1>7, <1>12, <1>13 DEF Outcome
<1> QED
  BY <1>0, <1>8, <1>11, <1>13, <1>14 DEF MayDeclare

(***************************************************************************)
(* And where an event may name one parent more than there are invitations, *)
(* whatever the owner has received, it may declare another Home Server.    *)
(***************************************************************************)
THEOREM AlwaysSelectable ==
    ASSUME Separate, MaxRestores = 0, MaxParents \in Nat, Cardinality(Invitation) < MaxParents,
           SoundDeclarations
    PROVE  Spec => []OwnerMaySelect
<1>1. IInv /\ OrderInv => OwnerMaySelect
  <2>1. ASSUME IInv, OrderInv, NEW u \in User, NEW e \in Event, Fresh(e), Author[e] = u,
               Payload[e].kind = "home", View(store[u]).state.owner = u
        PROVE  /\ Cardinality(Heads(u)) <= MaxParents
               /\ Candidate(u, e, Heads(u)).state.home_server = e
    <3>1. Orderly
      <4>1. restores = 0
        BY <2>1 DEF IInv, TypeOK
      <4> QED
        BY <2>1, <4>1 DEF OrderInv
    <3>2. Stored(parents, store[u])
      BY <2>1, Standing
    <3>3. store[u] # {}
      <4>1. ASSUME store[u] = {} PROVE FALSE
        <5>1. View(store[u]).state = Rules(parents)!EmptyState
          BY <2>1, <3>1, <3>2, <4>1, ViewIs
        <5> QED
          BY <2>1, <5>1, NoneAssumption DEF Rules!EmptyState
      <4> QED
        BY <4>1
    <3>4. u = Owner
      <4>1. Describes(View(store[u]).state, store[u])
        BY <2>1, <3>1, <3>2, <3>3, ViewIs
      <4> QED
        BY <2>1, <4>1 DEF Describes
    <3>5. Candidate(u, e, Heads(u)).state.home_server = e
      <4>1. PICK par, S : par = parents /\ S = store[u]
        OBVIOUS
      <4>2. Good(par) /\ Peaceful(par, S) /\ e \in Event \ Made(par)
        <5>1. Peaceful(parents, store[u])
          BY <2>1, <3>1, <3>2, <3>3, PartIsPeaceful
        <5> QED
          BY <2>1, <4>1, <5>1 DEF IInv, GraphIsGood, Fresh, Made
      <4>3. Author[e] = Owner /\ Payload[e].kind = "home"
        BY <2>1, <3>4
      <4>4. MayDeclare(par, S, e)
        BY <4>2, <4>3, DeclarationIsTaken
      <4>5. Heads(u) = HeadsOf(par, S)
        BY <4>1 DEF Heads, Rules!Heads, HeadsOf
      <4> QED
        BY <4>1, <4>4, <4>5 DEF Candidate, MayDeclare
    <3> QED
      BY <2>1, <3>1, <3>5, HeadsAreFew
  <2> QED
    BY <2>1 DEF OwnerMaySelect
<1> QED
  BY <1>1, Invariance, OrderInvariance, PTL
=============================================================================
