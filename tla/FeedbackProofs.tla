--------------------------- MODULE FeedbackProofs ---------------------------
(***************************************************************************)
(* The feedback form and its service, for any number of clients, browsers, *)
(* texts, pictures and rows: type correctness, that the log replays to the *)
(* table, that the inbox holds the reports that were confirmed, and that a *)
(* receipt tells the truth.                                                *)
(***************************************************************************)
EXTENDS Feedback, Recursion, SequenceTheorems

----------------------------------------------------------------------------
\* Reading the log

\* The latest entry is one of them.
LEMMA LatestIsIn ==
    ASSUME NEW n \in Nat, NEW ks \in SUBSET (1..n), ks # {}
    PROVE  Latest(ks) \in ks /\ \A j \in ks : j <= Latest(ks)
<1>1. ks \in SUBSET (0..n)
  OBVIOUS
<1>2. \E k \in ks : \A j \in ks : j <= k
  BY <1>1, GreatestNumber
<1> QED
  BY <1>2 DEF Latest

\* An entry that is appended is the latest.
LEMMA LatestIsNew ==
    ASSUME NEW n \in Nat, NEW ks \in SUBSET (1..n)
    PROVE  Latest(ks \cup {n + 1}) = n + 1
<1>1. \A j \in ks \cup {n + 1} : j <= n + 1
  OBVIOUS
<1>2. \A k \in ks \cup {n + 1} : (\A j \in ks \cup {n + 1} : j <= k) => k = n + 1
  OBVIOUS
<1> QED
  BY <1>1, <1>2 DEF Latest

\* The log only grows.
LogGrows ==
    /\ audit \in Seq(Entry) /\ audit' \in Seq(Entry)
    /\ Len(audit) <= Len(audit')
    /\ \A k \in 1..Len(audit) : audit'[k] = audit[k]

\* What the first n entries say is read from the same entries later.
LEMMA EntriesStay ==
    ASSUME LogGrows, NEW i, NEW n \in 0..Len(audit), NEW A
    PROVE  /\ Entries(i, n, A)' = Entries(i, n, A)
           /\ Entries(i, n, A) \in SUBSET (1..n)
           /\ Entries(i, n, A) # {} =>
                 audit'[Latest(Entries(i, n, A))] = audit[Latest(Entries(i, n, A))]
<1>1. n \in Nat
  BY DEF LogGrows
<1>2. Entries(i, n, A) \in SUBSET (1..n)
  BY DEF Entries
<1>3. \A k \in 1..n : audit'[k] = audit[k]
  BY DEF LogGrows
<1>4. Entries(i, n, A)' = Entries(i, n, A)
  BY <1>3 DEF Entries
<1>5. ASSUME Entries(i, n, A) # {}
      PROVE  Latest(Entries(i, n, A)) \in 1..n
  BY <1>1, <1>2, <1>5, LatestIsIn
<1> QED
  BY <1>2, <1>3, <1>4, <1>5

\* ... and says the same.
LEMMA AfterStays ==
    ASSUME LogGrows, NEW i, NEW n \in 0..Len(audit)
    PROVE  /\ StatusAfter(i, n)' = StatusAfter(i, n)
           /\ ReplyAfter(i, n)' = ReplyAfter(i, n)
<1>1. /\ Entries(i, n, {"withdraw", "update"})' = Entries(i, n, {"withdraw", "update"})
      /\ Entries(i, n, {"withdraw", "update"}) # {} =>
            audit'[Latest(Entries(i, n, {"withdraw", "update"}))]
                = audit[Latest(Entries(i, n, {"withdraw", "update"}))]
  BY EntriesStay
<1>2. /\ Entries(i, n, {"update"})' = Entries(i, n, {"update"})
      /\ Entries(i, n, {"update"}) # {} =>
            audit'[Latest(Entries(i, n, {"update"}))] = audit[Latest(Entries(i, n, {"update"}))]
  BY EntriesStay
<1> QED
  BY <1>1, <1>2 DEF StatusAfter, ReplyAfter

\* S and x; a name of its own, for the provers.
With(S, x) == S \cup {x}

\* The entries about a review after one more was written.
LEMMA EntriesAppend ==
    ASSUME audit \in Seq(Entry), NEW entry \in Entry, Log(entry),
           NEW n \in Nat, n = Len(audit), NEW m \in Nat, m = n + 1, NEW i, NEW A
    PROVE  /\ Len(audit)' = m /\ n \in Nat
           /\ audit'[m] = entry
           /\ LogGrows
           /\ Entries(i, m, A)' = IF entry.review = i /\ entry.action \in A
                                      THEN With(Entries(i, n, A), m)
                                      ELSE Entries(i, n, A)
           /\ entry.review = i /\ entry.action \in A =>
                 audit'[Latest(With(Entries(i, n, A), m))] = entry
           /\ ~(entry.review = i /\ entry.action \in A) /\ Entries(i, n, A) # {} =>
                 audit'[Latest(Entries(i, n, A))] = audit[Latest(Entries(i, n, A))]
<1>1. /\ audit' \in Seq(Entry) /\ Len(audit)' = m /\ n \in Nat
      /\ audit'[m] = entry /\ \A k \in 1..n : audit'[k] = audit[k]
  BY AppendProperties, LenProperties DEF Log
<1>2. LogGrows
  BY <1>1 DEF LogGrows
<1>3. n \in 0..Len(audit)
  BY <1>1
<1>4. /\ Entries(i, n, A) \in SUBSET (1..n)
      /\ Entries(i, n, A) # {} =>
            audit'[Latest(Entries(i, n, A))] = audit[Latest(Entries(i, n, A))]
  BY <1>2, <1>3, EntriesStay
<1>5. Entries(i, m, A)' = IF entry.review = i /\ entry.action \in A
                              THEN With(Entries(i, n, A), m)
                              ELSE Entries(i, n, A)
  <2>1. 1..m = 1..n \cup {m} /\ m \notin 1..n
    BY <1>1
  <2> QED
    BY <1>1, <2>1 DEF Entries, With
<1>6. entry.review = i /\ entry.action \in A => Latest(With(Entries(i, n, A), m)) = m
  BY <1>1, <1>4, LatestIsNew DEF With
<1> QED
  BY <1>1, <1>2, <1>4, <1>5, <1>6

\* One more entry: what it says of its review, and nothing of the others.
LEMMA AfterAppend ==
    ASSUME audit \in Seq(Entry), NEW entry \in Entry, Log(entry),
           NEW n \in Nat, n = Len(audit), NEW m \in Nat, m = n + 1, NEW i
    PROVE  /\ entry.review = i /\ entry.action = "withdraw" =>
                 StatusAfter(i, m)' = "withdrawn"
           /\ entry.review = i /\ entry.action = "update" =>
                 StatusAfter(i, m)' = entry.status /\ ReplyAfter(i, m)' = entry.reply
           /\ ~(entry.review = i /\ entry.action \in {"withdraw", "update"}) =>
                 StatusAfter(i, m)' = StatusAfter(i, n)
           /\ ~(entry.review = i /\ entry.action = "update") =>
                 ReplyAfter(i, m)' = ReplyAfter(i, n)
<1>1. entry.action \in {"edit", "withdraw", "update"} /\ entry.reply \in BOOLEAN
  BY DEF Entry
<1>2. \A A : /\ Entries(i, m, A)' = IF entry.review = i /\ entry.action \in A
                                         THEN With(Entries(i, n, A), m)
                                         ELSE Entries(i, n, A)
             /\ entry.review = i /\ entry.action \in A =>
                   audit'[Latest(With(Entries(i, n, A), m))] = entry
             /\ ~(entry.review = i /\ entry.action \in A) /\ Entries(i, n, A) # {} =>
                   audit'[Latest(Entries(i, n, A))] = audit[Latest(Entries(i, n, A))]
  BY EntriesAppend
<1>3. ASSUME NEW A, entry.review = i /\ entry.action \in A
      PROVE  /\ Entries(i, m, A)' = With(Entries(i, n, A), m)
             /\ audit'[Latest(With(Entries(i, n, A), m))] = entry
  BY <1>2, <1>3
<1>4. ASSUME NEW A, ~(entry.review = i /\ entry.action \in A)
      PROVE  /\ Entries(i, m, A)' = Entries(i, n, A)
             /\ Entries(i, n, A) # {} =>
                   audit'[Latest(Entries(i, n, A))] = audit[Latest(Entries(i, n, A))]
  BY <1>2, <1>4
<1>5. StatusAfter(i, m)' =
          IF entry.review = i /\ entry.action = "withdraw" THEN "withdrawn"
          ELSE IF entry.review = i /\ entry.action = "update" THEN entry.status
          ELSE StatusAfter(i, n)
  <2>1. CASE entry.review = i /\ entry.action \in {"withdraw", "update"}
    <3>1. /\ Entries(i, m, {"withdraw", "update"})' = With(Entries(i, n, {"withdraw", "update"}), m)
          /\ audit'[Latest(With(Entries(i, n, {"withdraw", "update"}), m))] = entry
      BY <1>3, <2>1
    <3> QED
      BY <2>1, <3>1 DEF StatusAfter, With
  <2>2. CASE ~(entry.review = i /\ entry.action \in {"withdraw", "update"})
    <3>1. /\ Entries(i, m, {"withdraw", "update"})' = Entries(i, n, {"withdraw", "update"})
          /\ Entries(i, n, {"withdraw", "update"}) # {} =>
                audit'[Latest(Entries(i, n, {"withdraw", "update"}))]
                  = audit[Latest(Entries(i, n, {"withdraw", "update"}))]
      BY <1>4, <2>2
    <3> QED
      BY <2>2, <3>1 DEF StatusAfter
  <2> QED
    BY <2>1, <2>2
<1>6. ReplyAfter(i, m)' =
          IF entry.review = i /\ entry.action = "update" THEN entry.reply
          ELSE ReplyAfter(i, n)
  <2>1. CASE entry.review = i /\ entry.action \in {"update"}
    <3>1. /\ Entries(i, m, {"update"})' = With(Entries(i, n, {"update"}), m)
          /\ audit'[Latest(With(Entries(i, n, {"update"}), m))] = entry
      BY <1>3, <2>1
    <3> QED
      BY <1>1, <2>1, <3>1 DEF ReplyAfter, With
  <2>2. CASE ~(entry.review = i /\ entry.action \in {"update"})
    <3>1. /\ Entries(i, m, {"update"})' = Entries(i, n, {"update"})
          /\ Entries(i, n, {"update"}) # {} =>
                audit'[Latest(Entries(i, n, {"update"}))] = audit[Latest(Entries(i, n, {"update"}))]
      BY <1>4, <2>2
    <3> QED
      BY <2>2, <3>1 DEF ReplyAfter
  <2> QED
    BY <2>1, <2>2
<1> QED
  BY <1>5, <1>6

----------------------------------------------------------------------------
\* What changes of the table and of the log leave in place

\* The table keeps its rows and what kind of review each is.
TableGrows ==
    /\ reviews \in Seq(Row) /\ reviews' \in Seq(Row)
    /\ Len(reviews) <= Len(reviews')
    /\ \A i \in 1..Len(reviews) : reviews'[i].surface = reviews[i].surface

\* An entry and the change of the row that it describes.
Applies(entry) ==
    /\ reviews' \in Seq(Row) /\ Len(reviews') = Len(reviews)
    /\ \A i \in 1..Len(reviews) :
          /\ reviews'[i].surface = reviews[i].surface
          /\ reviews'[i].file = reviews[i].file
          /\ reviews'[i].status =
                IF entry.review = i /\ entry.action = "withdraw" THEN "withdrawn"
                ELSE IF entry.review = i /\ entry.action = "update" THEN entry.status
                ELSE reviews[i].status
          /\ reviews'[i].reply =
                IF entry.review = i /\ entry.action = "update" THEN entry.reply
                ELSE reviews[i].reply
          /\ reviews'[i].text =
                IF entry.review = i /\ entry.action = "edit" THEN entry.text
                ELSE reviews[i].text

\* The log goes on replaying to the table when both change by the same entry.
LEMMA ReplaysOneMore ==
    ASSUME audit \in Seq(Entry), reviews \in Seq(Row), AuditReplays,
           NEW entry \in Entry, Log(entry), Applies(entry)
    PROVE  AuditReplays'
<1> DEFINE n == Len(audit)
<1>1. n \in Nat /\ n + 1 \in Nat
  BY LenProperties
<1>2. PICK k \in Nat, m \in Nat : k = Len(audit) /\ m = k + 1
  BY <1>1
<1>3. ASSUME NEW i \in 1..Len(reviews)
      PROVE  /\ Len(audit)' = m
             /\ reviews'[i].status = StatusAfter(i, m)'
             /\ reviews'[i].reply = ReplyAfter(i, m)'
             /\ Entries(i, m, {"edit"})' # {} =>
                   reviews'[i].text = audit'[Latest(Entries(i, m, {"edit"})')].text
  <2>1. /\ reviews[i].status = StatusAfter(i, k)
        /\ reviews[i].reply = ReplyAfter(i, k)
        /\ Entries(i, k, {"edit"}) # {} =>
              reviews[i].text = audit[Latest(Entries(i, k, {"edit"}))].text
    BY <1>2 DEF AuditReplays
  <2>2. /\ entry.review = i /\ entry.action = "withdraw" =>
              StatusAfter(i, m)' = "withdrawn"
        /\ entry.review = i /\ entry.action = "update" =>
              StatusAfter(i, m)' = entry.status /\ ReplyAfter(i, m)' = entry.reply
        /\ ~(entry.review = i /\ entry.action \in {"withdraw", "update"}) =>
              StatusAfter(i, m)' = StatusAfter(i, k)
        /\ ~(entry.review = i /\ entry.action = "update") =>
              ReplyAfter(i, m)' = ReplyAfter(i, k)
    BY <1>2, AfterAppend
  <2>3. \A A : /\ Entries(i, m, A)' = IF entry.review = i /\ entry.action \in A
                                         THEN With(Entries(i, k, A), m)
                                         ELSE Entries(i, k, A)
               /\ entry.review = i /\ entry.action \in A =>
                     audit'[Latest(With(Entries(i, k, A), m))] = entry
               /\ ~(entry.review = i /\ entry.action \in A) /\ Entries(i, k, A) # {} =>
                     audit'[Latest(Entries(i, k, A))] = audit[Latest(Entries(i, k, A))]
    BY <1>2, EntriesAppend
  <2>4. Len(audit)' = m
    BY <1>2, EntriesAppend
  <2>5. CASE entry.review = i /\ entry.action = "edit"
    <3>1. /\ Entries(i, m, {"edit"})' = With(Entries(i, k, {"edit"}), m)
          /\ audit'[Latest(With(Entries(i, k, {"edit"}), m))] = entry
      BY <2>3, <2>5
    <3>2. reviews'[i].text = entry.text
      BY <2>5 DEF Applies
    <3>3. /\ reviews'[i].status = reviews[i].status
          /\ reviews'[i].reply = reviews[i].reply
      BY <2>5 DEF Applies
    <3> QED
      BY <2>1, <2>2, <2>4, <2>5, <3>1, <3>2, <3>3
  <2>6. CASE ~(entry.review = i /\ entry.action = "edit")
    <3>1. /\ Entries(i, m, {"edit"})' = Entries(i, k, {"edit"})
          /\ Entries(i, k, {"edit"}) # {} =>
                audit'[Latest(Entries(i, k, {"edit"}))] = audit[Latest(Entries(i, k, {"edit"}))]
      BY <2>3, <2>6
    <3>2. reviews'[i].text = reviews[i].text
      BY <2>6 DEF Applies
    <3>3. /\ reviews'[i].status = StatusAfter(i, m)'
          /\ reviews'[i].reply = ReplyAfter(i, m)'
      BY <2>1, <2>2 DEF Applies
    <3> QED
      BY <2>1, <2>4, <3>1, <3>2, <3>3
  <2> QED
    BY <2>5, <2>6
<1>4. Len(reviews') = Len(reviews)
  BY DEF Applies
<1> QED
  BY <1>3, <1>4 DEF AuditReplays

----------------------------------------------------------------------------
\* The inductive invariant

\* The numbers of the reviews.
Rows == 1..Len(reviews)

\* The reviews of browsers.
Owned == {i \in Rows : reviews[i].surface = "prototype"}

\* The receipts that tell what a report of a client has had at one time.
Truths == {r \in Receipt : /\ r.review \in Rows
                           /\ reviews[r.review].surface = "desktop"
                           /\ \E n \in 0..Len(audit) :
                                 /\ r.status = StatusAfter(r.review, n)
                                 /\ r.reply = ReplyAfter(r.review, n)}

\* What s may have asked for and got, given the reports that were sent, the
\* numbers of the reviews, those of browsers, and the true receipts.
Fits(s, r, sent, rows, owned, truths) ==
    /\ r \in Request
    /\ r.op = "none" => r = NoRequest
    /\ r.op # "none" => r.at # "idle"
    /\ s \in App => r.op \in {"none", "create", "receipt"} /\ r.surface = "desktop"
    /\ s \in Browser => /\ r.op \in {"none", "create", "edit", "withdraw"}
                        /\ r.at \in {"idle", "sent", "saved", "read"}
                        /\ r.op = "create" => r.surface = "prototype"
    /\ r.at = "saved" => r.op = "create"
    /\ r.at = "sent" => r.file = None
    /\ r.op = "create" /\ r.at \in {"sent", "saved"} =>
          /\ r.text \in Text
          /\ s \in App => [text |-> r.text, picture |-> r.picture] \in sent
    /\ r.op = "edit" => r.text \in Text
    /\ r.op \in {"edit", "withdraw"} => r.review \in owned
    /\ r.op = "receipt" /\ r.at = "sent" => r.review \in rows
    /\ r.at \in {"answered", "received"} =>
          [review |-> r.review, status |-> r.status, reply |-> r.reply] \in truths

RequestsFit == \A s \in Sender : Fits(s, request[s], submitted, Rows, Owned, Truths)

\* The log has entries of rows of the table, and both are within the bound.
EntriesNameRows == \A k \in 1..Len(audit) : audit[k].review \in Rows

Within == Len(reviews) + Len(audit) <= MaxWrites

\* A picture belongs to one row or to one request that will insert one.
Holds(r, pictures) ==
    IF r.file = None THEN r.picture = None
    ELSE pictures[r.file] = r.picture /\ r.picture # None

Attached(r) == r.at = "saved" /\ r.file # None

FilesAreApart ==
    /\ \A s \in Sender : request[s].at = "saved" => Holds(request[s], images)
    /\ \A i \in Rows : reviews[i].file # None =>
          /\ images[reviews[i].file] # None
          /\ \A s \in Sender : Attached(request[s]) => request[s].file # reviews[i].file
    /\ \A r, s \in Sender :
          Attached(request[r]) /\ Attached(request[s]) /\ request[r].file = request[s].file
              => r = s

ReceiptsAreTrue ==
    /\ \A a \in App : receipt[a] # None => receipt[a] \in Truths
    /\ file \notin {None, Torn} => file \in Truths

SavingHasReceived == \A a \in App : process[a] = "saving" => request[a].at = "received"

(***************************************************************************)
(* The inductive invariant.  The properties that are checked are four of   *)
(* its parts. The rest says what a request leans on while it is under way  *)
(* (RequestsFit), that the log is about rows of the table, and that a      *)
(* picture has one owner (FilesAreApart), so that the removal of a         *)
(* screenshot after a failed insertion takes no report's picture away.     *)
(***************************************************************************)
IInv ==
    /\ TypeOK
    /\ Within
    /\ EntriesNameRows
    /\ AuditReplays
    /\ RequestsFit
    /\ FilesAreApart
    /\ InboxHoldsReports
    /\ ReceiptsAreTrue
    /\ SavingHasReceived

\* The parts of the invariant that are about the service, and about the clients.
ServerType ==
    /\ reviews \in Seq(Row)
    /\ images \in [File -> Picture \cup {None}]
    /\ audit \in Seq(Entry)
    /\ request \in [Sender -> Request]
    /\ submitted \subseteq Report

ServerInv ==
    /\ ServerType /\ Within /\ EntriesNameRows /\ AuditReplays
    /\ RequestsFit /\ FilesAreApart /\ InboxHoldsReports

ClientType ==
    /\ process \in [App -> {"closed", "open", "saving"}]
    /\ form \in [App -> [open : BOOLEAN, text : Text \cup {None},
                         picture : Picture \cup {None}, confirmed : BOOLEAN,
                         capturing : BOOLEAN]]
    /\ receipt \in [App -> Receipt \cup {None}]
    /\ file \in Receipt \cup {None, Torn}

ClientInv == ClientType /\ ReceiptsAreTrue /\ SavingHasReceived

LEMMA InvIsBoth ==
    /\ IInv <=> ServerInv /\ ClientInv
    /\ IInv' <=> ServerInv' /\ ClientInv'
<1>1. TypeOK <=> ServerType /\ ClientType
  BY DEF TypeOK, ServerType, ClientType
<1>2. TypeOK' <=> ServerType' /\ ClientType'
  BY DEF TypeOK, ServerType, ClientType
<1> QED
  BY <1>1, <1>2 DEF IInv, ServerInv, ClientInv

\* More rows and more entries: what was true stays true.
LEMMA Grown ==
    ASSUME TableGrows, LogGrows
    PROVE  Rows \subseteq Rows' /\ Owned \subseteq Owned' /\ Truths \subseteq Truths'
<1>1. Len(reviews) \in Nat /\ Len(reviews') \in Nat /\ Len(audit) \in Nat /\ Len(audit') \in Nat
  BY LenProperties DEF TableGrows, LogGrows
<1>2. Rows \subseteq Rows'
  BY <1>1 DEF Rows, TableGrows
<1>3. Owned \subseteq Owned'
  BY <1>2 DEF Owned, Rows, TableGrows
<1>4. ASSUME NEW r \in Truths
      PROVE  r \in Truths'
  <2>1. r \in Receipt /\ r.review \in Rows /\ reviews[r.review].surface = "desktop"
    BY DEF Truths
  <2>2. PICK n \in 0..Len(audit) : /\ r.status = StatusAfter(r.review, n)
                                  /\ r.reply = ReplyAfter(r.review, n)
    BY DEF Truths
  <2>3. PICK i : i = r.review
    OBVIOUS
  <2>4. StatusAfter(i, n)' = StatusAfter(i, n) /\ ReplyAfter(i, n)' = ReplyAfter(i, n)
    BY AfterStays
  <2>5. r.status = StatusAfter(r.review, n)' /\ r.reply = ReplyAfter(r.review, n)'
    BY <2>2, <2>3, <2>4
  <2>6. n \in 0..Len(audit')
    BY <1>1 DEF LogGrows
  <2>7. r.review \in Rows' /\ reviews'[r.review].surface = "desktop"
    BY <1>2, <2>1 DEF Rows, TableGrows
  <2> QED
    BY <2>1, <2>5, <2>6, <2>7 DEF Truths
<1> QED
  BY <1>2, <1>3, <1>4

\* A request that fits goes on fitting while the state it leans on grows.
LEMMA FitsMore ==
    ASSUME NEW s, NEW r, NEW sent, NEW rows, NEW owned, NEW truths,
           NEW sent2, NEW rows2, NEW owned2, NEW truths2,
           Fits(s, r, sent, rows, owned, truths),
           sent \subseteq sent2, rows \subseteq rows2,
           owned \subseteq owned2, truths \subseteq truths2
    PROVE  Fits(s, r, sent2, rows2, owned2, truths2)
<1> QED
  BY DEF Fits

LEMMA NoRequestFits ==
    ASSUME NEW s, NEW sent, NEW rows, NEW owned, NEW truths
    PROVE  Fits(s, NoRequest, sent, rows, owned, truths)
<1> QED
  BY ReviewAssumption DEF Fits, NoRequest, Request

LEMMA ErrorFits ==
    ASSUME NEW s \in Sender, RequestsFit, request[s].op # "none",
           NEW sent, NEW rows, NEW owned, NEW truths
    PROVE  Fits(s, Error(s), sent, rows, owned, truths)
<1>1. CASE s \in App
  <2>1. request[s].op \in {"create", "receipt"}
    BY <1>1 DEF RequestsFit, Fits
  <2>2. Error(s) = [NoRequest EXCEPT !.op = request[s].op, !.at = "failed"]
    BY <1>1 DEF Error
  <2>3. PICK q, op : q = Error(s) /\ op = request[s].op
    OBVIOUS
  <2>4. q = [op |-> op, at |-> "failed", surface |-> "desktop", review |-> 0,
             status |-> "pending", reply |-> FALSE, text |-> None, picture |-> None,
             file |-> None]
    BY <2>2, <2>3 DEF NoRequest
  <2>5. 0 \in 0..MaxWrites
    BY ReviewAssumption
  <2>6. /\ q \in Request /\ q.op \in {"create", "receipt"} /\ q.at = "failed"
        /\ q.surface = "desktop"
    BY <2>1, <2>3, <2>4, <2>5, ReviewAssumption DEF Request
  <2>7. s \notin Browser
    BY <1>1, ReviewAssumption
  <2>8. Fits(s, q, sent, rows, owned, truths)
    BY <2>6, <2>7 DEF Fits
  <2> QED
    BY <2>3, <2>8
<1>2. CASE s \notin App
  BY <1>2, NoRequestFits DEF Error
<1> QED
  BY <1>1, <1>2

\* A request that is under way is not the empty one.
LEMMA Busy ==
    ASSUME NEW s \in Sender, RequestsFit, request[s].at # "idle"
    PROVE  request[s].op # "none"
<1>1. request[s].op = "none" => request[s] = NoRequest
  BY DEF RequestsFit, Fits
<1> QED
  BY <1>1 DEF NoRequest

\* One request is replaced by another that fits.
LEMMA RequestsReplaced ==
    ASSUME request \in [Sender -> Request], RequestsFit, submitted \subseteq submitted',
           Rows \subseteq Rows', Owned \subseteq Owned', Truths \subseteq Truths',
           NEW s \in Sender, NEW q, request' = [request EXCEPT ![s] = q],
           Fits(s, q, submitted', Rows', Owned', Truths')
    PROVE  RequestsFit' /\ request' \in [Sender -> Request]
<1>1. ASSUME NEW r \in Sender
      PROVE  Fits(r, request'[r], submitted', Rows', Owned', Truths')
  <2>1. CASE r = s
    BY <2>1
  <2>2. CASE r # s
    <3>1. request'[r] = request[r]
      BY <2>2
    <3>2. Fits(r, request[r], submitted, Rows, Owned, Truths)
      BY DEF RequestsFit
    <3>3. Fits(r, request[r], submitted', Rows', Owned', Truths')
      BY <3>2, FitsMore
    <3> QED
      BY <3>1, <3>3
  <2> QED
    BY <2>1, <2>2
<1>2. q \in Request
  BY DEF Fits
<1> QED
  BY <1>1, <1>2 DEF RequestsFit

\* Rows keep their files and, for reports, their texts; files keep their
\* pictures; no request gets a file.
LEMMA FilesStay ==
    ASSUME FilesAreApart, InboxHoldsReports, images' = images, Rows' = Rows,
           submitted \subseteq submitted',
           \A s \in Sender : request'[s].at = "saved" => request'[s] = request[s],
           \A i \in Rows : /\ reviews'[i].file = reviews[i].file
                           /\ reviews'[i].surface = reviews[i].surface
                           /\ reviews[i].surface = "desktop" => reviews'[i].text = reviews[i].text
    PROVE  FilesAreApart' /\ InboxHoldsReports'
<1>1. \A s \in Sender : request'[s].at = "saved" => Holds(request'[s], images')
  BY DEF FilesAreApart
<1>2. \A s \in Sender : Attached(request'[s]) => request'[s] = request[s] /\ Attached(request[s])
  BY DEF Attached
<1>3. FilesAreApart'
  BY <1>1, <1>2 DEF FilesAreApart
<1>4. InboxHoldsReports'
  BY DEF InboxHoldsReports, Rows
<1> QED
  BY <1>3, <1>4

\* Steps that leave the table, the log and the files alone.
LEMMA Quiet ==
    ASSUME ServerInv, UNCHANGED <<reviews, images, audit>>
    PROVE  Rows' = Rows /\ Owned' = Owned /\ Truths' = Truths
<1> QED
  BY DEF Rows, Owned, Truths, StatusAfter, ReplyAfter, Entries

LEMMA ReplaysStay ==
    ASSUME AuditReplays, UNCHANGED <<reviews, audit>>
    PROVE  AuditReplays'
<1>1. \A i, n, A : Entries(i, n, A)' = Entries(i, n, A)
  BY DEF Entries
<1>2. \A i, n : StatusAfter(i, n)' = StatusAfter(i, n)
  BY <1>1 DEF StatusAfter
<1>3. \A i, n : ReplyAfter(i, n)' = ReplyAfter(i, n)
  BY <1>1 DEF ReplyAfter
<1> QED
  BY <1>1, <1>2, <1>3 DEF AuditReplays

\* ... keep the invariant of the service if the requests fit.
LEMMA QuietServer ==
    ASSUME ServerInv, UNCHANGED <<reviews, images, audit>>,
           submitted \subseteq submitted', submitted' \subseteq Report,
           RequestsFit', request' \in [Sender -> Request],
           \A s \in Sender : request'[s].at = "saved" => request'[s] = request[s]
    PROVE  ServerInv'
<1>1. Rows' = Rows
  BY Quiet
<1>2. ServerType'
  BY DEF ServerInv, ServerType
<1>3. Within' /\ EntriesNameRows'
  BY <1>1 DEF ServerInv, Within, EntriesNameRows
<1>4. AuditReplays'
  BY ReplaysStay DEF ServerInv
<1>5. FilesAreApart' /\ InboxHoldsReports'
  BY <1>1, FilesStay DEF ServerInv
<1> QED
  BY <1>2, <1>3, <1>4, <1>5 DEF ServerInv

LEMMA QuietRequest ==
    ASSUME ServerInv, UNCHANGED <<reviews, images, audit>>,
           submitted \subseteq submitted', submitted' \subseteq Report,
           NEW s \in Sender, NEW q, request' = [request EXCEPT ![s] = q], q.at # "saved",
           Fits(s, q, submitted', Rows, Owned, Truths)
    PROVE  ServerInv'
<1>1. Rows' = Rows /\ Owned' = Owned /\ Truths' = Truths
  BY Quiet
<1>2. RequestsFit' /\ request' \in [Sender -> Request]
  BY <1>1, RequestsReplaced DEF ServerInv, ServerType
<1>3. \A r \in Sender : request'[r].at = "saved" => request'[r] = request[r]
  BY DEF ServerInv, ServerType
<1> QED
  BY <1>2, <1>3, QuietServer

\* The answer a request is replaced by.
Answer(s, i, status, reply) ==
    IF s \in Browser THEN NoRequest
    ELSE [Error(s) EXCEPT !.at = "answered", !.review = i, !.status = status, !.reply = reply]

\* An answer fits when it tells the truth.
LEMMA AnswerFits ==
    ASSUME NEW s \in Sender, RequestsFit, request[s].op # "none",
           NEW i, NEW status, NEW reply, NEW sent, NEW rows, NEW owned, NEW truths,
           truths \subseteq Receipt,
           s \in App => [review |-> i, status |-> status, reply |-> reply] \in truths
    PROVE  Fits(s, Answer(s, i, status, reply), sent, rows, owned, truths)
<1>1. CASE s \in Browser
  BY <1>1, NoRequestFits DEF Answer
<1>2. CASE s \notin Browser
  <2>1. s \in App
    BY <1>2 DEF Sender
  <2>2. request[s].op \in {"create", "receipt"}
    BY <2>1 DEF RequestsFit, Fits
  <2>3. PICK q, op : q = Answer(s, i, status, reply) /\ op = request[s].op
    OBVIOUS
  <2>4. q = [op |-> op, at |-> "answered", surface |-> "desktop", review |-> i,
             status |-> status, reply |-> reply, text |-> None, picture |-> None,
             file |-> None]
    BY <1>2, <2>1, <2>3 DEF Answer, Error, NoRequest
  <2>5. i \in 0..MaxWrites /\ status \in Status /\ reply \in BOOLEAN
    <3>1. [review |-> i, status |-> status, reply |-> reply] \in Receipt
      BY <2>1
    <3>2. i \in 1..MaxWrites /\ status \in Status /\ reply \in BOOLEAN
      BY <3>1 DEF Receipt
    <3> QED
      BY <3>2, ReviewAssumption
  <2>6. q \in Request
    BY <2>2, <2>3, <2>4, <2>5 DEF Request
  <2>7. /\ q.op \in {"create", "receipt"} /\ q.at = "answered" /\ q.surface = "desktop"
        /\ q.review = i /\ q.status = status /\ q.reply = reply
    BY <2>2, <2>3, <2>4
  <2>8. Fits(s, q, sent, rows, owned, truths)
    BY <1>2, <2>1, <2>6, <2>7 DEF Fits
  <2> QED
    BY <2>3, <2>8
<1> QED
  BY <1>1, <1>2

LEMMA AnswerIsNotSaved ==
    ASSUME NEW s, NEW i, NEW status, NEW reply
    PROVE  Answer(s, i, status, reply).at # "saved" /\ Error(s).at # "saved"
<1>1. Error(s).at # "saved"
  BY DEF Error, NoRequest
<1>2. CASE s \in Browser
  BY <1>1, <1>2 DEF Answer, NoRequest
<1>3. CASE s \notin Browser
  BY <1>1, <1>3 DEF Answer, Error, NoRequest
<1> QED
  BY <1>1, <1>2, <1>3

\* A service that goes on leaves the clients as they are.
LEMMA ClientKept ==
    ASSUME ClientInv, UNCHANGED clientVars, Truths \subseteq Truths',
           \A a \in App : request[a].at = "received" => request'[a].at = "received"
    PROVE  ClientInv'
<1>1. ClientType'
  BY DEF ClientInv, ClientType, clientVars
<1>2. ReceiptsAreTrue'
  BY DEF ClientInv, ReceiptsAreTrue, clientVars
<1>3. SavingHasReceived'
  BY DEF ClientInv, SavingHasReceived, clientVars
<1> QED
  BY <1>1, <1>2, <1>3 DEF ClientInv

LEMMA ClientKeptBut ==
    ASSUME IInv, UNCHANGED clientVars, Truths \subseteq Truths',
           NEW s \in Sender, NEW q, request' = [request EXCEPT ![s] = q],
           request[s].at # "received"
    PROVE  ClientInv'
<1>1. \A a \in App : request[a].at = "received" => request'[a].at = "received"
  BY DEF IInv, TypeOK, Sender
<1> QED
  BY <1>1, ClientKept, InvIsBoth

----------------------------------------------------------------------------
\* The service

\* A thread ends with an error, wherever it is; a screenshot may stay behind.
LEMMA FailedPreserves ==
    ASSUME IInv, NEW s \in Sender, request[s].at \in {"sent", "saved", "read", "answered"},
           Failed(s), UNCHANGED <<reviews, images, audit, clientVars>>
    PROVE  IInv'
<1>1. ServerInv /\ ClientInv
  BY InvIsBoth
<1>2. request[s].op # "none"
  BY <1>1, Busy DEF ServerInv
<1>3. Fits(s, Error(s), submitted, Rows, Owned, Truths)
  BY <1>1, <1>2, ErrorFits DEF ServerInv
<1>4. PICK q : q = Error(s)
  OBVIOUS
<1>5. request' = [request EXCEPT ![s] = q] /\ q.at # "saved"
  BY <1>4, AnswerIsNotSaved DEF Failed
<1>6. submitted' = submitted /\ submitted \subseteq Report
  BY <1>1 DEF clientVars, ServerInv, ServerType
<1>7. ServerInv'
  BY <1>1, <1>3, <1>4, <1>5, <1>6, QuietRequest
<1>8. ClientInv'
  BY <1>1, <1>5, Quiet, ClientKeptBut
<1> QED
  BY <1>7, <1>8, InvIsBoth

\* get_review_receipt: status and reply are read from one row, at one time.
LEMMA ReceiptPreserves ==
    ASSUME IInv, NEW s \in Sender, get_review_receipt(s), UNCHANGED clientVars
    PROVE  IInv'
<1>1. ServerInv /\ ClientInv
  BY InvIsBoth
<1> DEFINE i == request[s].review
<1>2. request[s].op = "receipt" /\ request[s].at = "sent"
  BY DEF get_review_receipt, Asks
<1>3. i \in Rows
  BY <1>1, <1>2 DEF ServerInv, RequestsFit, Fits
<1>4. /\ reviews[i].surface = "desktop" /\ reviews[i] \in Row
      /\ reviews[i].status = StatusAfter(i, Len(audit))
      /\ reviews[i].reply = ReplyAfter(i, Len(audit))
  BY <1>1, <1>3 DEF get_review_receipt, ServerInv, ServerType, AuditReplays, Rows
<1>5. PICK j, status, reply :
          /\ j = i /\ status = reviews[i].status /\ reply = reviews[i].reply
  OBVIOUS
<1>6. [review |-> j, status |-> status, reply |-> reply] \in Truths
  <2>1. j \in 1..MaxWrites
    BY <1>1, <1>3, <1>5, LenProperties, ReviewAssumption DEF Rows, ServerInv, ServerType, Within
  <2>2. [review |-> j, status |-> status, reply |-> reply] \in Receipt
    BY <1>4, <1>5, <2>1 DEF Receipt, Row
  <2>3. Len(audit) \in 0..Len(audit)
    BY <1>1, LenProperties DEF ServerInv, ServerType
  <2> QED
    BY <1>3, <1>4, <1>5, <2>2, <2>3 DEF Truths
<1>7. PICK q : q = Answer(s, j, status, reply)
  OBVIOUS
<1>8. request' = [request EXCEPT ![s] = q] /\ q.at # "saved"
  BY <1>5, <1>7, AnswerIsNotSaved DEF get_review_receipt, Answered, Answer
<1>9. Fits(s, q, submitted, Rows, Owned, Truths)
  BY <1>1, <1>2, <1>6, <1>7, AnswerFits DEF ServerInv, Truths
<1>10. submitted' = submitted /\ submitted \subseteq Report
  BY <1>1 DEF clientVars, ServerInv, ServerType
<1>11. UNCHANGED <<reviews, images, audit>>
  BY DEF get_review_receipt
<1>12. ServerInv'
  BY <1>1, <1>8, <1>9, <1>10, <1>11, QuietRequest
<1>13. ClientInv'
  BY <1>1, <1>2, <1>8, <1>11, Quiet, ClientKeptBut
<1> QED
  BY <1>12, <1>13, InvIsBoth

\* edit_review and withdraw_review up to the decision.
LEMMA ReadPreserves ==
    ASSUME IInv, NEW s \in Sender, ReadReview(s), UNCHANGED clientVars
    PROVE  IInv'
<1>1. ServerInv /\ ClientInv
  BY InvIsBoth
<1>2. /\ request[s].op \in {"edit", "withdraw"} /\ request[s].at = "sent"
      /\ UNCHANGED <<reviews, images, audit>>
  BY DEF ReadReview
<1>3. CASE Failed(s)
  BY <1>2, <1>3, FailedPreserves
<1>4. CASE ~Failed(s)
  <2>1. PICK status, q :
            /\ status = reviews[request[s].review].status
            /\ q = [request[s] EXCEPT !.at = "read", !.status = status]
    OBVIOUS
  <2>2. request' = [request EXCEPT ![s] = q]
    BY <1>1, <1>4, <2>1 DEF ReadReview, ServerInv, ServerType
  <2>3. Fits(s, request[s], submitted, Rows, Owned, Truths)
    BY <1>1 DEF ServerInv, RequestsFit
  <2>4. status \in Status
    <3>1. request[s].review \in 1..Len(reviews)
      BY <1>2, <2>3 DEF Fits, Owned, Rows
    <3>2. reviews[request[s].review] \in Row
      BY <1>1, <3>1, ElementOfSeq DEF ServerInv, ServerType
    <3> QED
      BY <2>1, <3>2 DEF Row
  <2>5. request[s] \in Request /\ q \in Request
    BY <1>1, <2>1, <2>4 DEF ServerInv, ServerType, Request
  <2>6. /\ q.at = "read" /\ q.op = request[s].op /\ q.surface = request[s].surface
        /\ q.review = request[s].review /\ q.text = request[s].text
    BY <2>1, <2>5 DEF Request
  <2>7. Fits(s, q, submitted, Rows, Owned, Truths)
    BY <1>2, <2>3, <2>5, <2>6 DEF Fits
  <2>8. submitted' = submitted /\ submitted \subseteq Report
    BY <1>1 DEF clientVars, ServerInv, ServerType
  <2>9. ServerInv'
    BY <1>1, <1>2, <2>2, <2>6, <2>7, <2>8, QuietRequest
  <2>10. ClientInv'
    BY <1>1, <1>2, <2>2, Quiet, ClientKeptBut
  <2> QED
    BY <2>9, <2>10, InvIsBoth
<1> QED
  BY <1>3, <1>4

\* The process stops: every request that was under way has failed.
LEMMA RestartPreserves ==
    ASSUME IInv, Restart, UNCHANGED clientVars
    PROVE  IInv'
<1>1. ServerInv /\ ClientInv
  BY InvIsBoth
<1>2. UNCHANGED <<reviews, images, audit>>
  BY DEF Restart
<1>3. Rows' = Rows /\ Owned' = Owned /\ Truths' = Truths
  BY <1>1, <1>2, Quiet
<1>4. submitted' = submitted /\ submitted \subseteq Report
  BY <1>1 DEF clientVars, ServerInv, ServerType
<1>5. ASSUME NEW s \in Sender
      PROVE  /\ Fits(s, request'[s], submitted, Rows, Owned, Truths)
             /\ request'[s].at # "saved"
             /\ request[s].at = "received" => request'[s].at = "received"
  <2>1. CASE request[s].at \in {"sent", "saved", "read"}
    <3>1. request'[s] = Error(s)
      BY <2>1 DEF Restart
    <3>2. request[s].op # "none"
      BY <1>1, <2>1, Busy DEF ServerInv
    <3> QED
      BY <1>1, <2>1, <3>1, <3>2, ErrorFits, AnswerIsNotSaved DEF ServerInv
  <2>2. CASE request[s].at \notin {"sent", "saved", "read"}
    BY <1>1, <2>2 DEF Restart, ServerInv, RequestsFit
  <2> QED
    BY <2>1, <2>2
<1>6. RequestsFit' /\ request' \in [Sender -> Request]
  <2>1. \A s \in Sender : request'[s] \in Request
    BY <1>5 DEF Fits
  <2> QED
    BY <1>3, <1>4, <1>5, <2>1 DEF RequestsFit, Restart
<1>7. ServerInv'
  BY <1>1, <1>2, <1>4, <1>5, <1>6, QuietServer
<1>8. ClientInv'
  BY <1>1, <1>3, <1>5, ClientKept DEF Sender
<1> QED
  BY <1>7, <1>8, InvIsBoth

LEMMA RowsAreRows ==
    ASSUME ServerType
    PROVE  \A i \in Rows : reviews[i] \in Row
<1> QED
  BY ElementOfSeq DEF ServerType, Rows

\* save_screenshot: the name that is taken is nobody's.
LEMMA SavePreserves ==
    ASSUME IInv, NEW s \in Sender, save_screenshot(s), UNCHANGED clientVars
    PROVE  IInv'
<1>1. ServerInv /\ ClientInv
  BY InvIsBoth
<1>2. request[s].op = "create" /\ request[s].at = "sent" /\ UNCHANGED <<reviews, audit>>
  BY DEF save_screenshot, Asks
<1>3. submitted' = submitted /\ submitted \subseteq Report
  BY <1>1 DEF clientVars, ServerInv, ServerType
<1>4. Fits(s, request[s], submitted, Rows, Owned, Truths) /\ request[s] \in Request
  BY <1>1 DEF ServerInv, RequestsFit, Fits
<1>5. PICK f \in File \cup {None} :
          /\ request' = [request EXCEPT ![s] = [request[s] EXCEPT !.at = "saved", !.file = f]]
          /\ f = None => request[s].picture = None /\ images' = images
          /\ f # None => /\ request[s].picture # None /\ images[f] = None
                        /\ images' = [images EXCEPT ![f] = request[s].picture]
  <2>1. CASE request[s].picture = None
    <3>1. request[s].file = None
      BY <1>2, <1>4 DEF Fits
    <3>2. /\ request' = [request EXCEPT ![s] = [request[s] EXCEPT !.at = "saved"]]
          /\ images' = images
      BY <2>1, <1>1 DEF save_screenshot, ServerInv, ServerType
    <3>3. [request[s] EXCEPT !.at = "saved"] = [request[s] EXCEPT !.at = "saved", !.file = None]
      BY <3>1, <1>4 DEF Request
    <3> QED
      BY <2>1, <3>2, <3>3
  <2>2. CASE request[s].picture # None
    <3>1. PICK f \in File :
              /\ images[f] = None
              /\ images' = [images EXCEPT ![f] = request[s].picture]
              /\ request' = [request EXCEPT ![s].at = "saved", ![s].file = f]
      BY <2>2 DEF save_screenshot
    <3>2. f # None
      BY ReviewAssumption
    <3>3. request' = [request EXCEPT ![s] = [request[s] EXCEPT !.at = "saved", !.file = f]]
      BY <3>1, <1>1 DEF ServerInv, ServerType
    <3> QED
      BY <2>2, <3>1, <3>2, <3>3
  <2> QED
    BY <2>1, <2>2
<1>6. PICK q :
          /\ request' = [request EXCEPT ![s] = q]
          /\ q = [request[s] EXCEPT !.at = "saved", !.file = f]
          /\ f = None => request[s].picture = None /\ images' = images
          /\ f # None => /\ request[s].picture # None /\ images[f] = None
                        /\ images' = [images EXCEPT ![f] = request[s].picture]
  BY <1>5
<1>7. /\ q \in Request /\ q.at = "saved" /\ q.file = f /\ q.op = "create"
      /\ q.surface = request[s].surface /\ q.text = request[s].text
      /\ q.picture = request[s].picture
  BY <1>2, <1>4, <1>6 DEF Request
<1>8. Fits(s, q, submitted, Rows, Owned, Truths)
  BY <1>2, <1>4, <1>7 DEF Fits
<1>9. Rows' = Rows /\ Owned' = Owned /\ Truths' = Truths
  BY <1>2 DEF Rows, Owned, Truths, StatusAfter, ReplyAfter, Entries
<1>10. RequestsFit' /\ request' \in [Sender -> Request]
  BY <1>1, <1>3, <1>6, <1>8, <1>9, RequestsReplaced DEF ServerInv, ServerType
<1>11. images' \in [File -> Picture \cup {None}]
  BY <1>1, <1>4, <1>6 DEF ServerInv, ServerType, Request
<1>12. ServerType' /\ Within' /\ EntriesNameRows'
  BY <1>1, <1>2, <1>3, <1>9, <1>10, <1>11
     DEF ServerInv, ServerType, Within, EntriesNameRows
<1>13. AuditReplays'
  BY <1>1, <1>2, ReplaysStay DEF ServerInv
<1>14. \A g \in File : images[g] # None => images'[g] = images[g] /\ g # f
  BY <1>1, <1>6, ReviewAssumption DEF ServerInv, ServerType
<1>15. \A i \in Rows : reviews[i].file # None =>
           /\ images'[reviews[i].file] = images[reviews[i].file]
           /\ images[reviews[i].file] # None
           /\ reviews[i].file # f
  <2>1. \A i \in Rows : reviews[i].file \in File \cup {None}
    BY <1>1, RowsAreRows DEF ServerInv, ServerType, Row
  <2> QED
    BY <1>1, <1>14, <2>1 DEF ServerInv, FilesAreApart
<1>16. \A r \in Sender : Attached(request[r]) =>
           /\ request[r].file # f /\ images'[request[r].file] = images[request[r].file]
  <2>1. \A r \in Sender : request[r].file \in File \cup {None}
    BY <1>1 DEF ServerInv, ServerType, Request
  <2> QED
    BY <1>1, <1>14, <2>1 DEF ServerInv, FilesAreApart, Attached, Holds
<1>17. \A r \in Sender : r # s => request'[r] = request[r]
  BY <1>1, <1>6 DEF ServerInv, ServerType
<1>18. request'[s] = q
  BY <1>1, <1>6 DEF ServerInv, ServerType
<1>19. FilesAreApart'
  <2>1. \A r \in Sender : request'[r].at = "saved" => Holds(request'[r], images')
    <3>1. Holds(q, images')
      BY <1>1, <1>6, <1>7 DEF Holds, ServerInv, ServerType
    <3>2. ASSUME NEW r \in Sender, r # s, request[r].at = "saved"
          PROVE  Holds(request[r], images')
      BY <1>1, <1>16, <3>2 DEF ServerInv, FilesAreApart, Attached, Holds
    <3> QED
      BY <1>17, <1>18, <3>1, <3>2
  <2>2. \A i \in Rows : reviews[i].file # None =>
            /\ images'[reviews[i].file] # None
            /\ \A r \in Sender : Attached(request'[r]) => request'[r].file # reviews[i].file
    BY <1>1, <1>7, <1>15, <1>17, <1>18 DEF ServerInv, FilesAreApart
  <2>3. \A r, t \in Sender :
            Attached(request'[r]) /\ Attached(request'[t]) /\ request'[r].file = request'[t].file
                => r = t
    BY <1>1, <1>7, <1>16, <1>17, <1>18 DEF ServerInv, FilesAreApart
  <2> QED
    BY <1>2, <1>9, <2>1, <2>2, <2>3 DEF FilesAreApart
<1>20. InboxHoldsReports'
  BY <1>1, <1>2, <1>3, <1>15 DEF ServerInv, InboxHoldsReports, Rows
<1>21. ServerInv'
  BY <1>10, <1>12, <1>13, <1>19, <1>20 DEF ServerInv
<1>22. ClientInv'
  BY <1>2, <1>6, <1>9, ClientKeptBut
<1> QED
  BY <1>21, <1>22, InvIsBoth

\* The row cannot be inserted: its picture is the one of no other row.
LEMMA InsertFailsPreserves ==
    ASSUME IInv, NEW s \in Sender, InsertFails(s), UNCHANGED clientVars
    PROVE  IInv'
<1>1. ServerInv /\ ClientInv
  BY InvIsBoth
<1>2. /\ request[s].op = "create" /\ request[s].at = "saved" /\ UNCHANGED <<reviews, audit>>
      /\ images' = [f \in File |-> IF f = request[s].file THEN None ELSE images[f]]
  BY DEF InsertFails, Asks
<1>3. submitted' = submitted /\ submitted \subseteq Report
  BY <1>1 DEF clientVars, ServerInv, ServerType
<1>4. PICK q : q = Error(s)
  OBVIOUS
<1>5. request' = [request EXCEPT ![s] = q] /\ q.at # "saved"
  BY <1>4, AnswerIsNotSaved DEF InsertFails, Failed
<1>6. Fits(s, q, submitted, Rows, Owned, Truths)
  BY <1>1, <1>2, <1>4, ErrorFits DEF ServerInv
<1>7. Rows' = Rows /\ Owned' = Owned /\ Truths' = Truths
  BY <1>2 DEF Rows, Owned, Truths, StatusAfter, ReplyAfter, Entries
<1>8. RequestsFit' /\ request' \in [Sender -> Request]
  BY <1>1, <1>3, <1>5, <1>6, <1>7, RequestsReplaced DEF ServerInv, ServerType
<1>9. images' \in [File -> Picture \cup {None}]
  BY <1>1, <1>2 DEF ServerInv, ServerType
<1>10. ServerType' /\ Within' /\ EntriesNameRows'
  BY <1>1, <1>2, <1>3, <1>7, <1>8, <1>9
     DEF ServerInv, ServerType, Within, EntriesNameRows
<1>11. AuditReplays'
  BY <1>1, <1>2, ReplaysStay DEF ServerInv
<1>12. \A g \in File : g # request[s].file => images'[g] = images[g]
  BY <1>2
<1>13. \A i \in Rows : reviews[i].file # None =>
           images'[reviews[i].file] = images[reviews[i].file] /\ images[reviews[i].file] # None
  <2>1. \A i \in Rows : reviews[i].file \in File \cup {None}
    BY <1>1, RowsAreRows DEF ServerInv, ServerType, Row
  <2>2. \A i \in Rows : reviews[i].file # None => reviews[i].file # request[s].file
    BY <1>1, <1>2 DEF ServerInv, FilesAreApart, Attached
  <2> QED
    BY <1>1, <1>12, <2>1, <2>2 DEF ServerInv, FilesAreApart
<1>14. \A r \in Sender : r # s /\ Attached(request[r]) =>
           images'[request[r].file] = images[request[r].file]
  <2>1. \A r \in Sender : request[r].file \in File \cup {None}
    BY <1>1 DEF ServerInv, ServerType, Request
  <2>2. \A r \in Sender : r # s /\ Attached(request[r]) => request[r].file # request[s].file
    BY <1>1, <1>2 DEF ServerInv, FilesAreApart, Attached
  <2> QED
    BY <1>12, <2>1, <2>2 DEF Attached
<1>15. \A r \in Sender : r # s => request'[r] = request[r]
  BY <1>1, <1>5 DEF ServerInv, ServerType
<1>16. request'[s] = q /\ ~Attached(q)
  BY <1>1, <1>5 DEF ServerInv, ServerType, Attached
<1>17. FilesAreApart'
  <2>1. \A r \in Sender : request'[r].at = "saved" => Holds(request'[r], images')
    <3>1. ASSUME NEW r \in Sender, r # s, request[r].at = "saved"
          PROVE  Holds(request[r], images')
      BY <1>1, <1>14, <3>1 DEF ServerInv, FilesAreApart, Attached, Holds
    <3> QED
      BY <1>5, <1>15, <1>16, <3>1
  <2>2. \A i \in Rows : reviews[i].file # None =>
            /\ images'[reviews[i].file] # None
            /\ \A r \in Sender : Attached(request'[r]) => request'[r].file # reviews[i].file
    BY <1>1, <1>13, <1>15, <1>16 DEF ServerInv, FilesAreApart
  <2>3. \A r, t \in Sender :
            Attached(request'[r]) /\ Attached(request'[t]) /\ request'[r].file = request'[t].file
                => r = t
    BY <1>1, <1>15, <1>16 DEF ServerInv, FilesAreApart
  <2> QED
    BY <1>2, <1>7, <2>1, <2>2, <2>3 DEF FilesAreApart
<1>18. InboxHoldsReports'
  BY <1>1, <1>2, <1>3, <1>13 DEF ServerInv, InboxHoldsReports, Rows
<1>19. ServerInv'
  BY <1>8, <1>10, <1>11, <1>17, <1>18 DEF ServerInv
<1>20. ClientInv'
  BY <1>2, <1>5, <1>7, ClientKeptBut
<1> QED
  BY <1>19, <1>20, InvIsBoth

\* A review nobody has written about is pending and has no reply.
LEMMA NoEntries ==
    ASSUME NEW i, NEW n, \A A : Entries(i, n, A) = {}
    PROVE  StatusAfter(i, n) = "pending" /\ ReplyAfter(i, n) = FALSE
<1> QED
  BY DEF StatusAfter, ReplyAfter

\* create_review: a row that no entry is about, with the picture of its request.
LEMMA InsertPreserves ==
    ASSUME IInv, NEW s \in Sender, InsertReview(s), UNCHANGED clientVars
    PROVE  IInv'
<1>1. ServerInv /\ ClientInv
  BY InvIsBoth
<1>2. request[s].op = "create" /\ request[s].at = "saved" /\ UNCHANGED <<images, audit>> /\ Room
  BY DEF InsertReview, Asks
<1>3. submitted' = submitted /\ submitted \subseteq Report
  BY <1>1 DEF clientVars, ServerInv, ServerType
<1>4. Fits(s, request[s], submitted, Rows, Owned, Truths) /\ request[s] \in Request
  BY <1>1 DEF ServerInv, RequestsFit, Fits
<1>5. PICK row, n :
          /\ row = [surface |-> request[s].surface, text |-> request[s].text,
                    file |-> request[s].file, status |-> "pending", reply |-> FALSE]
          /\ n = Len(reviews) + 1
  OBVIOUS
<1>6. row \in Row
  BY <1>2, <1>4, <1>5, ReviewAssumption DEF Fits, Row, Request
<1>7. /\ reviews \in Seq(Row) /\ audit \in Seq(Entry)
      /\ Len(reviews) \in Nat /\ Len(audit) \in Nat /\ n \in Nat
  BY <1>1, <1>5, LenProperties DEF ServerInv, ServerType
<1>8. /\ reviews' \in Seq(Row) /\ Len(reviews') = n /\ reviews'[n] = row
      /\ \A i \in Rows : reviews'[i] = reviews[i]
  BY <1>5, <1>6, <1>7, AppendProperties DEF InsertReview, Rows
<1>9. Rows' = Rows \cup {n} /\ n \notin Rows /\ n \in 1..MaxWrites
  BY <1>2, <1>5, <1>7, <1>8, ReviewAssumption DEF Rows, Room
<1>10. TableGrows /\ LogGrows
  BY <1>2, <1>5, <1>7, <1>8 DEF TableGrows, LogGrows, Rows
<1>11. Rows \subseteq Rows' /\ Owned \subseteq Owned' /\ Truths \subseteq Truths'
  BY <1>10, Grown
<1>12. \A A, m : Entries(n, m, A)' = Entries(n, m, A)
  BY <1>2 DEF Entries
<1>13. s \in App => [review |-> n, status |-> "pending", reply |-> FALSE] \in Truths'
  <2>1. SUFFICES ASSUME s \in App
                 PROVE  [review |-> n, status |-> "pending", reply |-> FALSE] \in Truths'
    OBVIOUS
  <2>2. \A A : Entries(n, 0, A)' = {}
    BY DEF Entries
  <2>3. StatusAfter(n, 0)' = "pending" /\ ReplyAfter(n, 0)' = FALSE
    BY <2>2 DEF StatusAfter, ReplyAfter
  <2>4. reviews'[n].surface = "desktop"
    BY <1>4, <1>5, <1>8, <2>1 DEF Fits
  <2>5. [review |-> n, status |-> "pending", reply |-> FALSE] \in Receipt
    BY <1>9, ReviewAssumption DEF Receipt
  <2>6. 0 \in 0..Len(audit')
    BY <1>2, <1>7
  <2> QED
    BY <1>9, <2>3, <2>4, <2>5, <2>6 DEF Truths
<1>14. PICK q : q = Answer(s, n, "pending", FALSE)
  OBVIOUS
<1>15. request' = [request EXCEPT ![s] = q] /\ q.at # "saved"
  BY <1>5, <1>14, AnswerIsNotSaved DEF InsertReview, Answered, Answer
<1>16. Fits(s, q, submitted', Rows', Owned', Truths')
  <2>1. Truths' \subseteq Receipt
    BY DEF Truths
  <2> QED
    BY <1>1, <1>2, <1>13, <1>14, <2>1, AnswerFits DEF ServerInv
<1>17. RequestsFit' /\ request' \in [Sender -> Request]
  BY <1>1, <1>3, <1>11, <1>15, <1>16, RequestsReplaced DEF ServerInv, ServerType
<1>18. ServerType'
  BY <1>1, <1>2, <1>3, <1>8, <1>17 DEF ServerInv, ServerType
<1>19. Within' /\ EntriesNameRows'
  BY <1>1, <1>2, <1>5, <1>7, <1>8, <1>11, ReviewAssumption
     DEF ServerInv, Within, EntriesNameRows, Room
<1>20. AuditReplays'
  <2>1. \A i, m, A : Entries(i, m, A)' = Entries(i, m, A)
    BY <1>2 DEF Entries
  <2>2. \A i, m : StatusAfter(i, m)' = StatusAfter(i, m)
    BY <1>2, <2>1 DEF StatusAfter
  <2>3. \A i, m : ReplyAfter(i, m)' = ReplyAfter(i, m)
    BY <1>2, <2>1 DEF ReplyAfter
  <2>4. \A A : Entries(n, Len(audit), A) = {}
    BY <1>1, <1>9 DEF ServerInv, EntriesNameRows, Entries
  <2>5. StatusAfter(n, Len(audit)) = "pending" /\ ReplyAfter(n, Len(audit)) = FALSE
    BY <2>4, NoEntries
  <2>6. ASSUME NEW i \in Rows'
        PROVE  /\ reviews'[i].status = StatusAfter(i, Len(audit))
               /\ reviews'[i].reply = ReplyAfter(i, Len(audit))
               /\ Entries(i, Len(audit), {"edit"}) # {} =>
                     reviews'[i].text = audit[Latest(Entries(i, Len(audit), {"edit"}))].text
    <3>1. CASE i = n
      <4>1. reviews'[i].status = "pending" /\ reviews'[i].reply = FALSE
        BY <1>5, <1>8, <3>1
      <4>2. StatusAfter(i, Len(audit)) = "pending" /\ ReplyAfter(i, Len(audit)) = FALSE
        BY <2>5, <3>1
      <4>3. Entries(i, Len(audit), {"edit"}) = {}
        BY <2>4, <3>1
      <4> QED
        BY <4>1, <4>2, <4>3
    <3>2. CASE i \in Rows
      BY <1>1, <1>8, <3>2 DEF ServerInv, AuditReplays, Rows
    <3> QED
      BY <1>9, <2>6, <3>1, <3>2
  <2> QED
    BY <1>2, <2>1, <2>2, <2>3, <2>6 DEF AuditReplays, Rows
<1>21. \A r \in Sender : r # s => request'[r] = request[r]
  BY <1>1, <1>15 DEF ServerInv, ServerType
<1>22. request'[s] = q /\ ~Attached(q)
  BY <1>1, <1>15 DEF ServerInv, ServerType, Attached
<1>23. request[s].file # None => Attached(request[s])
  BY <1>2 DEF Attached
<1>24. Holds(request[s], images)
  BY <1>1, <1>2 DEF ServerInv, FilesAreApart
<1>25. FilesAreApart'
  <2>1. \A r \in Sender : request'[r].at = "saved" => Holds(request'[r], images')
    BY <1>1, <1>2, <1>15, <1>21, <1>22 DEF ServerInv, FilesAreApart
  <2>2. ASSUME NEW i \in Rows', reviews'[i].file # None
        PROVE  /\ images'[reviews'[i].file] # None
               /\ \A r \in Sender : Attached(request'[r]) => request'[r].file # reviews'[i].file
    <3>1. CASE i = n
      <4>1. reviews'[i].file = request[s].file
        BY <1>5, <1>8, <3>1
      <4> QED
        BY <1>1, <1>2, <1>21, <1>22, <1>23, <1>24, <2>2, <4>1
           DEF ServerInv, FilesAreApart, Holds
    <3>2. CASE i \in Rows
      BY <1>1, <1>2, <1>8, <1>21, <1>22, <2>2, <3>2 DEF ServerInv, FilesAreApart
    <3> QED
      BY <1>9, <2>2, <3>1, <3>2
  <2>3. \A r, t \in Sender :
            Attached(request'[r]) /\ Attached(request'[t]) /\ request'[r].file = request'[t].file
                => r = t
    BY <1>1, <1>21, <1>22 DEF ServerInv, FilesAreApart
  <2> QED
    BY <2>1, <2>2, <2>3 DEF FilesAreApart
<1>26. InboxHoldsReports'
  <2>1. ASSUME NEW i \in Rows', reviews'[i].surface = "desktop"
        PROVE  [text |-> reviews'[i].text,
                picture |-> IF reviews'[i].file = None THEN None
                            ELSE images[reviews'[i].file]] \in submitted
    <3>1. CASE i = n
      <4>1. /\ reviews'[i].text = request[s].text /\ reviews'[i].file = request[s].file
            /\ request[s].surface = "desktop"
        BY <1>5, <1>8, <2>1, <3>1
      <4>2. s \in App
        BY <1>2, <1>4, <4>1 DEF Fits, Sender
      <4>3. [text |-> request[s].text, picture |-> request[s].picture] \in submitted
        BY <1>2, <1>4, <4>2 DEF Fits
      <4> QED
        BY <1>24, <4>1, <4>3 DEF Holds
    <3>2. CASE i \in Rows
      BY <1>1, <1>8, <2>1, <3>2 DEF ServerInv, InboxHoldsReports, Rows
    <3> QED
      BY <1>9, <2>1, <3>1, <3>2
  <2> QED
    BY <1>2, <1>3, <2>1 DEF InboxHoldsReports, Rows
<1>27. ServerInv'
  BY <1>17, <1>18, <1>19, <1>20, <1>25, <1>26 DEF ServerInv
<1>28. ClientInv'
  BY <1>2, <1>11, <1>15, ClientKeptBut
<1> QED
  BY <1>27, <1>28, InvIsBoth

\* A change of a row in one transaction with its entry.
LEMMA WritePreserves ==
    ASSUME ServerInv, NEW entry \in Entry, Log(entry), Applies(entry), entry.review \in Rows,
           entry.action = "edit" => entry.review \in Owned,
           images' = images, submitted' = submitted
    PROVE  /\ Rows' = Rows /\ Owned \subseteq Owned' /\ Truths \subseteq Truths'
           /\ /\ RequestsFit' /\ request' \in [Sender -> Request]
              /\ \A s \in Sender : request'[s].at = "saved" => request'[s] = request[s]
              => ServerInv'
<1>1. /\ reviews \in Seq(Row) /\ audit \in Seq(Entry)
      /\ Len(reviews) \in Nat /\ Len(audit) \in Nat
  BY LenProperties DEF ServerInv, ServerType
<1>2. PICK k \in Nat, m \in Nat : k = Len(audit) /\ m = k + 1
  BY <1>1
<1>3. Len(audit)' = m /\ audit'[m] = entry /\ LogGrows
  BY <1>1, <1>2, EntriesAppend
<1>4. Rows' = Rows
  BY DEF Applies, Rows
<1>5. TableGrows
  BY <1>1 DEF TableGrows, Applies
<1>6. Owned \subseteq Owned' /\ Truths \subseteq Truths'
  BY <1>3, <1>5, Grown
<1>7. AuditReplays'
  BY <1>1, ReplaysOneMore DEF ServerInv
<1>8. Within'
  BY <1>1, <1>2, <1>3, ReviewAssumption DEF Applies, Log, Room, Within
<1>9. EntriesNameRows'
  <2>1. \A j \in 1..Len(audit)' : j \in 1..Len(audit) \/ j = m
    BY <1>1, <1>2, <1>3
  <2> QED
    BY <1>3, <1>4, <2>1 DEF ServerInv, EntriesNameRows, LogGrows
<1>10. ASSUME NEW i \in Rows
       PROVE  /\ reviews'[i].file = reviews[i].file
              /\ reviews'[i].surface = reviews[i].surface
              /\ reviews[i].surface = "desktop" => reviews'[i].text = reviews[i].text
  BY DEF Applies, Rows, Owned
<1>11. ASSUME RequestsFit', request' \in [Sender -> Request],
              \A s \in Sender : request'[s].at = "saved" => request'[s] = request[s]
       PROVE  ServerInv'
  <2>1. ServerType'
    BY <1>3, <1>11 DEF Applies, ServerInv, ServerType, LogGrows
  <2>2. FilesAreApart' /\ InboxHoldsReports'
    BY <1>4, <1>10, <1>11, FilesStay DEF ServerInv
  <2> QED
    BY <1>7, <1>8, <1>9, <1>11, <2>1, <2>2 DEF ServerInv
<1> QED
  BY <1>4, <1>6, <1>11

\* The row that an entry changes, by its number.
LEMMA RowChanges ==
    ASSUME ServerInv, NEW entry \in Entry, entry.review \in Rows, NEW row \in Row,
           reviews' = [reviews EXCEPT ![entry.review] = row],
           row.surface = reviews[entry.review].surface,
           row.file = reviews[entry.review].file,
           row.status = IF entry.action = "withdraw" THEN "withdrawn"
                        ELSE IF entry.action = "update" THEN entry.status
                        ELSE reviews[entry.review].status,
           row.reply = IF entry.action = "update" THEN entry.reply
                       ELSE reviews[entry.review].reply,
           row.text = IF entry.action = "edit" THEN entry.text
                      ELSE reviews[entry.review].text
    PROVE  Applies(entry)
<1>1. reviews \in Seq(Row) /\ entry.review \in 1..Len(reviews)
  BY DEF ServerInv, ServerType, Rows
<1>2. /\ reviews' \in Seq(Row) /\ Len(reviews') = Len(reviews)
      /\ \A i \in 1..Len(reviews) :
            reviews'[i] = IF i = entry.review THEN row ELSE reviews[i]
  BY <1>1, ExceptSeq
<1>3. ASSUME NEW i \in 1..Len(reviews), i = entry.review
      PROVE  /\ reviews'[i].surface = reviews[i].surface
             /\ reviews'[i].file = reviews[i].file
             /\ reviews'[i].status =
                   IF entry.review = i /\ entry.action = "withdraw" THEN "withdrawn"
                   ELSE IF entry.review = i /\ entry.action = "update" THEN entry.status
                   ELSE reviews[i].status
             /\ reviews'[i].reply =
                   IF entry.review = i /\ entry.action = "update" THEN entry.reply
                   ELSE reviews[i].reply
             /\ reviews'[i].text =
                   IF entry.review = i /\ entry.action = "edit" THEN entry.text
                   ELSE reviews[i].text
  BY <1>2, <1>3
<1>4. ASSUME NEW i \in 1..Len(reviews), i # entry.review
      PROVE  reviews'[i] = reviews[i]
  BY <1>2, <1>4
<1> QED
  BY <1>2, <1>3, <1>4 DEF Applies

\* update_review, whatever threads have read before.
LEMMA UpdatePreserves ==
    ASSUME IInv, NEW i \in 1..MaxWrites, NEW status \in Status, NEW reply \in BOOLEAN,
           update_review(i, status, reply), UNCHANGED clientVars
    PROVE  IInv'
<1>1. ServerInv /\ ClientInv
  BY InvIsBoth
<1>2. PICK entry : entry = [review |-> i, action |-> "update", status |-> status,
                            reply |-> reply, text |-> None]
  OBVIOUS
<1>3. entry \in Entry /\ Log(entry) /\ entry.review = i /\ entry.action = "update"
  BY <1>2 DEF Entry, update_review
<1>4. i \in Rows /\ reviews[i] \in Row
  BY <1>1, RowsAreRows DEF update_review, Rows, ServerInv
<1>5. PICK row : row = [reviews[i] EXCEPT !.status = status, !.reply = reply]
  OBVIOUS
<1>6. row \in Row /\ row.surface = reviews[i].surface /\ row.file = reviews[i].file
      /\ row.status = status /\ row.reply = reply /\ row.text = reviews[i].text
  BY <1>4, <1>5 DEF Row
<1>7. reviews' = [reviews EXCEPT ![i] = row]
  BY <1>4, <1>5 DEF update_review
<1>8. Applies(entry)
  BY <1>1, <1>2, <1>3, <1>4, <1>6, <1>7, RowChanges
<1>9. images' = images /\ submitted' = submitted /\ request' = request
  BY DEF update_review, clientVars
<1>10. Rows' = Rows /\ Owned \subseteq Owned' /\ Truths \subseteq Truths'
  BY <1>1, <1>3, <1>4, <1>8, <1>9, WritePreserves
<1>11. ASSUME NEW s \in Sender
       PROVE  Fits(s, request[s], submitted, Rows', Owned', Truths')
  <2>1. Fits(s, request[s], submitted, Rows, Owned, Truths)
    BY <1>1 DEF ServerInv, RequestsFit
  <2> QED
    BY <1>10, <2>1, FitsMore
<1>12. RequestsFit' /\ request' \in [Sender -> Request]
  BY <1>1, <1>9, <1>11 DEF RequestsFit, ServerInv, ServerType
<1>13. ServerInv'
  BY <1>1, <1>3, <1>4, <1>8, <1>9, <1>12, WritePreserves
<1>14. ClientInv'
  BY <1>1, <1>9, <1>10, ClientKept
<1> QED
  BY <1>13, <1>14, InvIsBoth

\* WriteEdit and WriteWithdraw, by browsers and of reviews of theirs.
LEMMA OwnWritePreserves ==
    ASSUME IInv, NEW s \in Sender, request[s].op \in {"edit", "withdraw"},
           request[s].at = "read", NEW entry \in Entry, Log(entry),
           entry.review = request[s].review, Applies(entry),
           Answered(s, request[s].review, "pending", FALSE), images' = images,
           UNCHANGED clientVars
    PROVE  IInv'
<1>1. ServerInv /\ ClientInv
  BY InvIsBoth
<1>2. Fits(s, request[s], submitted, Rows, Owned, Truths)
  BY <1>1 DEF ServerInv, RequestsFit
<1>3. s \notin App /\ s \in Browser /\ entry.review \in Owned /\ entry.review \in Rows
  BY <1>2 DEF Fits, Sender, Owned
<1>4. request' = [request EXCEPT ![s] = NoRequest]
  BY <1>3 DEF Answered
<1>5. submitted' = submitted
  BY DEF clientVars
<1>6. Rows' = Rows /\ Owned \subseteq Owned' /\ Truths \subseteq Truths'
  BY <1>1, <1>3, <1>5, WritePreserves
<1>7. Fits(s, NoRequest, submitted', Rows', Owned', Truths')
  BY NoRequestFits
<1>8. RequestsFit' /\ request' \in [Sender -> Request]
  BY <1>1, <1>4, <1>5, <1>6, <1>7, RequestsReplaced DEF ServerInv, ServerType
<1>9. \A r \in Sender : request'[r].at = "saved" => request'[r] = request[r]
  BY <1>1, <1>4 DEF ServerInv, ServerType, NoRequest
<1>10. ServerInv'
  BY <1>1, <1>3, <1>5, <1>8, <1>9, WritePreserves
<1>11. ClientInv'
  BY <1>4, <1>6, ClientKeptBut
<1> QED
  BY <1>10, <1>11, InvIsBoth

LEMMA EditPreserves ==
    ASSUME IInv, NEW s \in Sender, WriteEdit(s), UNCHANGED clientVars
    PROVE  IInv'
<1>1. ServerInv
  BY InvIsBoth
<1>2. request[s].op = "edit" /\ request[s].at = "read"
  BY DEF WriteEdit, Asks
<1>3. Fits(s, request[s], submitted, Rows, Owned, Truths)
  BY <1>1 DEF ServerInv, RequestsFit
<1>4. PICK i, text : i = request[s].review /\ text = request[s].text
  OBVIOUS
<1>5. i \in Rows /\ text \in Text /\ reviews[i] \in Row
  BY <1>1, <1>2, <1>3, <1>4, RowsAreRows DEF Fits, Owned, ServerInv
<1>6. i \in 1..MaxWrites
  BY <1>1, <1>5, LenProperties, ReviewAssumption DEF Rows, ServerInv, ServerType, Within
<1>7. PICK entry, row :
          /\ entry = [review |-> i, action |-> "edit", status |-> "pending",
                      reply |-> FALSE, text |-> text]
          /\ row = [reviews[i] EXCEPT !.text = text]
  OBVIOUS
<1>8. entry \in Entry /\ Log(entry) /\ entry.review = i /\ entry.action = "edit"
  BY <1>4, <1>5, <1>6, <1>7, ReviewAssumption DEF Entry, WriteEdit
<1>9. row \in Row /\ row.surface = reviews[i].surface /\ row.file = reviews[i].file
      /\ row.status = reviews[i].status /\ row.reply = reviews[i].reply /\ row.text = text
  BY <1>5, <1>7 DEF Row
<1>10. reviews' = [reviews EXCEPT ![i] = row]
  BY <1>4, <1>7 DEF WriteEdit
<1>11. Applies(entry)
  BY <1>1, <1>5, <1>7, <1>8, <1>9, <1>10, RowChanges
<1> QED
  BY <1>2, <1>4, <1>8, <1>11, OwnWritePreserves DEF WriteEdit

LEMMA WithdrawPreserves ==
    ASSUME IInv, NEW s \in Sender, WriteWithdraw(s), UNCHANGED clientVars
    PROVE  IInv'
<1>1. ServerInv
  BY InvIsBoth
<1>2. request[s].op = "withdraw" /\ request[s].at = "read"
  BY DEF WriteWithdraw, Asks
<1>3. Fits(s, request[s], submitted, Rows, Owned, Truths)
  BY <1>1 DEF ServerInv, RequestsFit
<1>4. PICK i, status : i = request[s].review /\ status = request[s].status
  OBVIOUS
<1>5. i \in Rows /\ status \in Status /\ reviews[i] \in Row
  BY <1>1, <1>2, <1>3, <1>4, RowsAreRows DEF Fits, Owned, ServerInv, Request
<1>6. i \in 1..MaxWrites
  BY <1>1, <1>5, LenProperties, ReviewAssumption DEF Rows, ServerInv, ServerType, Within
<1>7. PICK entry, row :
          /\ entry = [review |-> i, action |-> "withdraw", status |-> status,
                      reply |-> FALSE, text |-> None]
          /\ row = [reviews[i] EXCEPT !.status = "withdrawn"]
  OBVIOUS
<1>8. entry \in Entry /\ Log(entry) /\ entry.review = i /\ entry.action = "withdraw"
  BY <1>4, <1>5, <1>6, <1>7, ReviewAssumption DEF Entry, WriteWithdraw
<1>9. row \in Row /\ row.surface = reviews[i].surface /\ row.file = reviews[i].file
      /\ row.status = "withdrawn" /\ row.reply = reviews[i].reply /\ row.text = reviews[i].text
  BY <1>5, <1>7, ReviewAssumption DEF Row
<1>10. reviews' = [reviews EXCEPT ![i] = row]
  BY <1>4, <1>7 DEF WriteWithdraw
<1>11. Applies(entry)
  BY <1>1, <1>5, <1>7, <1>8, <1>9, <1>10, RowChanges
<1> QED
  BY <1>2, <1>4, <1>8, <1>11, OwnWritePreserves DEF WriteWithdraw

\* One step of a thread, of the owner, or of the whole service.
LEMMA ServicePreserves ==
    ASSUME IInv, ReviewNext, UNCHANGED clientVars
    PROVE  IInv'
<1>1. ASSUME NEW s \in Sender, Refuse(s) \/ LoseAnswer(s)
      PROVE  IInv'
  BY <1>1, FailedPreserves DEF Refuse, LoseAnswer
<1>2. ASSUME NEW s \in Sender, Serve(s) \/ LoseAnswer(s)
      PROVE  IInv'
  BY <1>1, <1>2, SavePreserves, InsertPreserves, InsertFailsPreserves, ReceiptPreserves,
     ReadPreserves, EditPreserves, WithdrawPreserves DEF Serve
<1> QED
  BY <1>2, UpdatePreserves, RestartPreserves DEF ReviewNext

----------------------------------------------------------------------------
\* The clients and the browsers

\* A window that sends nothing changes nothing at the service.
LEMMA ServerKept ==
    ASSUME ServerInv, UNCHANGED <<serverVars, submitted>>
    PROVE  ServerInv' /\ Truths' = Truths
<1>1. UNCHANGED <<reviews, images, audit>> /\ request' = request /\ submitted' = submitted
  BY DEF serverVars
<1>2. Rows' = Rows /\ Owned' = Owned /\ Truths' = Truths
  BY <1>1, Quiet
<1>3. RequestsFit'
  BY <1>1, <1>2 DEF ServerInv, RequestsFit
<1>4. ServerInv'
  BY <1>1, <1>3, QuietServer DEF ServerInv, ServerType
<1> QED
  BY <1>2, <1>4

\* What is on the form changes.
LEMMA FormPreserves ==
    ASSUME IInv, NEW a \in App, NEW f, Changes(a, f),
           f \in [open : BOOLEAN, text : Text \cup {None}, picture : Picture \cup {None},
                 confirmed : BOOLEAN, capturing : BOOLEAN]
    PROVE  IInv'
<1>1. ServerInv /\ ClientInv
  BY InvIsBoth
<1>2. ServerInv' /\ Truths' = Truths
  BY <1>1, ServerKept DEF Changes
<1>3. ClientType'
  BY <1>1 DEF Changes, ClientInv, ClientType
<1>4. ReceiptsAreTrue' /\ SavingHasReceived'
  BY <1>1, <1>2 DEF Changes, ClientInv, ReceiptsAreTrue, SavingHasReceived, serverVars
<1> QED
  BY <1>2, <1>3, <1>4, InvIsBoth DEF ClientInv

LEMMA DialogPreserves ==
    ASSUME IInv, NEW a \in App,
           \/ open_feedback(a) \/ show_feedback(a)
           \/ request_feedback_screenshot(a) \/ poll_feedback_screenshot(a)
    PROVE  IInv'
<1> DEFINE Forms == [open : BOOLEAN, text : Text \cup {None}, picture : Picture \cup {None},
                     confirmed : BOOLEAN, capturing : BOOLEAN]
<1>1. form[a] \in Forms /\ form \in [App -> Forms]
  BY DEF IInv, TypeOK
<1>2. \E f \in Forms : Changes(a, f)
  <2>1. CASE open_feedback(a)
    <3>1. [form[a] EXCEPT !.open = TRUE, !.confirmed = FALSE] \in Forms
      BY <1>1
    <3>2. Changes(a, [form[a] EXCEPT !.open = TRUE, !.confirmed = FALSE])
      BY <2>1, <1>1 DEF open_feedback, Changes
    <3> QED
      BY <3>1, <3>2
  <2>2. CASE show_feedback(a)
    <3>1. [form[a] EXCEPT !.open = FALSE] \in Forms
      BY <1>1
    <3>2. \A t \in NewText : [form[a] EXCEPT !.text = t] \in Forms
      BY <1>1, FeedbackAssumption
    <3>3. [form[a] EXCEPT !.confirmed = ~@] \in Forms
      BY <1>1
    <3>4. [form[a] EXCEPT !.picture = None] \in Forms
      BY <1>1
    <3> QED
      BY <2>2, <3>1, <3>2, <3>3, <3>4 DEF show_feedback
  <2>3. CASE request_feedback_screenshot(a)
    <3>1. [form[a] EXCEPT !.capturing = TRUE, !.open = FALSE] \in Forms
      BY <1>1
    <3> QED
      BY <2>3, <3>1 DEF request_feedback_screenshot
  <2>4. CASE poll_feedback_screenshot(a)
    <3>1. \A p \in Picture :
              [form[a] EXCEPT !.picture = p, !.capturing = FALSE, !.open = TRUE] \in Forms
      BY <1>1
    <3> QED
      BY <2>4, <3>1 DEF poll_feedback_screenshot
  <2> QED
    BY <2>1, <2>2, <2>3, <2>4
<1> QED
  BY <1>2, FormPreserves

\* A receipt that is read from the file is true, or was torn and is none.
LEMMA ProcessPreserves ==
    ASSUME IInv, NEW a \in App, Launch(a) \/ Kill(a)
    PROVE  IInv'
<1>1. ServerInv /\ ClientInv
  BY InvIsBoth
<1>2. ServerInv' /\ Truths' = Truths
  BY <1>1, ServerKept DEF Launch, Kill
<1>3. ClientType'
  <2>1. CASE Launch(a)
    BY <1>1, <2>1 DEF Launch, ClientInv, ClientType
  <2>2. CASE Kill(a)
    <3>1. BlankForm \in [open : BOOLEAN, text : Text \cup {None}, picture : Picture \cup {None},
                         confirmed : BOOLEAN, capturing : BOOLEAN]
      BY DEF BlankForm
    <3> QED
      BY <1>1, <2>2, <3>1 DEF Kill, ClientInv, ClientType
  <2> QED
    BY <2>1, <2>2
<1>4. ReceiptsAreTrue'
  <2>1. CASE Launch(a)
    BY <1>1, <1>2, <2>1 DEF Launch, ClientInv, ClientType, ReceiptsAreTrue
  <2>2. CASE Kill(a)
    BY <1>1, <1>2, <2>2 DEF Kill, ClientInv, ClientType, ReceiptsAreTrue
  <2> QED
    BY <2>1, <2>2
<1>5. SavingHasReceived'
  BY <1>1 DEF Launch, Kill, ClientInv, ClientType, SavingHasReceived, serverVars
<1> QED
  BY <1>2, <1>3, <1>4, <1>5, InvIsBoth DEF ClientInv

\* Nobody, or the notice, takes what has come of a request.
LEMMA TakenPreserves ==
    ASSUME IInv, NEW a \in App, Abandoned(a) \/ PollError(a)
    PROVE  IInv'
<1>1. ServerInv /\ ClientInv
  BY InvIsBoth
<1>2. /\ request' = [request EXCEPT ![a] = NoRequest] /\ a \in Sender
      /\ UNCHANGED <<reviews, images, audit>> /\ UNCHANGED clientVars
  BY DEF Abandoned, PollError, Sender
<1>3. NoRequest.at # "saved" /\ submitted' = submitted /\ submitted \subseteq Report
  BY <1>1, <1>2 DEF NoRequest, clientVars, ServerInv, ServerType
<1>4. ServerInv'
  BY <1>1, <1>2, <1>3, NoRequestFits, QuietRequest
<1>5. Truths' = Truths
  BY <1>1, <1>2, Quiet
<1>6. ClientType' /\ ReceiptsAreTrue'
  BY <1>1, <1>2, <1>5 DEF ClientInv, ClientType, ReceiptsAreTrue, clientVars
<1>7. SavingHasReceived'
  <2>1. process[a] # "saving"
    BY <1>1 DEF Abandoned, PollError, ClientInv, SavingHasReceived
  <2> QED
    BY <1>1, <1>2, <2>1
       DEF ClientInv, SavingHasReceived, clientVars, ServerInv, ServerType, Sender
<1> QED
  BY <1>4, <1>6, <1>7, InvIsBoth DEF ClientInv

\* A request that is sent.
LEMMA SendPreserves ==
    ASSUME IInv, NEW s \in Sender, NEW q, Send(s, q), q.at # "saved",
           UNCHANGED <<reviews, images, audit, process, form, receipt, file>>,
           submitted \subseteq submitted', submitted' \subseteq Report,
           Fits(s, q, submitted', Rows, Owned, Truths)
    PROVE  IInv'
<1>1. ServerInv /\ ClientInv
  BY InvIsBoth
<1>2. request' = [request EXCEPT ![s] = q] /\ request[s].op = "none"
  BY DEF Send
<1>3. ServerInv'
  BY <1>1, <1>2, QuietRequest
<1>4. Truths' = Truths
  BY <1>1, Quiet
<1>5. ClientType' /\ ReceiptsAreTrue'
  BY <1>1, <1>4 DEF ClientInv, ClientType, ReceiptsAreTrue
<1>6. request[s].at # "received"
  <2>1. request[s] = NoRequest
    BY <1>1, <1>2 DEF ServerInv, RequestsFit, Fits
  <2> QED
    BY <2>1 DEF NoRequest
<1>7. SavingHasReceived'
  BY <1>1, <1>2, <1>6 DEF ClientInv, SavingHasReceived, ServerInv, ServerType, Sender
<1> QED
  BY <1>3, <1>5, <1>7, InvIsBoth DEF ClientInv

LEMMA SubmitPreserves ==
    ASSUME IInv, NEW a \in App, submit_feedback(a)
    PROVE  IInv'
<1>1. ServerInv /\ ClientInv
  BY InvIsBoth
<1>2. /\ form[a].text \in Text /\ form[a].picture \in Picture \cup {None}
  BY <1>1 DEF submit_feedback, ClientInv, ClientType
<1>3. PICK t, p : t = form[a].text /\ p = form[a].picture
  OBVIOUS
<1>4. PICK q : q = [NoRequest EXCEPT !.op = "create", !.at = "sent", !.text = t, !.picture = p]
  OBVIOUS
<1>5. q = [op |-> "create", at |-> "sent", surface |-> "desktop", review |-> 0,
           status |-> "pending", reply |-> FALSE, text |-> t, picture |-> p, file |-> None]
  BY <1>4 DEF NoRequest
<1>6. Send(a, q)
  BY <1>3, <1>4 DEF submit_feedback
<1>7. submitted' = submitted \cup {[text |-> t, picture |-> p]}
  BY <1>3 DEF submit_feedback, OnForm
<1>8. submitted \subseteq submitted' /\ submitted' \subseteq Report
  BY <1>1, <1>2, <1>3, <1>7 DEF ServerInv, ServerType, Report
<1>9. 0 \in 0..MaxWrites /\ a \in Sender /\ a \notin Browser
  BY ReviewAssumption DEF Sender
<1>10. q \in Request
  BY <1>2, <1>3, <1>5, <1>9, ReviewAssumption DEF Request
<1>11. Fits(a, q, submitted', Rows, Owned, Truths)
  BY <1>2, <1>3, <1>5, <1>7, <1>9, <1>10 DEF Fits
<1>12. q.at # "saved"
  BY <1>5
<1> QED
  BY <1>6, <1>8, <1>9, <1>11, <1>12, SendPreserves DEF submit_feedback

LEMMA RefreshPreserves ==
    ASSUME IInv, NEW a \in App, refresh_feedback_status(a)
    PROVE  IInv'
<1>1. ServerInv /\ ClientInv
  BY InvIsBoth
<1>2. receipt[a].review \in Rows /\ receipt[a].review \in 1..MaxWrites
  <2>1. receipt[a] \in Truths
    BY <1>1 DEF refresh_feedback_status, ClientInv, ReceiptsAreTrue
  <2> QED
    BY <2>1 DEF Truths, Receipt
<1>3. PICK i : i = receipt[a].review
  OBVIOUS
<1>4. PICK q : q = [NoRequest EXCEPT !.op = "receipt", !.at = "sent", !.review = i]
  OBVIOUS
<1>5. q = [op |-> "receipt", at |-> "sent", surface |-> "desktop", review |-> i,
           status |-> "pending", reply |-> FALSE, text |-> None, picture |-> None, file |-> None]
  BY <1>4 DEF NoRequest
<1>6. Send(a, q)
  BY <1>3, <1>4 DEF refresh_feedback_status
<1>7. i \in 0..MaxWrites /\ a \in Sender /\ a \notin Browser
  BY <1>2, <1>3, ReviewAssumption DEF Sender
<1>8. q \in Request
  BY <1>5, <1>7, ReviewAssumption DEF Request
<1>9. Fits(a, q, submitted, Rows, Owned, Truths)
  BY <1>2, <1>3, <1>5, <1>7, <1>8 DEF Fits
<1>10. q.at # "saved" /\ submitted \subseteq Report
  BY <1>1, <1>5 DEF ServerInv, ServerType
<1> QED
  BY <1>6, <1>7, <1>9, <1>10, SendPreserves DEF refresh_feedback_status, clientVars

LEMMA BrowsePreserves ==
    ASSUME IInv, NEW b \in Browser, Browse(b)
    PROVE  IInv'
<1>1. ServerInv /\ submitted \subseteq Report
  BY InvIsBoth DEF ServerInv, ServerType
<1>2. b \in Sender /\ b \notin App /\ 0 \in 0..MaxWrites
  BY ReviewAssumption DEF Sender
<1>3. /\ UNCHANGED <<reviews, images, audit, process, form, receipt, file>>
      /\ submitted' = submitted
  BY DEF Browse, clientVars
<1>4. ASSUME NEW q \in Request, Send(b, q), q.at = "sent", q.file = None,
             q.text \in Text \cup {None},
             q.op \in {"create", "edit", "withdraw"},
             q.op = "create" => q.surface = "prototype" /\ q.text \in Text,
             q.op = "edit" => q.text \in Text,
             q.op \in {"edit", "withdraw"} => q.review \in Owned
      PROVE  IInv'
  <2>1. Fits(b, q, submitted, Rows, Owned, Truths)
    BY <1>2, <1>4 DEF Fits
  <2> QED
    BY <1>1, <1>2, <1>3, <1>4, <2>1, SendPreserves
<1>5. ASSUME NEW t \in NewText,
             Send(b, [NoRequest EXCEPT !.op = "create", !.at = "sent",
                                       !.surface = "prototype", !.text = t])
      PROVE  IInv'
  <2>1. PICK q : q = [NoRequest EXCEPT !.op = "create", !.at = "sent",
                                     !.surface = "prototype", !.text = t]
    OBVIOUS
  <2>2. q = [op |-> "create", at |-> "sent", surface |-> "prototype", review |-> 0,
                      status |-> "pending", reply |-> FALSE, text |-> t, picture |-> None,
                      file |-> None]
    BY <2>1 DEF NoRequest
  <2>3. Send(b, q)
    BY <1>5, <2>1
  <2>4. q \in Request /\ t \in Text
    BY <1>2, <2>2, ReviewAssumption, FeedbackAssumption DEF Request
  <2> QED
    BY <1>4, <2>2, <2>3, <2>4
<1>6. ASSUME NEW i \in 1..MaxWrites, NEW t \in Text, Own(i),
             Send(b, [NoRequest EXCEPT !.op = "edit", !.at = "sent", !.review = i, !.text = t])
      PROVE  IInv'
  <2>1. PICK q : q = [NoRequest EXCEPT !.op = "edit", !.at = "sent", !.review = i, !.text = t]
    OBVIOUS
  <2>2. q = [op |-> "edit", at |-> "sent", surface |-> "desktop", review |-> i,
                      status |-> "pending", reply |-> FALSE, text |-> t, picture |-> None,
                      file |-> None]
    BY <2>1 DEF NoRequest
  <2>3. Send(b, q)
    BY <1>6, <2>1
  <2>4. i \in 0..MaxWrites /\ i \in Owned
    BY <1>6, ReviewAssumption DEF Own, Owned, Rows
  <2>5. q \in Request
    BY <2>2, <2>4, ReviewAssumption DEF Request
  <2> QED
    BY <1>4, <2>2, <2>3, <2>4, <2>5
<1>7. ASSUME NEW i \in 1..MaxWrites, Own(i),
             Send(b, [NoRequest EXCEPT !.op = "withdraw", !.at = "sent", !.review = i])
      PROVE  IInv'
  <2>1. PICK q : q = [NoRequest EXCEPT !.op = "withdraw", !.at = "sent", !.review = i]
    OBVIOUS
  <2>2. q = [op |-> "withdraw", at |-> "sent", surface |-> "desktop", review |-> i,
                      status |-> "pending", reply |-> FALSE, text |-> None, picture |-> None,
                      file |-> None]
    BY <2>1 DEF NoRequest
  <2>3. Send(b, q)
    BY <1>7, <2>1
  <2>4. i \in 0..MaxWrites /\ i \in Owned
    BY <1>7, ReviewAssumption DEF Own, Owned, Rows
  <2>5. q \in Request
    BY <2>2, <2>4, ReviewAssumption DEF Request
  <2> QED
    BY <1>4, <2>2, <2>3, <2>4, <2>5
<1> QED
  BY <1>5, <1>6, <1>7 DEF Browse

\* The file is torn, the answer is still at hand.
LEMMA TruncatePreserves ==
    ASSUME IInv, NEW a \in App, TruncateReceipt(a)
    PROVE  IInv'
<1>1. ServerInv /\ ClientInv
  BY InvIsBoth
<1>2. a \in Sender /\ request[a].at = "answered" /\ request[a] \in Request
  BY <1>1 DEF TruncateReceipt, Sender, ServerInv, ServerType
<1>3. PICK q : q = [request[a] EXCEPT !.at = "received"]
  OBVIOUS
<1>4. request' = [request EXCEPT ![a] = q]
  BY <1>3 DEF TruncateReceipt
<1>5. Fits(a, request[a], submitted, Rows, Owned, Truths)
  BY <1>1, <1>2 DEF ServerInv, RequestsFit
<1>6. /\ q \in Request /\ q.at = "received" /\ q.op = request[a].op
      /\ q.surface = request[a].surface /\ q.review = request[a].review
      /\ q.status = request[a].status /\ q.reply = request[a].reply
      /\ q.text = request[a].text
  BY <1>2, <1>3 DEF Request
<1>7. a \notin Browser /\ request[a].op # "none"
  BY <1>1, <1>2, Busy, ReviewAssumption DEF ServerInv
<1>8. Fits(a, q, submitted, Rows, Owned, Truths)
  BY <1>2, <1>5, <1>6, <1>7 DEF Fits
<1>9. /\ UNCHANGED <<reviews, images, audit>> /\ submitted' = submitted
      /\ submitted \subseteq Report
  BY <1>1 DEF TruncateReceipt, ServerInv, ServerType
<1>10. ServerInv'
  BY <1>1, <1>2, <1>4, <1>6, <1>8, <1>9, QuietRequest
<1>11. Truths' = Truths
  BY <1>1, <1>9, Quiet
<1>12. ClientType' /\ ReceiptsAreTrue'
  BY <1>1, <1>11 DEF TruncateReceipt, ClientInv, ClientType, ReceiptsAreTrue
<1>13. SavingHasReceived'
  BY <1>1, <1>4, <1>6
     DEF TruncateReceipt, ClientInv, ClientType, SavingHasReceived, ServerInv, ServerType, Sender
<1> QED
  BY <1>10, <1>12, <1>13, InvIsBoth DEF ClientInv

\* The answer becomes the receipt, in the file and in memory.
LEMMA WriteReceiptPreserves ==
    ASSUME IInv, NEW a \in App, WriteReceipt(a)
    PROVE  IInv'
<1>1. ServerInv /\ ClientInv
  BY InvIsBoth
<1>2. a \in Sender /\ request[a].at = "received"
  BY <1>1 DEF WriteReceipt, Sender, ClientInv, SavingHasReceived
<1>3. ReceiptOf(a) \in Truths
  BY <1>1, <1>2 DEF ServerInv, RequestsFit, Fits, ReceiptOf
<1>4. /\ request' = [request EXCEPT ![a] = NoRequest] /\ NoRequest.at # "saved"
      /\ UNCHANGED <<reviews, images, audit>> /\ submitted' = submitted
      /\ submitted \subseteq Report
  BY <1>1 DEF WriteReceipt, NoRequest, ServerInv, ServerType
<1>5. ServerInv'
  BY <1>1, <1>2, <1>4, NoRequestFits, QuietRequest
<1>6. Truths' = Truths
  BY <1>1, <1>4, Quiet
<1>7. PICK r : r = ReceiptOf(a)
  OBVIOUS
<1>8. r \in Truths /\ r \in Receipt /\ file' = r /\ receipt' = [receipt EXCEPT ![a] = r]
  BY <1>3, <1>7 DEF WriteReceipt, Truths
<1>9. ClientType'
  <2>1. form' \in [App -> [open : BOOLEAN, text : Text \cup {None},
                          picture : Picture \cup {None}, confirmed : BOOLEAN,
                          capturing : BOOLEAN]]
    BY <1>1 DEF WriteReceipt, ClientInv, ClientType, BlankForm
  <2> QED
    BY <1>1, <1>8, <2>1 DEF WriteReceipt, ClientInv, ClientType
<1>10. ReceiptsAreTrue'
  BY <1>1, <1>6, <1>8 DEF ClientInv, ClientType, ReceiptsAreTrue
<1>11. SavingHasReceived'
  BY <1>1, <1>4
     DEF WriteReceipt, ClientInv, ClientType, SavingHasReceived, ServerInv, ServerType, Sender
<1> QED
  BY <1>5, <1>9, <1>10, <1>11, InvIsBoth DEF ClientInv

----------------------------------------------------------------------------
LEMMA InitHolds == Init => IInv
<1> SUFFICES ASSUME Init PROVE IInv
  OBVIOUS
<1>1. /\ reviews = <<>> /\ audit = <<>> /\ images = [f \in File |-> None]
      /\ request = [s \in Sender |-> NoRequest]
  BY DEF Init, ReviewInit
<1>2. /\ reviews \in Seq(Row) /\ audit \in Seq(Entry) /\ Len(reviews) = 0 /\ Len(audit) = 0
      /\ 1..Len(reviews) = {} /\ 1..Len(audit) = {}
  BY <1>1, EmptySeq
<1>3. \A s \in Sender : Fits(s, request[s], submitted, Rows, Owned, Truths)
  BY <1>1, NoRequestFits
<1>4. RequestsFit /\ request \in [Sender -> Request]
  BY <1>1, <1>3 DEF RequestsFit, Fits
<1>5. ServerType
  BY <1>1, <1>2, <1>4 DEF ServerType, Init
<1>6. Within /\ EntriesNameRows /\ AuditReplays /\ InboxHoldsReports
  BY <1>2, ReviewAssumption DEF Within, EntriesNameRows, AuditReplays, InboxHoldsReports
<1>7. FilesAreApart
  BY <1>1, <1>2 DEF FilesAreApart, Attached, NoRequest, Rows
<1>8. ClientInv
  BY DEF Init, ClientInv, ClientType, ReceiptsAreTrue, SavingHasReceived, BlankForm
<1> QED
  BY <1>4, <1>5, <1>6, <1>7, <1>8, InvIsBoth DEF ServerInv

\* The invariant is inductive.
LEMMA NextPreserves == IInv /\ [Next]_vars => IInv'
<1> SUFFICES ASSUME IInv, [Next]_vars PROVE IInv'
  OBVIOUS
<1>1. CASE UNCHANGED vars
  <2>1. UNCHANGED <<serverVars, submitted>> /\ UNCHANGED clientVars /\ request' = request
    BY <1>1 DEF vars, serverVars, clientVars
  <2>2. ServerInv' /\ Truths' = Truths
    BY <2>1, ServerKept, InvIsBoth
  <2>3. ClientInv'
    BY <2>1, <2>2, ClientKept, InvIsBoth
  <2> QED
    BY <2>2, <2>3, InvIsBoth
<1>2. ASSUME NEW a \in App, Form(a)
      PROVE  IInv'
  BY <1>2, ProcessPreserves, TakenPreserves, DialogPreserves, SubmitPreserves,
     RefreshPreserves, TruncatePreserves, WriteReceiptPreserves DEF Form, Poll
<1>3. ASSUME NEW b \in Browser, Browse(b)
      PROVE  IInv'
  BY <1>3, BrowsePreserves
<1>4. CASE ReviewNext /\ UNCHANGED clientVars
  BY <1>4, ServicePreserves
<1> QED
  BY <1>1, <1>2, <1>3, <1>4 DEF Next

LEMMA Invariance == Spec => []IInv
<1> QED
  BY InitHolds, NextPreserves, PTL DEF Spec

(***************************************************************************)
(* Requests, rows, entries and receipts keep their types.                  *)
(***************************************************************************)
THEOREM TypeCorrect == Spec => []TypeOK
<1>1. IInv => TypeOK
  BY DEF IInv
<1> QED
  BY <1>1, Invariance, PTL

(***************************************************************************)
(* Reading audit_log from its start gives the status, the reply and the    *)
(* edited text of every review: create_review, edit_review,                *)
(* withdraw_review and update_review may race and the process may stop     *)
(* between any two of their steps.                                         *)
(***************************************************************************)
THEOREM LogReplays == Spec => []AuditReplays
<1>1. IInv => AuditReplays
  BY DEF IInv
<1> QED
  BY <1>1, Invariance, PTL

(***************************************************************************)
(* Every report in the inbox is one that was confirmed and sent, with its  *)
(* screenshot: no failure of create_review, crash or second submission     *)
(* takes it away.                                                          *)
(***************************************************************************)
THEOREM InboxIsSent == Spec => []InboxHoldsReports
<1>1. IInv => InboxHoldsReports
  BY DEF IInv
<1> QED
  BY <1>1, Invariance, PTL

(***************************************************************************)
(* A receipt, in a client's memory or in feedback-receipt.json, is of a    *)
(* report in the inbox and says what it has had at one time, though        *)
(* answers are late, lost or of another window and a client may be killed  *)
(* between truncating the file and writing it.                             *)
(***************************************************************************)
THEOREM ReceiptsTell == Spec => []ReceiptIsTrue
<1>1. IInv => ReceiptIsTrue
  <2>1. SUFFICES ASSUME ReceiptsAreTrue PROVE ReceiptIsTrue
    BY DEF IInv
  <2>2. \A r \in {receipt[a] : a \in App} \cup {file} :
            r \notin {None, Torn} => r \in Truths
    BY <2>1 DEF ReceiptsAreTrue
  <2> QED
    BY <2>2 DEF ReceiptIsTrue, Truths, Rows
<1> QED
  BY <1>1, Invariance, PTL
=============================================================================
