------------------------------- MODULE Review -------------------------------
(***************************************************************************)
(* The feedback service (apps/review-prototype/server.py): a table of      *)
(* reviews, a directory of screenshots and an audit log, which a thread    *)
(* per request changes.  A transaction is one step; a row that is read to  *)
(* decide about a request and the write that follows are two.  The process *)
(* may stop between any two steps of a thread, and an answer may be lost.  *)
(*                                                                         *)
(* Tokens are the right to name a review; a message or a picture is a      *)
(* value; the rate limit is a request that may be refused.                 *)
(***************************************************************************)
EXTENDS Naturals, Sequences

CONSTANTS
    App,         \* the desktop clients that send requests, one at a time
    Browser,     \* the browsers of reviewers, likewise
    Text,        \* what a report says
    Picture,     \* the screenshots
    File,        \* the names of screenshot files
    Status,      \* the states of a review, of STATUSES
    None,
    MaxWrites    \* bound: the rows of both tables

ASSUME ReviewAssumption ==
    /\ {"pending", "withdrawn"} \subseteq Status
    /\ Status \subseteq {"pending", "in_progress", "client_review", "completed",
                         "rejected", "withdrawn"}
    /\ None \notin Text \cup Picture \cup File
    /\ MaxWrites \in Nat
    /\ App \cap Browser = {}

Sender == App \cup Browser

VARIABLES
    reviews,  \* the rows, in the order of their numbers
    images,   \* images[f]: the picture in file f, or None
    audit,    \* audit_log
    request   \* request[s]: what s has asked for and how far it is

serverVars == <<reviews, images, audit, request>>

\* The states an owner has to explain, and those a reviewer cannot withdraw from.
Explained == Status \cap {"client_review", "completed", "rejected"}

Terminal == Status \cap {"completed", "rejected", "withdrawn"}

NoRequest ==
    [op |-> "none", at |-> "idle", surface |-> "desktop", review |-> 0, status |-> "pending",
     reply |-> FALSE, text |-> None, picture |-> None, file |-> None]

Row == [surface : {"desktop", "prototype"}, text : Text, file : File \cup {None},
        status : Status, reply : BOOLEAN]

Entry == [review : 1..MaxWrites, action : {"edit", "withdraw", "update"},
          status : Status, reply : BOOLEAN, text : Text \cup {None}]

Request == [op : {"none", "create", "receipt", "edit", "withdraw"},
            at : {"idle", "sent", "saved", "read", "answered", "received", "failed"},
            surface : {"desktop", "prototype"}, review : 0..MaxWrites, status : Status,
            reply : BOOLEAN, text : Text \cup {None}, picture : Picture \cup {None},
            file : File \cup {None}]

ReviewInit ==
    /\ reviews = <<>>
    /\ images = [f \in File |-> None]
    /\ audit = <<>>
    /\ request = [s \in Sender |-> NoRequest]

\* There is room for a row in the instance that is checked.
Room == Len(reviews) + Len(audit) < MaxWrites

Asks(s, op, at) == request[s].op = op /\ request[s].at = at

\* A sender opens a connection; it waits for the answer.
Send(s, r) ==
    /\ request[s].op = "none"
    /\ r.op # "receipt" => Room
    /\ request' = [request EXCEPT ![s] = r]

\* The thread of s ends with an error, or with this answer.  A browser shows
\* either and keeps neither.
Error(s) ==
    IF s \in App THEN [NoRequest EXCEPT !.op = request[s].op, !.at = "failed"] ELSE NoRequest

Failed(s) == request' = [request EXCEPT ![s] = Error(s)]

Answered(s, i, status, reply) ==
    request' = [request EXCEPT ![s] =
                   IF s \in Browser THEN NoRequest
                   ELSE [Error(s) EXCEPT !.at = "answered", !.review = i,
                                         !.status = status, !.reply = reply]]

----------------------------------------------------------------------------
\* Too many requests, an invalid payload, a service that cannot be reached.
Refuse(s) ==
    /\ request[s].at = "sent"
    /\ Failed(s)
    /\ UNCHANGED <<reviews, images, audit>>

\* save_screenshot: the file is created under a name nobody has used.
save_screenshot(s) ==
    /\ Asks(s, "create", "sent")
    /\ \/ request[s].picture = None
          /\ request' = [request EXCEPT ![s].at = "saved"]
          /\ UNCHANGED images
       \/ \E f \in File :
             /\ request[s].picture # None
             /\ images[f] = None
             /\ images' = [images EXCEPT ![f] = request[s].picture]
             /\ request' = [request EXCEPT ![s].at = "saved", ![s].file = f]
    /\ UNCHANGED <<reviews, audit>>

\* create_review: the row is inserted.
InsertReview(s) ==
    /\ Asks(s, "create", "saved")
    /\ Room
    /\ reviews' = Append(reviews, [surface |-> request[s].surface, text |-> request[s].text,
                                   file |-> request[s].file, status |-> "pending",
                                   reply |-> FALSE])
    /\ Answered(s, Len(reviews) + 1, "pending", FALSE)
    /\ UNCHANGED <<images, audit>>

\* Mutant: the screenshot is removed after a failure that follows the insertion.
InsertFailsLate(s) ==
    /\ Asks(s, "create", "saved")
    /\ Room
    /\ reviews' = Append(reviews, [surface |-> request[s].surface, text |-> request[s].text,
                                   file |-> request[s].file, status |-> "pending",
                                   reply |-> FALSE])
    /\ images' = [f \in File |-> IF f = request[s].file THEN None ELSE images[f]]
    /\ Failed(s)
    /\ UNCHANGED audit

\* The row cannot be inserted: its screenshot is removed again.
InsertFails(s) ==
    /\ Asks(s, "create", "saved")
    /\ images' = [f \in File |-> IF f = request[s].file THEN None ELSE images[f]]
    /\ Failed(s)
    /\ UNCHANGED <<reviews, audit>>

get_review_receipt(s) ==
    /\ Asks(s, "receipt", "sent")
    /\ LET row == reviews[request[s].review]
       IN  /\ row.surface = "desktop"
           /\ Answered(s, request[s].review, row.status, row.reply)
    /\ UNCHANGED <<reviews, images, audit>>

\* edit_review and withdraw_review read the row and decide.
ReadReview(s) ==
    /\ request[s].op \in {"edit", "withdraw"}
    /\ request[s].at = "sent"
    /\ LET status == reviews[request[s].review].status
           open   == IF request[s].op = "edit" THEN status = "pending"
                     ELSE status \notin Terminal
       IN  IF open
           THEN request' = [request EXCEPT ![s].at = "read", ![s].status = status]
           ELSE Failed(s)
    /\ UNCHANGED <<reviews, images, audit>>

Log(entry) == Room /\ audit' = Append(audit, entry)

\* Mutant: the whole row is written back as it was read.
WriteEditRow(s) ==
    /\ Asks(s, "edit", "read")
    /\ reviews' = [reviews EXCEPT ![request[s].review].text = request[s].text,
                                  ![request[s].review].status = request[s].status]
    /\ Log([review |-> request[s].review, action |-> "edit", status |-> "pending",
            reply |-> FALSE, text |-> request[s].text])
    /\ Answered(s, request[s].review, "pending", FALSE)
    /\ UNCHANGED images

\* The row is changed by its number alone, in one transaction with the entry.
WriteEdit(s) ==
    /\ Asks(s, "edit", "read")
    /\ reviews' = [reviews EXCEPT ![request[s].review].text = request[s].text]
    /\ Log([review |-> request[s].review, action |-> "edit", status |-> "pending",
            reply |-> FALSE, text |-> request[s].text])
    /\ Answered(s, request[s].review, "pending", FALSE)
    /\ UNCHANGED images

WriteWithdraw(s) ==
    /\ Asks(s, "withdraw", "read")
    /\ reviews' = [reviews EXCEPT ![request[s].review].status = "withdrawn"]
    /\ Log([review |-> request[s].review, action |-> "withdraw", status |-> request[s].status,
            reply |-> FALSE, text |-> None])
    /\ Answered(s, request[s].review, "pending", FALSE)
    /\ UNCHANGED images

\* An owner explains what the reporter is to look at or to live with.
MayUpdate(status, reply) == status \in Explained => reply

\* update_review, by the owner: no state of the row forbids it.
update_review(i, status, reply) ==
    /\ i \in 1..Len(reviews)
    /\ MayUpdate(status, reply)
    /\ reviews' = [reviews EXCEPT ![i].status = status, ![i].reply = reply]
    /\ Log([review |-> i, action |-> "update", status |-> status, reply |-> reply,
            text |-> None])
    /\ UNCHANGED <<images, request>>

\* The process stops, by a restart or a fault: every thread with it.
Restart ==
    /\ \E s \in Sender : request[s].at \in {"sent", "saved", "read"}
    /\ request' = [s \in Sender |->
                      IF request[s].at \in {"sent", "saved", "read"}
                      THEN Error(s) ELSE request[s]]
    /\ UNCHANGED <<reviews, images, audit>>

LoseAnswer(s) ==
    /\ request[s].at = "answered"
    /\ Failed(s)
    /\ UNCHANGED <<reviews, images, audit>>

Serve(s) ==
    \/ save_screenshot(s) \/ InsertReview(s) \/ InsertFails(s) \/ get_review_receipt(s)
    \/ ReadReview(s) \/ WriteEdit(s) \/ WriteWithdraw(s) \/ Refuse(s)

ReviewNext ==
    \/ \E s \in Sender : Serve(s) \/ LoseAnswer(s)
    \/ \E i \in 1..MaxWrites, status \in Status, reply \in BOOLEAN :
          update_review(i, status, reply)
    \/ Restart

----------------------------------------------------------------------------
\* What the first n entries of the log make of review i.
Entries(i, n, actions) == {k \in 1..n : audit[k].review = i /\ audit[k].action \in actions}

Latest(ks) == CHOOSE k \in ks : \A j \in ks : j <= k

StatusAfter(i, n) ==
    LET ks == Entries(i, n, {"withdraw", "update"})
    IN  IF ks = {} THEN "pending"
        ELSE IF audit[Latest(ks)].action = "withdraw" THEN "withdrawn"
        ELSE audit[Latest(ks)].status

ReplyAfter(i, n) ==
    LET ks == Entries(i, n, {"update"}) IN ks # {} /\ audit[Latest(ks)].reply

(***************************************************************************)
(* README of the service: replies and status changes are recorded in       *)
(* audit_log.  Reading the log from its start gives the state, the reply   *)
(* and the edited text of every review, however requests have raced and    *)
(* wherever the process has stopped.                                       *)
(***************************************************************************)
AuditReplays ==
    \A i \in 1..Len(reviews) :
        /\ reviews[i].status = StatusAfter(i, Len(audit))
        /\ reviews[i].reply = ReplyAfter(i, Len(audit))
        /\ LET ks == Entries(i, Len(audit), {"edit"})
           IN  ks # {} => reviews[i].text = audit[Latest(ks)].text
=============================================================================
