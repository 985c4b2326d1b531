------------------------------ MODULE Feedback ------------------------------
(***************************************************************************)
(* The feedback form of the desktop client (apps/desktop) and the service  *)
(* it reports to (Review).  The form has one slot for a request, which a   *)
(* report and a check for a reply share; the receipt of the last report is *)
(* kept in a file that windows of one user share.  A process may be killed *)
(* at any moment, its request goes on without it.  Browsers of reviewers   *)
(* send, edit and withdraw reviews of their own at the same service.       *)
(***************************************************************************)
EXTENDS Review

CONSTANTS
    NewText,   \* the texts of new reports
    Torn       \* a file that was truncated and not yet written

ASSUME FeedbackAssumption == NewText \subseteq Text /\ Torn # None

VARIABLES
    process,    \* process[a]: "closed", "open" or "saving"
    form,       \* form[a]: the dialog
    receipt,    \* receipt[a]: the receipt in memory
    file,       \* feedback-receipt.json
    submitted   \* the reports that were confirmed and sent

clientVars == <<process, form, receipt, file, submitted>>
vars == <<reviews, images, audit, request, process, form, receipt, file, submitted>>

Report == [text : Text, picture : Picture \cup {None}]

Receipt == [review : 1..MaxWrites, status : Status, reply : BOOLEAN]

BlankForm == [open |-> FALSE, text |-> None, picture |-> None, confirmed |-> FALSE,
              capturing |-> FALSE]

TypeOK ==
    /\ reviews \in Seq(Row)
    /\ images \in [File -> Picture \cup {None}]
    /\ audit \in Seq(Entry)
    /\ request \in [Sender -> Request]
    /\ process \in [App -> {"closed", "open", "saving"}]
    /\ form \in [App -> [open : BOOLEAN, text : Text \cup {None},
                         picture : Picture \cup {None}, confirmed : BOOLEAN,
                         capturing : BOOLEAN]]
    /\ receipt \in [App -> Receipt \cup {None}]
    /\ file \in Receipt \cup {None, Torn}
    /\ submitted \subseteq Report

Init ==
    /\ ReviewInit
    /\ process = [a \in App |-> "closed"]
    /\ form = [a \in App |-> BlankForm]
    /\ receipt = [a \in App |-> None]
    /\ file = None
    /\ submitted = {}

----------------------------------------------------------------------------
\* Mutant: whatever the file holds is taken for a receipt.
LaunchTorn(a) ==
    /\ process[a] = "closed"
    /\ request[a].op = "none"
    /\ process' = [process EXCEPT ![a] = "open"]
    /\ receipt' = [receipt EXCEPT ![a] = file]
    /\ UNCHANGED <<serverVars, form, file, submitted>>

\* new: a receipt that cannot be read is taken for none.  What a killed client
\* had asked for is through before the next is launched.
Launch(a) ==
    /\ process[a] = "closed"
    /\ request[a].op = "none"
    /\ process' = [process EXCEPT ![a] = "open"]
    /\ receipt' = [receipt EXCEPT ![a] = IF file = Torn THEN None ELSE file]
    /\ UNCHANGED <<serverVars, form, file, submitted>>

Kill(a) ==
    /\ process[a] \in {"open", "saving"}
    /\ process' = [process EXCEPT ![a] = "closed"]
    /\ form' = [form EXCEPT ![a] = BlankForm]
    /\ receipt' = [receipt EXCEPT ![a] = None]
    /\ UNCHANGED <<serverVars, file, submitted>>

\* Nobody takes the answer.
Abandoned(a) ==
    /\ process[a] = "closed"
    /\ request[a].at \in {"answered", "received", "failed"}
    /\ request' = [request EXCEPT ![a] = NoRequest]
    /\ UNCHANGED <<reviews, images, audit, clientVars>>

open_feedback(a) ==
    /\ process[a] = "open"
    /\ ~form[a].open
    /\ form' = [form EXCEPT ![a].open = TRUE, ![a].confirmed = FALSE]
    /\ UNCHANGED <<serverVars, process, receipt, file, submitted>>

\* The dialog is in front of the person.
Shown(a) == process[a] = "open" /\ form[a].open

Changes(a, f) ==
    /\ form' = [form EXCEPT ![a] = f]
    /\ UNCHANGED <<serverVars, process, receipt, file, submitted>>

\* Writing, ticking the box and taking a picture are free while a request runs;
\* none of them takes a given confirmation back.
show_feedback(a) ==
    /\ Shown(a)
    /\ \/ Changes(a, [form[a] EXCEPT !.open = FALSE])
       \/ \E t \in NewText : Changes(a, [form[a] EXCEPT !.text = t])
       \/ Changes(a, [form[a] EXCEPT !.confirmed = ~@])
       \/ form[a].picture # None /\ Changes(a, [form[a] EXCEPT !.picture = None])

request_feedback_screenshot(a) ==
    /\ Shown(a)
    /\ form[a].picture = None
    /\ Changes(a, [form[a] EXCEPT !.capturing = TRUE, !.open = FALSE])

poll_feedback_screenshot(a) ==
    /\ process[a] = "open"
    /\ form[a].capturing
    /\ \E p \in Picture :
          Changes(a, [form[a] EXCEPT !.picture = p, !.capturing = FALSE, !.open = TRUE])

\* issue_body and the picture, as they are when the button is pressed.
OnForm(a) == [text |-> form[a].text, picture |-> form[a].picture]

submit_feedback(a) ==
    /\ Shown(a)
    /\ form[a].confirmed
    /\ form[a].text # None
    /\ Send(a, [NoRequest EXCEPT !.op = "create", !.at = "sent", !.text = form[a].text,
                                 !.picture = form[a].picture])
    /\ submitted' = submitted \cup {OnForm(a)}
    /\ UNCHANGED <<reviews, images, audit, process, form, receipt, file>>

refresh_feedback_status(a) ==
    /\ Shown(a)
    /\ receipt[a] # None
    /\ Send(a, [NoRequest EXCEPT !.op = "receipt", !.at = "sent",
                                 !.review = receipt[a].review])
    /\ UNCHANGED <<reviews, images, audit, clientVars>>

\* Mutant: the receipt of a new report keeps the reply of the one before.
ReceiptOfKept(a) ==
    [review |-> request[a].review, status |-> request[a].status,
     reply |-> request[a].reply \/ (receipt[a] # None /\ receipt[a].reply)]

\* What submit_app_feedback and fetch_feedback_status make of an answer: a new
\* report is pending and has no reply.
ReceiptOf(a) ==
    [review |-> request[a].review, status |-> request[a].status, reply |-> request[a].reply]

\* poll_feedback_job, Ok: the file is truncated, then written; then the receipt
\* replaces the one in memory and the form is cleared, whatever is on it.
TruncateReceipt(a) ==
    /\ process[a] = "open"
    /\ request[a].at = "answered"
    /\ process' = [process EXCEPT ![a] = "saving"]
    /\ request' = [request EXCEPT ![a].at = "received"]
    /\ file' = Torn
    /\ UNCHANGED <<reviews, images, audit, form, receipt, submitted>>

WriteReceipt(a) ==
    /\ process[a] = "saving"
    /\ process' = [process EXCEPT ![a] = "open"]
    /\ file' = ReceiptOf(a)
    /\ receipt' = [receipt EXCEPT ![a] = ReceiptOf(a)]
    /\ form' = [form EXCEPT ![a] = [BlankForm EXCEPT !.open = form[a].open,
                                                     !.capturing = form[a].capturing]]
    /\ request' = [request EXCEPT ![a] = NoRequest]
    /\ UNCHANGED <<reviews, images, audit, submitted>>

\* poll_feedback_job, Err: only the notice changes.
PollError(a) ==
    /\ process[a] = "open"
    /\ request[a].at = "failed"
    /\ request' = [request EXCEPT ![a] = NoRequest]
    /\ UNCHANGED <<reviews, images, audit, clientVars>>

Poll(a) == TruncateReceipt(a) \/ WriteReceipt(a) \/ PollError(a)

Form(a) ==
    \/ Launch(a) \/ Kill(a) \/ Abandoned(a) \/ open_feedback(a) \/ show_feedback(a)
    \/ request_feedback_screenshot(a) \/ poll_feedback_screenshot(a)
    \/ submit_feedback(a) \/ refresh_feedback_status(a) \/ Poll(a)

----------------------------------------------------------------------------
\* A browser sends, edits and withdraws.
Own(i) == i \in 1..Len(reviews) /\ reviews[i].surface = "prototype"

Browse(b) ==
    /\ \/ \E t \in NewText :
             Send(b, [NoRequest EXCEPT !.op = "create", !.at = "sent",
                                       !.surface = "prototype", !.text = t])
       \/ \E i \in 1..MaxWrites, t \in Text :
             Own(i) /\ Send(b, [NoRequest EXCEPT !.op = "edit", !.at = "sent",
                                                 !.review = i, !.text = t])
       \/ \E i \in 1..MaxWrites :
             Own(i) /\ Send(b, [NoRequest EXCEPT !.op = "withdraw", !.at = "sent",
                                                 !.review = i])
    /\ UNCHANGED <<reviews, images, audit, clientVars>>

Next ==
    \/ \E a \in App : Form(a)
    \/ \E b \in Browser : Browse(b)
    \/ ReviewNext /\ UNCHANGED clientVars

Spec == Init /\ [][Next]_vars

----------------------------------------------------------------------------

(***************************************************************************)
(* Every report of a desktop client in the inbox says, with its screenshot,*)
(* what was on a form when its confirmed report was sent: not what the     *)
(* form said later, and no failure, crash or second submission of the same *)
(* report takes its screenshot away.                                       *)
(***************************************************************************)
InboxHoldsReports ==
    \A i \in 1..Len(reviews) :
        LET row == reviews[i]
        IN  row.surface = "desktop" =>
                [text |-> row.text,
                 picture |-> IF row.file = None THEN None ELSE images[row.file]] \in submitted

(***************************************************************************)
(* A receipt, in memory or in the file, is that of a report in the inbox,  *)
(* and its status and its reply are what that report had at one and the    *)
(* same time.                                                              *)
(***************************************************************************)
ReceiptIsTrue ==
    \A r \in {receipt[a] : a \in App} \cup {file} :
        r \notin {None, Torn} =>
            /\ r.review \in 1..Len(reviews)
            /\ reviews[r.review].surface = "desktop"
            /\ \E n \in 0..Len(audit) :
                  r.status = StatusAfter(r.review, n) /\ r.reply = ReplyAfter(r.review, n)
=============================================================================
