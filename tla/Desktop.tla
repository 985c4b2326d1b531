------------------------------ MODULE Desktop ------------------------------
(***************************************************************************)
(* The desktop client (apps/desktop) over the state directory it shares    *)
(* with the sidecar processes it runs (crates/cli).  A window has one slot *)
(* for a job, a thread that runs sidecars one after the other and reads    *)
(* files between them.  A window may be closed at any moment: its thread   *)
(* dies and its sidecar goes on alone.  Nothing keeps a second window from *)
(* being launched; the windows meet in identity.json, client.json, the     *)
(* event database and its lock.                                            *)
(*                                                                         *)
(* Of the events the database may hold only what a client waits for is     *)
(* told apart: the ancestry of the invitation, a channel, the acceptance   *)
(* and the messages this directory signs.  A failing disk is left out.     *)
(***************************************************************************)

CONSTANTS
    Window,   \* the launches of the client
    Text,     \* what a person sends, each once
    Accept,   \* what the acceptance of an invitation says
    None,
    Torn      \* a file that was created and not yet written

ASSUME DesktopAssumption ==
    /\ None \notin Window \cup Text
    /\ Torn \notin Window
    /\ Torn # None
    /\ Accept \notin Text

VARIABLES
    identity,  \* identity.json: the launch whose sidecar drew the keys
    config,    \* client.json
    held,      \* the events of others in events.sqlite3: a channel if it is accepted
    signed,    \* the events of this directory in events.sqlite3
    refused,   \* what of these the profile rejects
    disputed,  \* history: the texts that it has ever rejected
    lock,      \* state.lock: the window whose sidecar has it
    window,    \* window[w]: "new", "open" or "closed"
    shown,     \* shown[w]: the snapshot w displays
    job,       \* job[w]: the slot of w and how far its thread is
    sidecar,   \* sidecar[w]: the last sidecar w has started
    sent,      \* sent[w]: the texts taken from the draft of w
    failed     \* the texts whose sending was reported to have failed

verdict == <<refused, disputed>>
disk == <<identity, config, held, signed, refused, disputed, lock>>
vars == <<identity, config, held, signed, refused, disputed, lock, window, shown, job, sidecar, sent, failed>>

Blank == [community |-> FALSE, channel |-> FALSE, messages |-> {}]

NoJob == [kind |-> "none", at |-> "idle", text |-> None, snapshot |-> Blank]

NoSidecar == [cmd |-> "none", at |-> "idle", as |-> None, text |-> None]

\* The steps of a thread: prepare, join, save and saving belong to a join, send
\* to a send, and the others to load_snapshot, with which every job ends.
Step == {"idle", "prepare", "join", "save", "saving", "send", "ensure", "info",
         "config", "sync", "channels", "messages", "loaded", "failed"}

\* The stages of a sidecar; one that is stuck waits for an event that never comes.
Stage == {"idle", "start", "create", "write", "dial", "talk", "stuck", "ask",
          "sign", "submitted", "progress", "ok", "err"}

\* What an event of this directory says.
Saying == Text \cup {Accept}

Snapshot == [community : BOOLEAN, channel : BOOLEAN, messages : SUBSET Text]

Slot == [kind : {"none", "load", "join", "send"}, at : Step, text : Text \cup {None},
         snapshot : Snapshot]

Sidecar == [cmd : {"none", "init", "join", "sync", "send"}, at : Stage,
            as : Window \cup {None}, text : Text \cup {None}]

TypeOK ==
    /\ identity \in Window \cup {None, Torn}
    /\ config \in {"none", "torn", "community"}
    /\ held \subseteq {"ancestry", "channel"}
    /\ signed \subseteq [says : Saying, by : Window, on : SUBSET Saying]
    /\ refused \subseteq Saying
    /\ disputed \subseteq Text
    /\ lock \in Window \cup {None}
    /\ window \in [Window -> {"new", "open", "closed"}]
    /\ shown \in [Window -> Snapshot]
    /\ job \in [Window -> Slot]
    /\ sidecar \in [Window -> Sidecar]
    /\ sent \in [Window -> SUBSET Text]
    /\ failed \subseteq Text

Init ==
    /\ identity = None
    /\ config = "none"
    /\ held = {}
    /\ signed = {}
    /\ refused = {}
    /\ disputed = {}
    /\ lock = None
    /\ window = [w \in Window |-> "new"]
    /\ shown = [w \in Window |-> Blank]
    /\ job = [w \in Window |-> NoJob]
    /\ sidecar = [w \in Window |-> NoSidecar]
    /\ sent = [w \in Window |-> {}]
    /\ failed = {}

\* The acceptance is in the database; the messages in it.
Accepted == \E m \in signed : m.says = Accept

Stored == {t \in Text : \E m \in signed : m.says = t}

Said == {m.says : m \in signed}

\* What resolve may reject of it, as the events of others tell against it: with an
\* event also those that rest on it, and every message when no channel is accepted.
Refusals(channel) ==
    {R \in SUBSET Said :
        /\ \A m \in signed : m.on \cap R # {} => m.says \in R
        /\ channel \/ Stored \subseteq R}

----------------------------------------------------------------------------
\* The window

\* load_snapshot(true) in a job of its own.
LoadJob == [NoJob EXCEPT !.kind = "load", !.at = "ensure"]

\* new
Launch(w) ==
    /\ window[w] = "new"
    /\ window' = [window EXCEPT ![w] = "open"]
    /\ job' = [job EXCEPT ![w] = LoadJob]
    /\ UNCHANGED <<disk, shown, sidecar, sent, failed>>

\* Every button that starts a job asks for a free slot, and start_job again.
Ready(w) == window[w] = "open" /\ job[w].kind = "none"

Refresh(w) ==
    /\ Ready(w)
    /\ shown[w].community
    /\ job' = [job EXCEPT ![w] = LoadJob]
    /\ UNCHANGED <<disk, window, shown, sidecar, sent, failed>>

Join(w) ==
    /\ Ready(w)
    /\ ~shown[w].community
    /\ job' = [job EXCEPT ![w] = [NoJob EXCEPT !.kind = "join", !.at = "prepare"]]
    /\ UNCHANGED <<disk, window, shown, sidecar, sent, failed>>

\* The draft is cleared, whatever comes of the job.
Send(w, t) ==
    /\ Ready(w)
    /\ shown[w].community
    /\ shown[w].channel
    /\ \A v \in Window : t \notin sent[v]
    /\ sent' = [sent EXCEPT ![w] = @ \cup {t}]
    /\ job' = [job EXCEPT ![w] = [NoJob EXCEPT !.kind = "send", !.at = "send", !.text = t]]
    /\ UNCHANGED <<disk, window, shown, sidecar, failed>>

\* Mutant: a saved message is synchronized before it is displayed.
PollLoadedUnseen(w) ==
    /\ job[w].at = "loaded"
    /\ shown' = IF job[w].kind = "send" THEN shown
                ELSE [shown EXCEPT ![w] = job[w].snapshot]
    /\ job' = [job EXCEPT ![w] = IF job[w].kind = "send" THEN LoadJob ELSE NoJob]
    /\ UNCHANGED <<disk, window, sidecar, sent, failed>>

\* poll_job: Loaded, and MessageSaved, which starts the synchronization.
PollLoaded(w) ==
    /\ job[w].at = "loaded"
    /\ shown' = [shown EXCEPT ![w] = job[w].snapshot]
    /\ job' = [job EXCEPT ![w] = IF job[w].kind = "send" THEN LoadJob ELSE NoJob]
    /\ UNCHANGED <<disk, window, sidecar, sent, failed>>

\* poll_job: Failed.  The draft is not restored.
PollFailed(w) ==
    /\ job[w].at = "failed"
    /\ failed' = IF job[w].kind = "send" THEN failed \cup {job[w].text} ELSE failed
    /\ job' = [job EXCEPT ![w] = NoJob]
    /\ UNCHANGED <<disk, window, shown, sidecar, sent>>

\* The window is closed: its thread ends where it is, its sidecar does not.
Close(w) ==
    /\ window[w] = "open"
    /\ window' = [window EXCEPT ![w] = "closed"]
    /\ shown' = [shown EXCEPT ![w] = Blank]
    /\ job' = [job EXCEPT ![w] = NoJob]
    /\ UNCHANGED <<disk, sidecar, sent, failed>>

\* The machine stops: only what is on disk is left.
PowerLoss ==
    /\ \E w \in Window : window[w] # "new"
    /\ window' = [w \in Window |-> IF window[w] = "new" THEN "new" ELSE "closed"]
    /\ shown' = [w \in Window |-> Blank]
    /\ job' = [w \in Window |-> NoJob]
    /\ sidecar' = [w \in Window |-> NoSidecar]
    /\ lock' = None
    /\ UNCHANGED <<identity, config, held, signed, verdict, sent, failed>>

----------------------------------------------------------------------------
\* The thread of a job

Goto(w, at) == job' = [job EXCEPT ![w].at = at]

\* The thread has learned more for the snapshot it is to return.
Learn(w, at, s) == job' = [job EXCEPT ![w] = [job[w] EXCEPT !.at = at, !.snapshot = s]]

\* run_node: the thread waits until the sidecar has ended.
Call(w, cmd) ==
    sidecar' = [sidecar EXCEPT ![w] = [cmd |-> cmd, at |-> "start", as |-> None,
                                       text |-> job[w].text]]

\* Nothing runs for the thread of w.
Idle(w) == sidecar[w].cmd = "none"

\* Where ensure_identity goes on.
Ensured(w) == IF job[w].at = "prepare" THEN "join" ELSE "info"

ensure_identity(w) ==
    /\ job[w].at \in {"prepare", "ensure"}
    /\ Idle(w)
    /\ IF identity # None
       THEN Goto(w, Ensured(w)) /\ UNCHANGED sidecar
       ELSE Call(w, "init") /\ UNCHANGED job
    /\ UNCHANGED <<disk, window, shown, sent, failed>>

\* info needs no lock.
ReadInfo(w) ==
    /\ job[w].at = "info"
    /\ Goto(w, IF identity \in Window THEN "config" ELSE "failed")
    /\ UNCHANGED <<disk, window, shown, sidecar, sent, failed>>

\* Mutant: a client.json that is not valid ends the thread with a panic, and
\* poll_job takes the closed channel for an empty one.
load_configPanics(w) ==
    /\ job[w].at = "config"
    /\ \/ config = "none" /\ Goto(w, "loaded")
       \/ /\ config = "community"
          /\ Learn(w, IF job[w].kind = "load" THEN "sync" ELSE "channels",
                   [job[w].snapshot EXCEPT !.community = TRUE])
    /\ UNCHANGED <<disk, window, shown, sidecar, sent, failed>>

\* Without a client.json there is no community to show.
load_config(w) ==
    /\ job[w].at = "config"
    /\ \/ config = "none" /\ Goto(w, "loaded")
       \/ config = "torn" /\ Goto(w, "failed")
       \/ /\ config = "community"
          /\ Learn(w, IF job[w].kind = "load" THEN "sync" ELSE "channels",
                   [job[w].snapshot EXCEPT !.community = TRUE])
    /\ UNCHANGED <<disk, window, shown, sidecar, sent, failed>>

\* join, sync-home-server and send-message.
CallNode(w) ==
    /\ job[w].at \in {"join", "sync", "send"}
    /\ Idle(w)
    /\ Call(w, job[w].at)
    /\ UNCHANGED <<disk, window, shown, job, sent, failed>>

\* Where a thread goes on when its sidecar has ended well.
Returned(w) ==
    CASE sidecar[w].cmd = "sync" -> "channels"
      [] sidecar[w].cmd = "init" -> Ensured(w)
      [] sidecar[w].cmd = "join" -> "save"
      [] OTHER -> "ensure"

\* Mutant: the client saves what join was asked for although join has failed.
ReturnSaves(w) ==
    /\ job[w].kind # "none"
    /\ sidecar[w].at \in {"ok", "err"}
    /\ Goto(w, IF sidecar[w].at = "err" /\ sidecar[w].cmd \notin {"sync", "join"}
               THEN "failed" ELSE Returned(w))
    /\ sidecar' = [sidecar EXCEPT ![w] = NoSidecar]
    /\ UNCHANGED <<disk, window, shown, sent, failed>>

\* The sidecar has ended.  A failed synchronization is only a warning.
Return(w) ==
    /\ job[w].kind # "none"
    /\ sidecar[w].at \in {"ok", "err"}
    /\ Goto(w, IF sidecar[w].at = "err" /\ sidecar[w].cmd # "sync"
               THEN "failed" ELSE Returned(w))
    /\ sidecar' = [sidecar EXCEPT ![w] = NoSidecar]
    /\ UNCHANGED <<disk, window, shown, sent, failed>>

\* save_config: fs::write truncates the file, or creates it, and then writes.
TruncateConfig(w) ==
    /\ job[w].at = "save"
    /\ config' = "torn"
    /\ Goto(w, "saving")
    /\ UNCHANGED <<identity, held, signed, verdict, lock, window, shown, sidecar, sent, failed>>

WriteConfig(w) ==
    /\ job[w].at = "saving"
    /\ config' = "community"
    /\ Goto(w, "ensure")
    /\ UNCHANGED <<identity, held, signed, verdict, lock, window, shown, sidecar, sent, failed>>

\* list-channels and list-messages need no lock, but a community; both print
\* what resolve accepts.
list_channels(w) ==
    /\ job[w].at = "channels"
    /\ IF "ancestry" \in held
       THEN Learn(w, "messages", [job[w].snapshot EXCEPT !.channel = "channel" \in held])
       ELSE Goto(w, "failed")
    /\ UNCHANGED <<disk, window, shown, sidecar, sent, failed>>

list_messages(w) ==
    /\ job[w].at = "messages"
    /\ Learn(w, "loaded", [job[w].snapshot EXCEPT !.messages = Stored \ refused])
    /\ UNCHANGED <<disk, window, shown, sidecar, sent, failed>>

----------------------------------------------------------------------------
\* The sidecars

At(w, cmd, at) == sidecar[w].cmd = cmd /\ sidecar[w].at = at

Proceed(w, at) == sidecar' = [sidecar EXCEPT ![w].at = at]

\* The process ends, and the lock with it.
Exit(w, status) == lock' = None /\ Proceed(w, status)

\* NodeState::initialize: a look, create_new, the write.
InitCheck(w) ==
    /\ At(w, "init", "start")
    /\ Proceed(w, IF identity = None THEN "create" ELSE "err")
    /\ UNCHANGED <<disk, window, shown, job, sent, failed>>

\* Mutant: the file is created whether or not it exists.
InitCreateOver(w) ==
    /\ At(w, "init", "create")
    /\ identity' = Torn
    /\ Proceed(w, "write")
    /\ UNCHANGED <<config, held, signed, verdict, lock, window, shown, job, sent, failed>>

InitCreate(w) ==
    /\ At(w, "init", "create")
    /\ IF identity = None
       THEN identity' = Torn /\ Proceed(w, "write")
       ELSE Proceed(w, "err") /\ UNCHANGED identity
    /\ UNCHANGED <<config, held, signed, verdict, lock, window, shown, job, sent, failed>>

InitWrite(w) ==
    /\ At(w, "init", "write")
    /\ identity' = w
    /\ Proceed(w, "ok")
    /\ UNCHANGED <<config, held, signed, verdict, lock, window, shown, job, sent, failed>>

\* Mutant: an identity.json that is still empty is taken for an identity.
StartsTorn(w) ==
    /\ identity # None
    /\ lock = None
    /\ IF sidecar[w].cmd = "join" THEN held = {} /\ signed = {} ELSE "ancestry" \in held

\* Mutant: join takes a database that is not empty.
StartsAnywhere(w) ==
    /\ identity \in Window
    /\ lock = None
    /\ sidecar[w].cmd = "join" \/ "ancestry" \in held

\* The identity is read and the lock taken; join wants an empty database, the
\* others one that holds the community.
Starts(w) ==
    /\ identity \in Window
    /\ lock = None
    /\ IF sidecar[w].cmd = "join" THEN held = {} /\ signed = {} ELSE "ancestry" \in held

Start(w) ==
    /\ sidecar[w].cmd \in {"join", "sync", "send"}
    /\ sidecar[w].at = "start"
    /\ IF Starts(w)
       THEN /\ lock' = w
            /\ sidecar' = [sidecar EXCEPT ![w].as = identity,
                                          ![w].at = IF sidecar[w].cmd = "send" THEN "sign" ELSE "dial"]
       ELSE Proceed(w, "err") /\ UNCHANGED lock
    /\ UNCHANGED <<identity, config, held, signed, verdict, window, shown, job, sent, failed>>

\* The parents of a new event are the heads of the database.
Sign(w, what) ==
    signed' = signed \cup {[says |-> what, by |-> sidecar[w].as, on |-> Said]}

\* send-message: the profile accepts the message, or it is not stored.  It does
\* not when it rejects what the message rests on, be it also of others.
SendMessage(w) ==
    /\ At(w, "send", "sign")
    /\ \/ /\ refused = {} /\ "channel" \in held
          /\ Sign(w, sidecar[w].text)
          /\ Exit(w, "ok")
       \/ Exit(w, "err") /\ UNCHANGED signed
    /\ UNCHANGED <<identity, config, held, verdict, window, shown, job, sent, failed>>

\* The endpoint answers, or the dial fails, as it does when the community
\* declares no Home Server.
Dial(w) ==
    /\ sidecar[w].at = "dial"
    /\ \/ Proceed(w, "talk") /\ UNCHANGED lock
       \/ Exit(w, "err")
    /\ UNCHANGED <<identity, config, held, signed, verdict, window, shown, job, sent, failed>>

\* The connection closes, or the relay fails, while no request of join is open
\* and before any progress of a synchronization: both only print it.
LoseConnection(w) ==
    /\ sidecar[w].at = "talk"
    /\ Proceed(w, "stuck")
    /\ UNCHANGED <<disk, window, shown, job, sent, failed>>

\* An error of the network, which ends either command.
NetworkError(w) ==
    /\ sidecar[w].at = "talk"
    /\ Exit(w, "err")
    /\ UNCHANGED <<identity, config, held, signed, verdict, window, shown, job, sent, failed>>

\* sync-home-server: SyncProgress.  Whatever comes in, resolve judges the whole
\* database anew.
SyncProgress(w) ==
    /\ At(w, "sync", "talk")
    /\ \E channel \in BOOLEAN :
          /\ held' = IF channel THEN held \cup {"channel"} ELSE held \ {"channel"}
          /\ refused' \in Refusals(channel)
    /\ disputed' = disputed \cup (refused' \cap Text)
    /\ Proceed(w, "progress")
    /\ UNCHANGED <<identity, config, signed, lock, window, shown, job, sent, failed>>

\* The idle timeout, which counts from the first progress, or an error.
SyncEnd(w) ==
    /\ At(w, "sync", "progress")
    /\ \E status \in {"ok", "err"} : Exit(w, status)
    /\ UNCHANGED <<identity, config, held, signed, verdict, window, shown, job, sent, failed>>

\* join: the endpoint has shown its certificate, the bootstrap begins.
BootstrapBegin(w) ==
    /\ At(w, "join", "talk")
    /\ Proceed(w, "ask")
    /\ UNCHANGED <<disk, window, shown, job, sent, failed>>

BootstrapAncestry(w) ==
    /\ At(w, "join", "ask")
    /\ \E new \in SUBSET {"channel"} : held' = held \cup {"ancestry"} \cup new
    /\ Proceed(w, "sign")
    /\ UNCHANGED <<identity, config, signed, verdict, lock, window, shown, job, sent, failed>>

\* The acceptance is stored before it is submitted.
StoreAcceptance(w) ==
    /\ At(w, "join", "sign")
    /\ Sign(w, Accept)
    /\ Proceed(w, "submitted")
    /\ UNCHANGED <<identity, config, held, verdict, lock, window, shown, job, sent, failed>>

BootstrapAccepted(w) ==
    /\ At(w, "join", "submitted")
    /\ Exit(w, "ok")
    /\ UNCHANGED <<identity, config, held, signed, verdict, window, shown, job, sent, failed>>

\* A request fails or is rejected, join does not trust the ancestry, or the
\* profile does not accept the acceptance.
JoinFailed(w) ==
    /\ sidecar[w].cmd = "join"
    /\ sidecar[w].at \in {"ask", "sign", "submitted"}
    /\ Exit(w, "err")
    /\ UNCHANGED <<identity, config, held, signed, verdict, window, shown, job, sent, failed>>

Thread(w) ==
    \/ ensure_identity(w) \/ ReadInfo(w) \/ load_config(w) \/ CallNode(w) \/ Return(w)
    \/ TruncateConfig(w) \/ WriteConfig(w) \/ list_channels(w) \/ list_messages(w)

Process(w) ==
    \/ InitCheck(w) \/ InitCreate(w) \/ InitWrite(w)
    \/ Start(w) \/ SendMessage(w) \/ Dial(w) \/ SyncProgress(w) \/ SyncEnd(w)
    \/ BootstrapBegin(w) \/ BootstrapAncestry(w) \/ StoreAcceptance(w)
    \/ BootstrapAccepted(w) \/ JoinFailed(w)

Poll(w) == PollLoaded(w) \/ PollFailed(w)

Next ==
    \/ \E w \in Window :
          \/ Launch(w) \/ Refresh(w) \/ Join(w) \/ Close(w)
          \/ \E t \in Text : Send(w, t)
          \/ Poll(w) \/ Thread(w) \/ Process(w) \/ LoseConnection(w) \/ NetworkError(w)
    \/ PowerLoss

Spec == Init /\ [][Next]_vars

\* Threads and processes run; ui asks to be drawn again while the slot is taken.
FairSpec ==
    /\ Spec
    /\ \A w \in Window :
          WF_vars(Poll(w)) /\ WF_vars(Thread(w)) /\ WF_vars(Process(w))

----------------------------------------------------------------------------

(***************************************************************************)
(* Everything the database says in this directory's name is signed with    *)
(* the keys of identity.json, however many windows and orphaned sidecars   *)
(* have raced to create them.                                              *)
(***************************************************************************)
StoreIsOurs == \A m \in signed : m.by = identity

(***************************************************************************)
(* client.json names a community, and a window offers its conversation,    *)
(* only when the database holds the acceptance: no crash, closed window or *)
(* refused join leaves a conversation that cannot be taken part in.        *)
(***************************************************************************)
ConfiguredIsJoined ==
    (config = "community" \/ \E w \in Window : shown[w].community) => Accepted

(***************************************************************************)
(* A message whose sending was reported to have failed was not stored, so  *)
(* sending it again does not say it twice: nothing that happens after the  *)
(* sidecar has stored a message makes its job fail.                        *)
(***************************************************************************)
FailedIsNotStored == failed \cap Stored = {}

(***************************************************************************)
(* apps/desktop/README.md: a signed message is persisted and displayed     *)
(* before the client attempts to synchronize.  Whatever a window has       *)
(* stored of its own texts, it displays while it synchronizes, except for  *)
(* what the profile has rejected at some time since it was stored, for the *)
(* events that another synchronization brought.                            *)
(***************************************************************************)
LocalFirst ==
    \A w \in Window :
        job[w].at = "sync" => sent[w] \cap Stored \subseteq shown[w].messages \cup disputed

(***************************************************************************)
(* A job ends, and with it the slot is free for the next, unless its       *)
(* sidecar is stuck: nothing else a window, a sidecar or a file can do     *)
(* keeps the client from being used.                                       *)
(***************************************************************************)
JobEnds ==
    \A w \in Window :
        job[w].kind # "none" ~> job[w].kind = "none" \/ sidecar[w].at = "stuck"

(***************************************************************************)
(* apps/desktop/README.md: an unreachable server does not block the local  *)
(* conversation.  So a client that has read which community it belongs to  *)
(* comes to display the conversation whatever becomes of the connection.   *)
(***************************************************************************)
ConversationShown ==
    \A w \in Window :
        job[w].at = "sync" ~> shown[w].community \/ window[w] = "closed"
=============================================================================
