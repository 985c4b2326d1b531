---------------------------- MODULE DesktopProofs ---------------------------
(***************************************************************************)
(* For any number of windows and messages: the database speaks with one    *)
(* set of keys, a configured community is a joined one, a message reported *)
(* as failed is not stored, and a stored one is shown before the client    *)
(* synchronizes.                                                           *)
(*                                                                         *)
(* None of these is inductive.  The keys are safe because the sidecar that *)
(* writes them is the one that created the file, and every other sidecar   *)
(* that runs has the lock and has read them (Keys).  client.json is safe   *)
(* because a join needs an empty database, so that at most one is ever on  *)
(* its way to write it, and never over a community (Joins).  Therefore     *)
(* client.json stays readable for a window that shows a conversation, and  *)
(* a send that has stored its message has nothing left to fail at (Texts). *)
(***************************************************************************)
EXTENDS Desktop, TLAPS

USE DesktopAssumption DEF verdict

----------------------------------------------------------------------------
\* Part 1: which job, which sidecar and which window go together.

SlotOk(w) ==
    /\ job[w].kind = "none" <=> job[w].at = "idle"
    /\ job[w].at \in {"prepare", "join", "save", "saving"} => job[w].kind = "join"
    /\ job[w].at = "send" => job[w].kind = "send"
    /\ job[w].at = "sync" => job[w].kind = "load"
    /\ job[w].kind # "none" => window[w] = "open"
    /\ job[w].kind = "send" <=> job[w].text # None
    /\ job[w].kind = "send" => job[w].text \in sent[w]

SidecarOk(w) ==
    /\ sidecar[w].cmd = "none" <=> sidecar[w].at = "idle"
    /\ sidecar[w].at \in {"create", "write"} => sidecar[w].cmd = "init"
    /\ sidecar[w].at \in {"dial", "talk", "stuck"} => sidecar[w].cmd \in {"join", "sync"}
    /\ sidecar[w].at \in {"ask", "submitted"} => sidecar[w].cmd = "join"
    /\ sidecar[w].at = "progress" => sidecar[w].cmd = "sync"
    /\ sidecar[w].at = "sign" => sidecar[w].cmd \in {"join", "send"}
    /\ sidecar[w].cmd = "send" <=> sidecar[w].text # None
    /\ sidecar[w].cmd = "send" => sidecar[w].text \in sent[w]
    /\ window[w] = "new" => sidecar[w].cmd = "none" /\ sent[w] = {}
    /\ sidecar[w].cmd # "none" /\ window[w] = "open" =>
          /\ IF sidecar[w].cmd = "init" THEN job[w].at \in {"prepare", "ensure"}
             ELSE job[w].at = sidecar[w].cmd
          /\ sidecar[w].text = job[w].text

Slots == \A w \in Window : SlotOk(w) /\ SidecarOk(w)

\* Part 2: the keys.

Running(w) ==
    /\ sidecar[w].cmd \in {"join", "sync", "send"}
    /\ sidecar[w].at \notin {"start", "ok", "err"}

Keys ==
    /\ \A w \in Window : At(w, "init", "write") => identity = Torn
    /\ \A w, v \in Window : At(w, "init", "write") /\ At(v, "init", "write") => w = v
    /\ \A w \in Window :
          Running(w) => lock = w /\ sidecar[w].as = identity /\ identity \in Window
    /\ StoreIsOurs

\* Part 3: one join, whose acceptance is there before client.json is.

\* A join that has found the database empty and may yet write client.json.
Joining(w) ==
    \/ sidecar[w].cmd = "join" /\ sidecar[w].at \notin {"start", "err"}
    \/ job[w].at \in {"save", "saving"}

Joins ==
    /\ \A w \in Window :
          /\ sidecar[w].cmd = "join" /\ sidecar[w].at \in {"submitted", "ok"} => Accepted
          /\ job[w].at \in {"save", "saving"} => Accepted
          /\ At(w, "join", "sign") => "ancestry" \in held
          /\ Joining(w) => config # "community"
          /\ \A v \in Window : Joining(w) /\ Joining(v) => w = v
    /\ config # "none" => Accepted
    /\ Accepted => "ancestry" \in held

Configured ==
    \A w \in Window :
        \/ shown[w].community
        \/ job[w].snapshot.community
        \/ sent[w] # {}
        => config = "community"

\* Part 4: where a text is.

Texts ==
    /\ \A w, v \in Window : w # v => sent[w] \cap sent[v] = {}
    /\ failed \cup Stored \subseteq UNION {sent[w] : w \in Window}
    /\ FailedIsNotStored
    /\ \A w \in Window :
          /\ job[w].text \notin failed
          /\ sidecar[w].cmd = "send" /\ sidecar[w].at \in {"start", "sign"} =>
                sidecar[w].text \notin failed \cup Stored
          /\ sidecar[w].at = "err" => sidecar[w].text \notin Stored
          /\ job[w].kind = "send" /\ job[w].at = "send" /\ sidecar[w].cmd = "none" =>
                job[w].text \notin Stored
          /\ job[w].at = "failed" => job[w].text \notin Stored

\* Part 5: what a window shows of its own texts, and what its job has read.  What
\* is missing was rejected when it was read, so it is disputed for good.
Display ==
    /\ refused \cap Text \subseteq disputed
    /\ \A w \in Window :
        /\ window[w] = "open" =>
              /\ (sent[w] \cap Stored) \ {job[w].text} \subseteq shown[w].messages \cup disputed
              /\ sent[w] # {} => shown[w].community
        /\ job[w].kind = "join" => sent[w] = {}
        /\ job[w].at = "loaded" =>
              /\ sent[w] \cap Stored \subseteq job[w].snapshot.messages \cup disputed
              /\ sent[w] # {} => job[w].snapshot.community
        /\ job[w].at \in {"sync", "channels", "messages"} => job[w].snapshot.community

\* The inductive invariant.
IInv ==
    /\ TypeOK
    /\ Slots
    /\ Keys
    /\ Joins
    /\ Configured
    /\ Texts
    /\ Display

----------------------------------------------------------------------------
\* What a step does to the slot, or to the sidecar, of one window.

Puts(w, kind, at, text, snapshot) ==
    /\ job' \in [Window -> Slot]
    /\ job'[w].kind = kind /\ job'[w].at = at
    /\ job'[w].text = text /\ job'[w].snapshot = snapshot
    /\ \A v \in Window : v # w => job'[v] = job[v]

Runs(w, cmd, at, as, text) ==
    /\ sidecar' \in [Window -> Sidecar]
    /\ sidecar'[w].cmd = cmd /\ sidecar'[w].at = at
    /\ sidecar'[w].as = as /\ sidecar'[w].text = text
    /\ \A v \in Window : v # w => sidecar'[v] = sidecar[v]

Fields(w) ==
    /\ job[w].kind \in {"none", "load", "join", "send"} /\ job[w].at \in Step
    /\ job[w].text \in Text \cup {None} /\ job[w].snapshot \in Snapshot
    /\ sidecar[w].cmd \in {"none", "init", "join", "sync", "send"} /\ sidecar[w].at \in Stage
    /\ sidecar[w].as \in Window \cup {None} /\ sidecar[w].text \in Text \cup {None}

LEMMA HasFields ==
    ASSUME TypeOK, NEW w \in Window
    PROVE  Fields(w)
<1>1. job[w] \in Slot /\ sidecar[w] \in Sidecar
  BY DEF TypeOK
<1> QED
  BY <1>1 DEF Fields, Slot, Sidecar

LEMMA GotoEffect ==
    ASSUME TypeOK, NEW w \in Window, NEW at \in Step, Goto(w, at)
    PROVE  Puts(w, job[w].kind, at, job[w].text, job[w].snapshot)
<1>1. job \in [Window -> Slot] /\ job[w] \in Slot
  BY DEF TypeOK
<1>2. [job[w] EXCEPT !.at = at] \in Slot
  BY <1>1 DEF Slot
<1>3. job' = [job EXCEPT ![w] = [job[w] EXCEPT !.at = at]]
  BY DEF Goto
<1>4. job'[w] = [job[w] EXCEPT !.at = at]
  BY <1>1, <1>3
<1> QED
  BY <1>1, <1>2, <1>3, <1>4 DEF Slot, Puts

LEMMA PutEffect ==
    ASSUME TypeOK, NEW w \in Window, NEW j \in Slot, job' = [job EXCEPT ![w] = j]
    PROVE  Puts(w, j.kind, j.at, j.text, j.snapshot)
BY DEF TypeOK, Puts

LEMMA ProceedEffect ==
    ASSUME TypeOK, NEW w \in Window, NEW at \in Stage, Proceed(w, at)
    PROVE  Runs(w, sidecar[w].cmd, at, sidecar[w].as, sidecar[w].text)
<1>1. sidecar \in [Window -> Sidecar] /\ sidecar[w] \in Sidecar
  BY DEF TypeOK
<1>2. [sidecar[w] EXCEPT !.at = at] \in Sidecar
  BY <1>1 DEF Sidecar
<1>3. sidecar' = [sidecar EXCEPT ![w] = [sidecar[w] EXCEPT !.at = at]]
  BY DEF Proceed
<1>4. sidecar'[w] = [sidecar[w] EXCEPT !.at = at]
  BY <1>1, <1>3
<1> QED
  BY <1>1, <1>2, <1>3, <1>4 DEF Sidecar, Runs

LEMMA CallEffect ==
    ASSUME TypeOK, NEW w \in Window, NEW cmd \in {"init", "join", "sync", "send"}, Call(w, cmd)
    PROVE  Runs(w, cmd, "start", None, job[w].text)
<1>1. [cmd |-> cmd, at |-> "start", as |-> None, text |-> job[w].text] \in Sidecar
  BY HasFields DEF Fields, Sidecar, Stage
<1> QED
  BY <1>1 DEF Call, TypeOK, Runs

LEMMA ResetEffect ==
    ASSUME TypeOK, NEW w \in Window, sidecar' = [sidecar EXCEPT ![w] = NoSidecar]
    PROVE  Runs(w, "none", "idle", None, None)
<1>1. NoSidecar \in Sidecar
  BY DEF NoSidecar, Sidecar, Stage
<1> QED
  BY <1>1 DEF TypeOK, NoSidecar, Runs

\* The jobs a window starts, and the slot without one.
LEMMA NewJobs ==
    /\ Blank \in Snapshot
    /\ NoJob \in Slot /\ NoJob.kind = "none" /\ NoJob.at = "idle" /\ NoJob.text = None
    /\ NoJob.snapshot = Blank
    /\ LoadJob \in Slot /\ LoadJob.kind = "load" /\ LoadJob.at = "ensure"
    /\ LoadJob.text = None /\ LoadJob.snapshot = Blank
<1>1. Blank \in Snapshot
  BY DEF Blank, Snapshot
<1>2. NoJob \in Slot
  BY <1>1 DEF NoJob, Slot, Step
<1>3. LoadJob.kind = "load" /\ LoadJob.at = "ensure" /\ LoadJob.text = None
      /\ LoadJob.snapshot = Blank
  BY DEF LoadJob, NoJob
<1>4. LoadJob \in Slot
  BY <1>1 DEF LoadJob, NoJob, Slot, Step
<1> QED
  BY <1>1, <1>2, <1>3, <1>4 DEF NoJob

LEMMA SnapEffect ==
    ASSUME TypeOK, NEW w \in Window, NEW at \in Step, NEW s \in Snapshot,
           Learn(w, at, s)
    PROVE  Puts(w, job[w].kind, at, job[w].text, s)
<1>1. job \in [Window -> Slot] /\ job[w] \in Slot
  BY DEF TypeOK
<1>2. [job[w] EXCEPT !.at = at, !.snapshot = s] \in Slot
  BY <1>1 DEF Slot
<1>3. job'[w] = [job[w] EXCEPT !.at = at, !.snapshot = s]
  BY <1>1 DEF Learn
<1> QED
  BY <1>1, <1>2, <1>3 DEF Slot, Puts, Learn

LEMMA StartEffect ==
    ASSUME TypeOK, NEW w \in Window, NEW at \in Stage, identity \in Window,
           sidecar' = [sidecar EXCEPT ![w].as = identity, ![w].at = at]
    PROVE  Runs(w, sidecar[w].cmd, at, identity, sidecar[w].text)
<1>1. sidecar \in [Window -> Sidecar] /\ sidecar[w] \in Sidecar
  BY DEF TypeOK
<1>2. [sidecar[w] EXCEPT !.as = identity, !.at = at] \in Sidecar
  BY <1>1 DEF Sidecar
<1>3. sidecar' = [sidecar EXCEPT ![w] = [sidecar[w] EXCEPT !.as = identity, !.at = at]]
  BY <1>1
<1>4. sidecar'[w] = [sidecar[w] EXCEPT !.as = identity, !.at = at]
  BY <1>1, <1>3
<1> QED
  BY <1>1, <1>2, <1>3, <1>4 DEF Sidecar, Runs

\* A thread that does not wait for a sidecar has none.
LEMMA NoneWaited ==
    ASSUME TypeOK, Slots, NEW w \in Window,
           window[w] = "open",
           job[w].at \notin {"prepare", "ensure", "join", "sync", "send"}
    PROVE  sidecar[w].cmd = "none" /\ sidecar[w].at = "idle" /\ sidecar[w].text = None
BY HasFields DEF Fields, Slots, SidecarOk

\* What is known of the window that moves.
Here(w) ==
    /\ Fields(w)
    /\ SlotOk(w) /\ SidecarOk(w)
    /\ window[w] = "open" /\ job[w].at \notin {"prepare", "ensure", "join", "sync", "send"} =>
          sidecar[w].cmd = "none" /\ sidecar[w].at = "idle" /\ sidecar[w].text = None

LEMMA IsHere ==
    ASSUME TypeOK, Slots, NEW w \in Window
    PROVE  Here(w)
BY HasFields, NoneWaited DEF Here, Slots

\* Who has sent a message has joined, and can read what a job reads.
LEMMA SenderHasJoined ==
    ASSUME IInv, NEW w \in Window, sent[w] # {}
    PROVE  config = "community" /\ identity \in Window /\ "ancestry" \in held
<1>1. config = "community" /\ Accepted /\ "ancestry" \in held
  BY DEF IInv, Configured, Joins
<1>2. identity \in Window
  BY <1>1 DEF IInv, TypeOK, Keys, StoreIsOurs, Accepted
<1> QED
  BY <1>1, <1>2

\* What an event signed here adds.
LEMMA SignEffect ==
    ASSUME NEW what, NEW by, NEW on,
           signed' = signed \cup {[says |-> what, by |-> by, on |-> on]}
    PROVE  /\ Accepted' <=> Accepted \/ what = Accept
           /\ what \in Text => Stored' = Stored \cup {what}
<1> DEFINE m == [says |-> what, by |-> by, on |-> on]
<1>1. m.says = what /\ signed' = signed \cup {m}
  OBVIOUS
<1> HIDE DEF m
<1>2. Accepted' <=> Accepted \/ what = Accept
  BY <1>1 DEF Accepted
<1>3. ASSUME what \in Text
      PROVE  Stored' = Stored \cup {what}
  BY <1>1, <1>3 DEF Stored
<1> QED
  BY <1>2, <1>3

\* Only the window that moves can break Part 1.
LEMMA SlotsFrame ==
    ASSUME Slots, NEW w \in Window, (SlotOk(w) /\ SidecarOk(w))',
           \A v \in Window : v # w => /\ job'[v] = job[v] /\ sidecar'[v] = sidecar[v]
                                      /\ window'[v] = window[v] /\ sent'[v] = sent[v]
    PROVE  Slots'
<1> SUFFICES ASSUME NEW v \in Window, v # w
             PROVE  (SlotOk(v) /\ SidecarOk(v))'
  BY DEF Slots
<1> QED
  BY DEF Slots, SlotOk, SidecarOk

----------------------------------------------------------------------------
\* One lemma per action: first what the action does to the window that moves,
\* then one step per part of the invariant.

LEMMA InitCheckIInv ==
    ASSUME IInv, NEW w \in Window, InitCheck(w)
    PROVE  IInv'
<1> USE DEF IInv
<1>1. /\ sidecar[w].cmd = "init" /\ sidecar[w].at = "start"
      /\ Runs(w, sidecar[w].cmd, IF identity = None THEN "create" ELSE "err",
              sidecar[w].as, sidecar[w].text)
      /\ UNCHANGED <<identity, config, held, signed, verdict, lock, window, shown, job, sent, failed>>
  BY ProceedEffect DEF InitCheck, At, disk, Stage
<1>2. Here(w)
  BY IsHere
<1>3. TypeOK'
  BY <1>1, <1>2 DEF TypeOK, Runs
<1>4. Slots'
  <2>1. (SlotOk(w) /\ SidecarOk(w))'
    BY <1>1, <1>2 DEF Here, Fields, SlotOk, SidecarOk, Runs, TypeOK
  <2> QED
    BY <1>1, <2>1, SlotsFrame DEF Runs, TypeOK
<1>5. Keys'
  BY <1>1, <1>2 DEF Runs, Here, Fields, SlotOk, SidecarOk, Keys, Running, At, StoreIsOurs
<1>6. Joins'
  BY <1>1, <1>2 DEF Runs, Here, Fields, SlotOk, SidecarOk, Joins, Joining, At, Accepted
<1>7. Configured'
  BY <1>1, <1>2 DEF Runs, Configured
<1>8. Texts'
  BY <1>1, <1>2 DEF Runs, Here, Fields, SlotOk, SidecarOk, Texts, Stored, FailedIsNotStored
<1>9. Display'
  BY <1>1, <1>2 DEF Runs, Here, Fields, SlotOk, SidecarOk, Display, Stored
<1> QED
  BY <1>3, <1>4, <1>5, <1>6, <1>7, <1>8, <1>9

LEMMA InitCreateIInv ==
    ASSUME IInv, NEW w \in Window, InitCreate(w)
    PROVE  IInv'
<1> USE DEF IInv
<1>1. /\ sidecar[w].cmd = "init" /\ sidecar[w].at = "create"
      /\ Runs(w, sidecar[w].cmd, IF identity = None THEN "write" ELSE "err",
              sidecar[w].as, sidecar[w].text)
      /\ identity' = IF identity = None THEN Torn ELSE identity
      /\ UNCHANGED <<config, held, signed, verdict, lock, window, shown, job, sent, failed>>
  BY ProceedEffect DEF InitCreate, At, Stage
<1>2. Here(w)
  BY IsHere
<1>3. TypeOK'
  BY <1>1, <1>2 DEF TypeOK, Runs
<1>4. Slots'
  <2>1. (SlotOk(w) /\ SidecarOk(w))'
    BY <1>1, <1>2 DEF Here, Fields, SlotOk, SidecarOk, Runs, TypeOK
  <2> QED
    BY <1>1, <2>1, SlotsFrame DEF Runs, TypeOK
<1>5. Keys'
  <2>1. CASE identity = None
    <3>1. \A v \in Window : ~At(v, "init", "write") /\ ~Running(v)
      BY <2>1 DEF Keys
    <3>2. signed = {}
      BY <2>1 DEF Keys, StoreIsOurs, TypeOK
    <3> QED
      BY <1>1, <2>1, <3>1, <3>2 DEF Runs, Keys, Running, At, StoreIsOurs
  <2>2. CASE identity # None
    BY <1>1, <2>2 DEF Runs, Keys, Running, At, StoreIsOurs
  <2> QED
    BY <2>1, <2>2
<1>6. Joins'
  BY <1>1, <1>2 DEF Runs, Here, Fields, SlotOk, SidecarOk, Joins, Joining, At, Accepted
<1>7. Configured'
  BY <1>1, <1>2 DEF Runs, Configured
<1>8. Texts'
  BY <1>1, <1>2 DEF Runs, Here, Fields, SlotOk, SidecarOk, Texts, Stored, FailedIsNotStored
<1>9. Display'
  BY <1>1, <1>2 DEF Runs, Here, Fields, SlotOk, SidecarOk, Display, Stored
<1> QED
  BY <1>3, <1>4, <1>5, <1>6, <1>7, <1>8, <1>9

LEMMA InitWriteIInv ==
    ASSUME IInv, NEW w \in Window, InitWrite(w)
    PROVE  IInv'
<1> USE DEF IInv
<1>1. /\ sidecar[w].cmd = "init" /\ sidecar[w].at = "write"
      /\ Runs(w, sidecar[w].cmd, "ok", sidecar[w].as, sidecar[w].text)
      /\ identity' = w
      /\ UNCHANGED <<config, held, signed, verdict, lock, window, shown, job, sent, failed>>
  BY ProceedEffect DEF InitWrite, At, Stage
<1>2. Here(w)
  BY IsHere
<1>3. TypeOK'
  BY <1>1, <1>2 DEF TypeOK, Runs
<1>4. Slots'
  <2>1. (SlotOk(w) /\ SidecarOk(w))'
    BY <1>1, <1>2 DEF Here, Fields, SlotOk, SidecarOk, Runs, TypeOK
  <2> QED
    BY <1>1, <2>1, SlotsFrame DEF Runs, TypeOK
<1>5. Keys'
  <2>1. identity = Torn /\ \A v \in Window : v # w => ~At(v, "init", "write")
    BY <1>1 DEF Keys, At
  <2>2. \A v \in Window : ~Running(v)
    BY <2>1 DEF Keys
  <2>3. signed = {}
    BY <2>1 DEF Keys, StoreIsOurs, TypeOK
  <2> QED
    BY <1>1, <2>1, <2>2, <2>3 DEF Runs, Keys, Running, At, StoreIsOurs
<1>6. Joins'
  BY <1>1, <1>2 DEF Runs, Here, Fields, SlotOk, SidecarOk, Joins, Joining, At, Accepted
<1>7. Configured'
  BY <1>1, <1>2 DEF Runs, Configured
<1>8. Texts'
  BY <1>1, <1>2 DEF Runs, Here, Fields, SlotOk, SidecarOk, Texts, Stored, FailedIsNotStored
<1>9. Display'
  BY <1>1, <1>2 DEF Runs, Here, Fields, SlotOk, SidecarOk, Display, Stored
<1> QED
  BY <1>3, <1>4, <1>5, <1>6, <1>7, <1>8, <1>9

LEMMA DialIInv ==
    ASSUME IInv, NEW w \in Window, Dial(w)
    PROVE  IInv'
<1> USE DEF IInv
<1>1. PICK at \in {"talk", "err"} :
      /\ sidecar[w].at = "dial"
      /\ Runs(w, sidecar[w].cmd, at, sidecar[w].as, sidecar[w].text)
      /\ lock' = IF at = "talk" THEN lock ELSE None
      /\ UNCHANGED <<identity, config, held, signed, verdict, window, shown, job, sent, failed>>
  BY ProceedEffect DEF Dial, Exit, Stage
<1>2. Here(w)
  BY IsHere
<1>3. TypeOK'
  BY <1>1, <1>2 DEF TypeOK, Runs
<1>4. Slots'
  <2>1. (SlotOk(w) /\ SidecarOk(w))'
    BY <1>1, <1>2 DEF Here, Fields, SlotOk, SidecarOk, Runs, TypeOK
  <2> QED
    BY <1>1, <2>1, SlotsFrame DEF Runs, TypeOK
<1>5. Keys'
  BY <1>1, <1>2 DEF Runs, Here, Fields, SlotOk, SidecarOk, Keys, Running, At, StoreIsOurs
<1>6. Joins'
  BY <1>1, <1>2 DEF Runs, Here, Fields, SlotOk, SidecarOk, Joins, Joining, At, Accepted
<1>7. Configured'
  BY <1>1, <1>2 DEF Runs, Configured
<1>8. Texts'
  BY <1>1, <1>2 DEF Runs, Here, Fields, SlotOk, SidecarOk, Texts, Stored, FailedIsNotStored
<1>9. Display'
  BY <1>1, <1>2 DEF Runs, Here, Fields, SlotOk, SidecarOk, Display, Stored
<1> QED
  BY <1>3, <1>4, <1>5, <1>6, <1>7, <1>8, <1>9

LEMMA SendMessageIInv ==
    ASSUME IInv, NEW w \in Window, SendMessage(w)
    PROVE  IInv'
<1> USE DEF IInv
<1>1. PICK at \in {"ok", "err"} :
      /\ sidecar[w].cmd = "send" /\ sidecar[w].at = "sign"
      /\ Runs(w, sidecar[w].cmd, at, sidecar[w].as, sidecar[w].text)
      /\ lock' = None
      /\ signed' = IF at = "ok" THEN signed \cup {[says |-> sidecar[w].text, by |-> sidecar[w].as,
                                                    on |-> Said]}
                    ELSE signed
      /\ UNCHANGED <<identity, config, held, verdict, window, shown, job, sent, failed>>
  BY ProceedEffect DEF SendMessage, At, Exit, Sign, Stage
<1>2. Here(w)
  BY IsHere
<1>3. TypeOK'
  <2>1. sidecar[w].as \in Window /\ sidecar[w].text \in Text
    BY <1>1, <1>2 DEF Keys, Running, Here, Fields, SidecarOk
  <2>2. Said \in SUBSET Saying /\ sidecar[w].text \in Saying
    BY <2>1 DEF TypeOK, Said, Saying
  <2>3. signed' \subseteq [says : Saying, by : Window, on : SUBSET Saying]
    BY <1>1, <2>1, <2>2 DEF TypeOK
  <2> QED
    BY <1>1, <2>3 DEF TypeOK, Runs
<1>4. Slots'
  <2>1. (SlotOk(w) /\ SidecarOk(w))'
    BY <1>1, <1>2 DEF Here, Fields, SlotOk, SidecarOk, Runs, TypeOK
  <2> QED
    BY <1>1, <2>1, SlotsFrame DEF Runs, TypeOK
<1>5. Keys'
  BY <1>1, <1>2 DEF Runs, Here, Fields, SlotOk, SidecarOk, Keys, Running, At, StoreIsOurs
<1>6. Joins'
  BY <1>1, <1>2 DEF Runs, Here, Fields, SlotOk, SidecarOk, Joins, Joining, At, Accepted
<1>7. Configured'
  BY <1>1, <1>2 DEF Runs, Configured
<1>8. Texts'
  <2>1. /\ sidecar[w].text \in Text /\ sidecar[w].text \in sent[w]
        /\ sidecar[w].text \notin failed \cup Stored
    BY <1>1, <1>2 DEF Here, Fields, SidecarOk, Texts
  <2>2. Stored' = IF at = "ok" THEN Stored \cup {sidecar[w].text} ELSE Stored
    <3>1. CASE at = "ok"
      BY <1>1, <2>1, <3>1, SignEffect
    <3>2. CASE at # "ok"
      BY <1>1, <3>2 DEF Stored
    <3> QED
      BY <3>1, <3>2
  <2>3. /\ FailedIsNotStored'
        /\ (failed \cup Stored \subseteq UNION {sent[v] : v \in Window})'
    BY <1>1, <2>1, <2>2 DEF Texts, FailedIsNotStored
  <2>4. ASSUME NEW v \in Window, v # w
        PROVE  job[v].text # sidecar[w].text /\ sidecar[v].text # sidecar[w].text
    BY <2>1, <2>4, IsHere DEF Texts, Here, Fields, SlotOk, SidecarOk
  <2>5. job[w].kind = "send" => job[w].at = "send" \/ window[w] # "open"
    BY <1>1, <1>2 DEF Here, SlotOk, SidecarOk
  <2> QED
    BY <1>1, <1>2, <2>1, <2>2, <2>3, <2>4, <2>5 DEF Runs, Texts, Here, Fields, SlotOk, SidecarOk
<1>9. Display'
  <2>1. sidecar[w].text \in Text /\ sidecar[w].text \in sent[w]
    BY <1>1, <1>2 DEF Here, Fields, SidecarOk
  <2>2. Stored' = IF at = "ok" THEN Stored \cup {sidecar[w].text} ELSE Stored
    <3>1. CASE at = "ok"
      BY <1>1, <2>1, <3>1, SignEffect
    <3>2. CASE at # "ok"
      BY <1>1, <3>2 DEF Stored
    <3> QED
      BY <3>1, <3>2
  <2>3. ASSUME NEW v \in Window, v # w
        PROVE  sidecar[w].text \notin sent[v]
    BY <2>1, <2>3 DEF Texts
  <2>4. window[w] = "open" => job[w].text = sidecar[w].text /\ job[w].at = "send"
    BY <1>1, <1>2 DEF Here, SidecarOk
  <2>5. job[w].at = "loaded" => window[w] = "open"
    BY <1>2 DEF Here, SlotOk
  <2> QED
    BY <1>1, <2>1, <2>2, <2>3, <2>4, <2>5 DEF Runs, Display
<1> QED
  BY <1>3, <1>4, <1>5, <1>6, <1>7, <1>8, <1>9

LEMMA LoseConnectionIInv ==
    ASSUME IInv, NEW w \in Window, LoseConnection(w)
    PROVE  IInv'
<1> USE DEF IInv
<1>1. /\ sidecar[w].at = "talk"
      /\ Runs(w, sidecar[w].cmd, "stuck", sidecar[w].as, sidecar[w].text)
      /\ UNCHANGED <<identity, config, held, signed, verdict, lock, window, shown, job, sent, failed>>
  BY ProceedEffect DEF LoseConnection, disk, Stage
<1>2. Here(w)
  BY IsHere
<1>3. TypeOK'
  BY <1>1, <1>2 DEF TypeOK, Runs
<1>4. Slots'
  <2>1. (SlotOk(w) /\ SidecarOk(w))'
    BY <1>1, <1>2 DEF Here, Fields, SlotOk, SidecarOk, Runs, TypeOK
  <2> QED
    BY <1>1, <2>1, SlotsFrame DEF Runs, TypeOK
<1>5. Keys'
  BY <1>1, <1>2 DEF Runs, Here, Fields, SlotOk, SidecarOk, Keys, Running, At, StoreIsOurs
<1>6. Joins'
  BY <1>1, <1>2 DEF Runs, Here, Fields, SlotOk, SidecarOk, Joins, Joining, At, Accepted
<1>7. Configured'
  BY <1>1, <1>2 DEF Runs, Configured
<1>8. Texts'
  BY <1>1, <1>2 DEF Runs, Here, Fields, SlotOk, SidecarOk, Texts, Stored, FailedIsNotStored
<1>9. Display'
  BY <1>1, <1>2 DEF Runs, Here, Fields, SlotOk, SidecarOk, Display, Stored
<1> QED
  BY <1>3, <1>4, <1>5, <1>6, <1>7, <1>8, <1>9

LEMMA NetworkErrorIInv ==
    ASSUME IInv, NEW w \in Window, NetworkError(w)
    PROVE  IInv'
<1> USE DEF IInv
<1>1. /\ sidecar[w].at = "talk"
      /\ Runs(w, sidecar[w].cmd, "err", sidecar[w].as, sidecar[w].text)
      /\ lock' = None
      /\ UNCHANGED <<identity, config, held, signed, verdict, window, shown, job, sent, failed>>
  BY ProceedEffect DEF NetworkError, Exit, Stage
<1>2. Here(w)
  BY IsHere
<1>3. TypeOK'
  BY <1>1, <1>2 DEF TypeOK, Runs
<1>4. Slots'
  <2>1. (SlotOk(w) /\ SidecarOk(w))'
    BY <1>1, <1>2 DEF Here, Fields, SlotOk, SidecarOk, Runs, TypeOK
  <2> QED
    BY <1>1, <2>1, SlotsFrame DEF Runs, TypeOK
<1>5. Keys'
  BY <1>1, <1>2 DEF Runs, Here, Fields, SlotOk, SidecarOk, Keys, Running, At, StoreIsOurs
<1>6. Joins'
  BY <1>1, <1>2 DEF Runs, Here, Fields, SlotOk, SidecarOk, Joins, Joining, At, Accepted
<1>7. Configured'
  BY <1>1, <1>2 DEF Runs, Configured
<1>8. Texts'
  BY <1>1, <1>2 DEF Runs, Here, Fields, SlotOk, SidecarOk, Texts, Stored, FailedIsNotStored
<1>9. Display'
  BY <1>1, <1>2 DEF Runs, Here, Fields, SlotOk, SidecarOk, Display, Stored
<1> QED
  BY <1>3, <1>4, <1>5, <1>6, <1>7, <1>8, <1>9

LEMMA SyncProgressIInv ==
    ASSUME IInv, NEW w \in Window, SyncProgress(w)
    PROVE  IInv'
<1> USE DEF IInv
<1>1. /\ sidecar[w].cmd = "sync" /\ sidecar[w].at = "talk"
      /\ Runs(w, sidecar[w].cmd, "progress", sidecar[w].as, sidecar[w].text)
      /\ held' \subseteq held \cup {"channel"} /\ ("ancestry" \in held' <=> "ancestry" \in held)
      /\ refused' \subseteq Said /\ disputed' = disputed \cup (refused' \cap Text)
      /\ UNCHANGED <<identity, config, signed, lock, window, shown, job, sent, failed>>
  <2>1. /\ At(w, "sync", "talk") /\ Proceed(w, "progress")
        /\ held' \in {held \cup {"channel"}, held \ {"channel"}}
        /\ \E channel \in BOOLEAN : refused' \in Refusals(channel)
    BY DEF SyncProgress
  <2>2. refused' \subseteq Said
    BY <2>1 DEF Refusals
  <2>3. Runs(w, sidecar[w].cmd, "progress", sidecar[w].as, sidecar[w].text)
    BY <2>1, ProceedEffect DEF Stage
  <2> QED
    BY <2>1, <2>2, <2>3 DEF SyncProgress, At
<1>2. Here(w)
  BY IsHere
<1>3. TypeOK'
  <2>1. Said \subseteq Saying
    BY DEF TypeOK, Said
  <2>2. refused' \subseteq Saying /\ disputed' \subseteq Text
    BY <1>1, <2>1 DEF TypeOK
  <2>3. held' \subseteq {"ancestry", "channel"}
    BY <1>1 DEF TypeOK
  <2> QED
    BY <1>1, <2>2, <2>3 DEF TypeOK, Runs
<1>4. Slots'
  <2>1. (SlotOk(w) /\ SidecarOk(w))'
    BY <1>1, <1>2 DEF Here, Fields, SlotOk, SidecarOk, Runs, TypeOK
  <2> QED
    BY <1>1, <2>1, SlotsFrame DEF Runs, TypeOK
<1>5. Keys'
  BY <1>1, <1>2 DEF Runs, Here, Fields, SlotOk, SidecarOk, Keys, Running, At, StoreIsOurs
<1>6. Joins'
  BY <1>1, <1>2 DEF Runs, Here, Fields, SlotOk, SidecarOk, Joins, Joining, At, Accepted
<1>7. Configured'
  BY <1>1, <1>2 DEF Runs, Configured
<1>8. Texts'
  BY <1>1, <1>2 DEF Runs, Here, Fields, SlotOk, SidecarOk, Texts, Stored, FailedIsNotStored
<1>9. Display'
  <2>1. Stored' = Stored /\ disputed \subseteq disputed' /\ refused' \cap Text \subseteq disputed'
    BY <1>1 DEF Stored
  <2> QED
    BY <1>1, <2>1 DEF Display
<1> QED
  BY <1>3, <1>4, <1>5, <1>6, <1>7, <1>8, <1>9

LEMMA SyncEndIInv ==
    ASSUME IInv, NEW w \in Window, SyncEnd(w)
    PROVE  IInv'
<1> USE DEF IInv
<1>1. PICK status \in {"ok", "err"} :
      /\ sidecar[w].cmd = "sync" /\ sidecar[w].at = "progress"
      /\ Runs(w, sidecar[w].cmd, status, sidecar[w].as, sidecar[w].text)
      /\ lock' = None
      /\ UNCHANGED <<identity, config, held, signed, verdict, window, shown, job, sent, failed>>
  BY ProceedEffect DEF SyncEnd, At, Exit, Stage
<1>2. Here(w)
  BY IsHere
<1>3. TypeOK'
  BY <1>1, <1>2 DEF TypeOK, Runs
<1>4. Slots'
  <2>1. (SlotOk(w) /\ SidecarOk(w))'
    BY <1>1, <1>2 DEF Here, Fields, SlotOk, SidecarOk, Runs, TypeOK
  <2> QED
    BY <1>1, <2>1, SlotsFrame DEF Runs, TypeOK
<1>5. Keys'
  BY <1>1, <1>2 DEF Runs, Here, Fields, SlotOk, SidecarOk, Keys, Running, At, StoreIsOurs
<1>6. Joins'
  BY <1>1, <1>2 DEF Runs, Here, Fields, SlotOk, SidecarOk, Joins, Joining, At, Accepted
<1>7. Configured'
  BY <1>1, <1>2 DEF Runs, Configured
<1>8. Texts'
  BY <1>1, <1>2 DEF Runs, Here, Fields, SlotOk, SidecarOk, Texts, Stored, FailedIsNotStored
<1>9. Display'
  BY <1>1, <1>2 DEF Runs, Here, Fields, SlotOk, SidecarOk, Display, Stored
<1> QED
  BY <1>3, <1>4, <1>5, <1>6, <1>7, <1>8, <1>9

LEMMA BootstrapBeginIInv ==
    ASSUME IInv, NEW w \in Window, BootstrapBegin(w)
    PROVE  IInv'
<1> USE DEF IInv
<1>1. /\ sidecar[w].cmd = "join" /\ sidecar[w].at = "talk"
      /\ Runs(w, sidecar[w].cmd, "ask", sidecar[w].as, sidecar[w].text)
      /\ UNCHANGED <<identity, config, held, signed, verdict, lock, window, shown, job, sent, failed>>
  BY ProceedEffect DEF BootstrapBegin, At, disk, Stage
<1>2. Here(w)
  BY IsHere
<1>3. TypeOK'
  BY <1>1, <1>2 DEF TypeOK, Runs
<1>4. Slots'
  <2>1. (SlotOk(w) /\ SidecarOk(w))'
    BY <1>1, <1>2 DEF Here, Fields, SlotOk, SidecarOk, Runs, TypeOK
  <2> QED
    BY <1>1, <2>1, SlotsFrame DEF Runs, TypeOK
<1>5. Keys'
  BY <1>1, <1>2 DEF Runs, Here, Fields, SlotOk, SidecarOk, Keys, Running, At, StoreIsOurs
<1>6. Joins'
  BY <1>1, <1>2 DEF Runs, Here, Fields, SlotOk, SidecarOk, Joins, Joining, At, Accepted
<1>7. Configured'
  BY <1>1, <1>2 DEF Runs, Configured
<1>8. Texts'
  BY <1>1, <1>2 DEF Runs, Here, Fields, SlotOk, SidecarOk, Texts, Stored, FailedIsNotStored
<1>9. Display'
  BY <1>1, <1>2 DEF Runs, Here, Fields, SlotOk, SidecarOk, Display, Stored
<1> QED
  BY <1>3, <1>4, <1>5, <1>6, <1>7, <1>8, <1>9

LEMMA BootstrapAncestryIInv ==
    ASSUME IInv, NEW w \in Window, BootstrapAncestry(w)
    PROVE  IInv'
<1> USE DEF IInv
<1>1. /\ sidecar[w].cmd = "join" /\ sidecar[w].at = "ask"
      /\ Runs(w, sidecar[w].cmd, "sign", sidecar[w].as, sidecar[w].text)
      /\ held \cup {"ancestry"} \subseteq held' /\ held' \subseteq held \cup {"ancestry", "channel"}
      /\ UNCHANGED <<identity, config, signed, verdict, lock, window, shown, job, sent, failed>>
  BY ProceedEffect DEF BootstrapAncestry, At, Stage
<1>2. Here(w)
  BY IsHere
<1>3. TypeOK'
  BY <1>1, <1>2 DEF TypeOK, Runs
<1>4. Slots'
  <2>1. (SlotOk(w) /\ SidecarOk(w))'
    BY <1>1, <1>2 DEF Here, Fields, SlotOk, SidecarOk, Runs, TypeOK
  <2> QED
    BY <1>1, <2>1, SlotsFrame DEF Runs, TypeOK
<1>5. Keys'
  BY <1>1, <1>2 DEF Runs, Here, Fields, SlotOk, SidecarOk, Keys, Running, At, StoreIsOurs
<1>6. Joins'
  BY <1>1, <1>2 DEF Runs, Here, Fields, SlotOk, SidecarOk, Joins, Joining, At, Accepted
<1>7. Configured'
  BY <1>1, <1>2 DEF Runs, Configured
<1>8. Texts'
  BY <1>1, <1>2 DEF Runs, Here, Fields, SlotOk, SidecarOk, Texts, Stored, FailedIsNotStored
<1>9. Display'
  BY <1>1, <1>2 DEF Runs, Here, Fields, SlotOk, SidecarOk, Display, Stored
<1> QED
  BY <1>3, <1>4, <1>5, <1>6, <1>7, <1>8, <1>9

LEMMA StoreAcceptanceIInv ==
    ASSUME IInv, NEW w \in Window, StoreAcceptance(w)
    PROVE  IInv'
<1> USE DEF IInv
<1>1. /\ sidecar[w].cmd = "join" /\ sidecar[w].at = "sign"
      /\ Runs(w, sidecar[w].cmd, "submitted", sidecar[w].as, sidecar[w].text)
      /\ signed' = signed \cup {[says |-> Accept, by |-> sidecar[w].as, on |-> Said]}
      /\ UNCHANGED <<identity, config, held, verdict, lock, window, shown, job, sent, failed>>
  BY ProceedEffect DEF StoreAcceptance, At, Sign, Stage
<1>2. Here(w)
  BY IsHere
<1>3. TypeOK'
  <2>1. sidecar[w].as \in Window
    BY <1>1 DEF Keys, Running
  <2>2. Said \in SUBSET Saying /\ Accept \in Saying
    BY DEF TypeOK, Said, Saying
  <2>3. signed' \subseteq [says : Saying, by : Window, on : SUBSET Saying]
    BY <1>1, <2>1, <2>2 DEF TypeOK
  <2> QED
    BY <1>1, <2>3 DEF TypeOK, Runs
<1>4. Slots'
  <2>1. (SlotOk(w) /\ SidecarOk(w))'
    BY <1>1, <1>2 DEF Here, Fields, SlotOk, SidecarOk, Runs, TypeOK
  <2> QED
    BY <1>1, <2>1, SlotsFrame DEF Runs, TypeOK
<1>5. Keys'
  BY <1>1, <1>2 DEF Runs, Here, Fields, SlotOk, SidecarOk, Keys, Running, At, StoreIsOurs
<1>6. Joins'
  <2>1. Accepted'
    BY <1>1, SignEffect
  <2> QED
    BY <1>1, <1>2, <2>1 DEF Runs, Joins, Joining, At
<1>7. Configured'
  BY <1>1, <1>2 DEF Runs, Configured
<1>8. Texts'
  BY <1>1, <1>2 DEF Runs, Here, Fields, SlotOk, SidecarOk, Texts, Stored, FailedIsNotStored
<1>9. Display'
  BY <1>1, <1>2 DEF Runs, Here, Fields, SlotOk, SidecarOk, Display, Stored
<1> QED
  BY <1>3, <1>4, <1>5, <1>6, <1>7, <1>8, <1>9

LEMMA BootstrapAcceptedIInv ==
    ASSUME IInv, NEW w \in Window, BootstrapAccepted(w)
    PROVE  IInv'
<1> USE DEF IInv
<1>1. /\ sidecar[w].cmd = "join" /\ sidecar[w].at = "submitted"
      /\ Runs(w, sidecar[w].cmd, "ok", sidecar[w].as, sidecar[w].text)
      /\ lock' = None
      /\ UNCHANGED <<identity, config, held, signed, verdict, window, shown, job, sent, failed>>
  BY ProceedEffect DEF BootstrapAccepted, At, Exit, Stage
<1>2. Here(w)
  BY IsHere
<1>3. TypeOK'
  BY <1>1, <1>2 DEF TypeOK, Runs
<1>4. Slots'
  <2>1. (SlotOk(w) /\ SidecarOk(w))'
    BY <1>1, <1>2 DEF Here, Fields, SlotOk, SidecarOk, Runs, TypeOK
  <2> QED
    BY <1>1, <2>1, SlotsFrame DEF Runs, TypeOK
<1>5. Keys'
  BY <1>1, <1>2 DEF Runs, Here, Fields, SlotOk, SidecarOk, Keys, Running, At, StoreIsOurs
<1>6. Joins'
  BY <1>1, <1>2 DEF Runs, Here, Fields, SlotOk, SidecarOk, Joins, Joining, At, Accepted
<1>7. Configured'
  BY <1>1, <1>2 DEF Runs, Configured
<1>8. Texts'
  BY <1>1, <1>2 DEF Runs, Here, Fields, SlotOk, SidecarOk, Texts, Stored, FailedIsNotStored
<1>9. Display'
  BY <1>1, <1>2 DEF Runs, Here, Fields, SlotOk, SidecarOk, Display, Stored
<1> QED
  BY <1>3, <1>4, <1>5, <1>6, <1>7, <1>8, <1>9

LEMMA JoinFailedIInv ==
    ASSUME IInv, NEW w \in Window, JoinFailed(w)
    PROVE  IInv'
<1> USE DEF IInv
<1>1. /\ sidecar[w].cmd = "join" /\ sidecar[w].at \in {"ask", "sign", "submitted"}
      /\ Runs(w, sidecar[w].cmd, "err", sidecar[w].as, sidecar[w].text)
      /\ lock' = None
      /\ UNCHANGED <<identity, config, held, signed, verdict, window, shown, job, sent, failed>>
  BY ProceedEffect DEF JoinFailed, Exit, Stage
<1>2. Here(w)
  BY IsHere
<1>3. TypeOK'
  BY <1>1, <1>2 DEF TypeOK, Runs
<1>4. Slots'
  <2>1. (SlotOk(w) /\ SidecarOk(w))'
    BY <1>1, <1>2 DEF Here, Fields, SlotOk, SidecarOk, Runs, TypeOK
  <2> QED
    BY <1>1, <2>1, SlotsFrame DEF Runs, TypeOK
<1>5. Keys'
  BY <1>1, <1>2 DEF Runs, Here, Fields, SlotOk, SidecarOk, Keys, Running, At, StoreIsOurs
<1>6. Joins'
  BY <1>1, <1>2 DEF Runs, Here, Fields, SlotOk, SidecarOk, Joins, Joining, At, Accepted
<1>7. Configured'
  BY <1>1, <1>2 DEF Runs, Configured
<1>8. Texts'
  BY <1>1, <1>2 DEF Runs, Here, Fields, SlotOk, SidecarOk, Texts, Stored, FailedIsNotStored
<1>9. Display'
  BY <1>1, <1>2 DEF Runs, Here, Fields, SlotOk, SidecarOk, Display, Stored
<1> QED
  BY <1>3, <1>4, <1>5, <1>6, <1>7, <1>8, <1>9

LEMMA LaunchIInv ==
    ASSUME IInv, NEW w \in Window, Launch(w)
    PROVE  IInv'
<1> USE DEF IInv
<1>1. /\ window[w] = "new"
      /\ Puts(w, "load", "ensure", None, Blank)
      /\ window' = [window EXCEPT ![w] = "open"]
      /\ UNCHANGED <<identity, config, held, signed, verdict, lock, shown, sidecar, sent, failed>>
  BY PutEffect, NewJobs DEF Launch, disk
<1>2. Here(w)
  BY IsHere
<1>3. TypeOK'
  BY <1>1, <1>2 DEF TypeOK, Puts
<1>4. Slots'
  <2>1. (SlotOk(w) /\ SidecarOk(w))'
    BY <1>1, <1>2 DEF Here, Fields, SlotOk, SidecarOk, Puts, TypeOK
  <2> QED
    BY <1>1, <2>1, SlotsFrame DEF Puts, TypeOK
<1>5. Keys'
  BY <1>1, <1>2 DEF Puts, Here, Fields, SlotOk, SidecarOk, Keys, Running, At, StoreIsOurs
<1>6. Joins'
  BY <1>1, <1>2 DEF Puts, Here, Fields, SlotOk, SidecarOk, Joins, Joining, At, Accepted
<1>7. Configured'
  BY <1>1, <1>2 DEF Puts, Here, SlotOk, Configured, Blank, TypeOK
<1>8. Texts'
  BY <1>1, <1>2 DEF Puts, Here, Fields, SlotOk, SidecarOk, Texts, Stored, FailedIsNotStored
<1>9. Display'
  BY <1>1, <1>2 DEF Puts, Here, Fields, SlotOk, SidecarOk, Display, Stored
<1> QED
  BY <1>3, <1>4, <1>5, <1>6, <1>7, <1>8, <1>9

LEMMA RefreshIInv ==
    ASSUME IInv, NEW w \in Window, Refresh(w)
    PROVE  IInv'
<1> USE DEF IInv
<1>1. /\ window[w] = "open" /\ job[w].kind = "none"
      /\ Puts(w, "load", "ensure", None, Blank)
      /\ UNCHANGED <<identity, config, held, signed, verdict, lock, window, shown, sidecar, sent, failed>>
  BY PutEffect, NewJobs DEF Refresh, Ready, disk
<1>2. Here(w)
  BY IsHere
<1>3. TypeOK'
  BY <1>1, <1>2 DEF TypeOK, Puts
<1>4. Slots'
  <2>1. (SlotOk(w) /\ SidecarOk(w))'
    BY <1>1, <1>2 DEF Here, Fields, SlotOk, SidecarOk, Puts, TypeOK
  <2> QED
    BY <1>1, <2>1, SlotsFrame DEF Puts, TypeOK
<1>5. Keys'
  BY <1>1, <1>2 DEF Puts, Here, Fields, SlotOk, SidecarOk, Keys, Running, At, StoreIsOurs
<1>6. Joins'
  BY <1>1, <1>2 DEF Puts, Here, Fields, SlotOk, SidecarOk, Joins, Joining, At, Accepted
<1>7. Configured'
  BY <1>1, <1>2 DEF Puts, Here, SlotOk, Configured, Blank, TypeOK
<1>8. Texts'
  BY <1>1, <1>2 DEF Puts, Here, Fields, SlotOk, SidecarOk, Texts, Stored, FailedIsNotStored
<1>9. Display'
  BY <1>1, <1>2 DEF Puts, Here, Fields, SlotOk, SidecarOk, Display, Stored
<1> QED
  BY <1>3, <1>4, <1>5, <1>6, <1>7, <1>8, <1>9

LEMMA PollFailedIInv ==
    ASSUME IInv, NEW w \in Window, PollFailed(w)
    PROVE  IInv'
<1> USE DEF IInv
<1>1. /\ job[w].at = "failed"
      /\ Puts(w, "none", "idle", None, Blank)
      /\ failed' = IF job[w].kind = "send" THEN failed \cup {job[w].text} ELSE failed
      /\ UNCHANGED <<identity, config, held, signed, verdict, lock, window, shown, sidecar, sent>>
  BY PutEffect, NewJobs DEF PollFailed, disk
<1>2. Here(w)
  BY IsHere
<1>3. TypeOK'
  BY <1>1, <1>2, NewJobs DEF TypeOK, Puts, Here, Fields, SlotOk
<1>4. Slots'
  <2>1. (SlotOk(w) /\ SidecarOk(w))'
    BY <1>1, <1>2 DEF Here, Fields, SlotOk, SidecarOk, Puts, TypeOK
  <2> QED
    BY <1>1, <2>1, SlotsFrame DEF Puts, TypeOK
<1>5. Keys'
  BY <1>1, <1>2 DEF Puts, Here, Fields, SlotOk, SidecarOk, Keys, Running, At, StoreIsOurs
<1>6. Joins'
  BY <1>1, <1>2 DEF Puts, Here, Fields, SlotOk, SidecarOk, Joins, Joining, At, Accepted
<1>7. Configured'
  BY <1>1, <1>2 DEF Puts, Here, SlotOk, Configured, Blank, TypeOK
<1>8. Texts'
  <2>1. Stored' = Stored /\ sidecar' = sidecar /\ sent' = sent
    BY <1>1 DEF Stored
  <2>2. sidecar[w].cmd = "none" /\ sidecar[w].text = None /\ sidecar[w].at = "idle"
    BY <1>1, <1>2 DEF Here, SlotOk
  <2>3. failed \subseteq Text /\ Stored \subseteq Text
    BY DEF TypeOK, Stored
  <2>4. /\ FailedIsNotStored'
        /\ (failed \cup Stored \subseteq UNION {sent[v] : v \in Window})'
    BY <1>1, <1>2, <2>1 DEF Texts, FailedIsNotStored, Here, SlotOk
  <2>5. ASSUME NEW v \in Window, v # w
        PROVE  /\ job'[v].text \notin failed'
               /\ sidecar[v].cmd = "send" /\ sidecar[v].at \in {"start", "sign"} =>
                     sidecar[v].text \notin failed' \cup Stored
    BY <1>1, <1>2, <2>3, <2>5, IsHere DEF Puts, Texts, Here, Fields, SlotOk, SidecarOk
  <2>6. job'[w].text \notin failed'
    BY <1>1, <1>2, <2>3 DEF Puts, Here, Fields, SlotOk
  <2> QED
    BY <1>1, <2>1, <2>2, <2>4, <2>5, <2>6 DEF Puts, Texts
<1>9. Display'
  BY <1>1, <1>2 DEF Puts, Here, Fields, SlotOk, Display, Stored, TypeOK, Texts
<1> QED
  BY <1>3, <1>4, <1>5, <1>6, <1>7, <1>8, <1>9

LEMMA CloseIInv ==
    ASSUME IInv, NEW w \in Window, Close(w)
    PROVE  IInv'
<1> USE DEF IInv
<1>1. /\ window[w] = "open"
      /\ Puts(w, "none", "idle", None, Blank)
      /\ window' = [window EXCEPT ![w] = "closed"]
      /\ shown' = [shown EXCEPT ![w] = Blank]
      /\ UNCHANGED <<identity, config, held, signed, verdict, lock, sidecar, sent, failed>>
  BY PutEffect, NewJobs DEF Close, disk
<1>2. Here(w)
  BY IsHere
<1>3. TypeOK'
  BY <1>1, <1>2, NewJobs DEF TypeOK, Puts, Here, Fields, SlotOk
<1>4. Slots'
  <2>1. (SlotOk(w) /\ SidecarOk(w))'
    BY <1>1, <1>2 DEF Here, Fields, SlotOk, SidecarOk, Puts, TypeOK
  <2> QED
    BY <1>1, <2>1, SlotsFrame DEF Puts, TypeOK
<1>5. Keys'
  BY <1>1, <1>2 DEF Puts, Here, Fields, SlotOk, SidecarOk, Keys, Running, At, StoreIsOurs
<1>6. Joins'
  BY <1>1, <1>2 DEF Puts, Here, Fields, SlotOk, SidecarOk, Joins, Joining, At, Accepted
<1>7. Configured'
  BY <1>1, <1>2 DEF Puts, Here, SlotOk, Configured, Blank, TypeOK
<1>8. Texts'
  BY <1>1, <1>2 DEF Puts, Texts, Stored, FailedIsNotStored, TypeOK
<1>9. Display'
  BY <1>1, <1>2 DEF Puts, Here, Fields, SlotOk, Display, Stored, TypeOK, Texts
<1> QED
  BY <1>3, <1>4, <1>5, <1>6, <1>7, <1>8, <1>9

LEMMA ReadInfoIInv ==
    ASSUME IInv, NEW w \in Window, ReadInfo(w)
    PROVE  IInv'
<1> USE DEF IInv
<1>1. /\ job[w].at = "info"
      /\ Puts(w, job[w].kind, IF identity \in Window THEN "config" ELSE "failed",
              job[w].text, job[w].snapshot)
      /\ UNCHANGED <<identity, config, held, signed, verdict, lock, window, shown, sidecar, sent, failed>>
  BY GotoEffect DEF ReadInfo, Step, disk
<1>2. Here(w)
  BY IsHere
<1>3. TypeOK'
  BY <1>1, <1>2 DEF TypeOK, Puts
<1>4. Slots'
  <2>1. (SlotOk(w) /\ SidecarOk(w))'
    BY <1>1, <1>2 DEF Here, Fields, SlotOk, SidecarOk, Puts, TypeOK
  <2> QED
    BY <1>1, <2>1, SlotsFrame DEF Puts, TypeOK
<1>5. Keys'
  BY <1>1, <1>2 DEF Puts, Here, Fields, SlotOk, SidecarOk, Keys, Running, At, StoreIsOurs
<1>6. Joins'
  BY <1>1, <1>2 DEF Puts, Here, Fields, SlotOk, SidecarOk, Joins, Joining, At, Accepted
<1>7. Configured'
  BY <1>1, <1>2 DEF Puts, Configured
<1>8. Texts'
  BY <1>1, <1>2, SenderHasJoined DEF Puts, Here, Fields, SlotOk, Texts, Stored, FailedIsNotStored
<1>9. Display'
  BY <1>1, <1>2 DEF Puts, Here, Fields, SlotOk, SidecarOk, Display, Stored
<1> QED
  BY <1>3, <1>4, <1>5, <1>6, <1>7, <1>8, <1>9

LEMMA TruncateConfigIInv ==
    ASSUME IInv, NEW w \in Window, TruncateConfig(w)
    PROVE  IInv'
<1> USE DEF IInv
<1>1. /\ job[w].at = "save"
      /\ Puts(w, job[w].kind, "saving", job[w].text, job[w].snapshot)
      /\ config' = "torn"
      /\ UNCHANGED <<identity, held, signed, verdict, lock, window, shown, sidecar, sent, failed>>
  BY GotoEffect DEF TruncateConfig, Step
<1>2. Here(w)
  BY IsHere
<1>3. TypeOK'
  BY <1>1, <1>2 DEF TypeOK, Puts
<1>4. Slots'
  <2>1. (SlotOk(w) /\ SidecarOk(w))'
    BY <1>1, <1>2 DEF Here, Fields, SlotOk, SidecarOk, Puts, TypeOK
  <2> QED
    BY <1>1, <2>1, SlotsFrame DEF Puts, TypeOK
<1>5. Keys'
  BY <1>1, <1>2 DEF Puts, Here, Fields, SlotOk, SidecarOk, Keys, Running, At, StoreIsOurs
<1>6. Joins'
  BY <1>1, <1>2 DEF Puts, Here, Fields, SlotOk, SidecarOk, Joins, Joining, At, Accepted
<1>7. Configured'
  BY <1>1 DEF Puts, Configured, Joins, Joining
<1>8. Texts'
  BY <1>1, <1>2 DEF Puts, Here, Fields, SlotOk, SidecarOk, Texts, Stored, FailedIsNotStored
<1>9. Display'
  BY <1>1, <1>2 DEF Puts, Here, Fields, SlotOk, SidecarOk, Display, Stored
<1> QED
  BY <1>3, <1>4, <1>5, <1>6, <1>7, <1>8, <1>9

LEMMA WriteConfigIInv ==
    ASSUME IInv, NEW w \in Window, WriteConfig(w)
    PROVE  IInv'
<1> USE DEF IInv
<1>1. /\ job[w].at = "saving"
      /\ Puts(w, job[w].kind, "ensure", job[w].text, job[w].snapshot)
      /\ config' = "community"
      /\ UNCHANGED <<identity, held, signed, verdict, lock, window, shown, sidecar, sent, failed>>
  BY GotoEffect DEF WriteConfig, Step
<1>2. Here(w)
  BY IsHere
<1>3. TypeOK'
  BY <1>1, <1>2 DEF TypeOK, Puts
<1>4. Slots'
  <2>1. (SlotOk(w) /\ SidecarOk(w))'
    BY <1>1, <1>2 DEF Here, Fields, SlotOk, SidecarOk, Puts, TypeOK
  <2> QED
    BY <1>1, <2>1, SlotsFrame DEF Puts, TypeOK
<1>5. Keys'
  BY <1>1, <1>2 DEF Puts, Here, Fields, SlotOk, SidecarOk, Keys, Running, At, StoreIsOurs
<1>6. Joins'
  BY <1>1, <1>2 DEF Puts, Here, Fields, SlotOk, SidecarOk, Joins, Joining, At, Accepted
<1>7. Configured'
  BY <1>1, <1>2 DEF Puts, Configured
<1>8. Texts'
  BY <1>1, <1>2 DEF Puts, Here, Fields, SlotOk, SidecarOk, Texts, Stored, FailedIsNotStored
<1>9. Display'
  BY <1>1, <1>2 DEF Puts, Here, Fields, SlotOk, SidecarOk, Display, Stored
<1> QED
  BY <1>3, <1>4, <1>5, <1>6, <1>7, <1>8, <1>9

LEMMA JoinIInv ==
    ASSUME IInv, NEW w \in Window, Join(w)
    PROVE  IInv'
<1> USE DEF IInv
<1>1. /\ window[w] = "open" /\ job[w].kind = "none" /\ ~shown[w].community
      /\ Puts(w, "join", "prepare", None, Blank)
      /\ UNCHANGED <<identity, config, held, signed, verdict, lock, window, shown, sidecar, sent, failed>>
  <2> DEFINE j == [NoJob EXCEPT !.kind = "join", !.at = "prepare"]
  <2>1. /\ j \in Slot
        /\ j.kind = "join" /\ j.at = "prepare" /\ j.text = None /\ j.snapshot = Blank
    BY NewJobs DEF Slot, Step
  <2>2. job' = [job EXCEPT ![w] = j]
    BY DEF Join
  <2> HIDE DEF j
  <2> QED
    BY <2>1, <2>2, PutEffect DEF Join, Ready, disk
<1>2. Here(w)
  BY IsHere
<1>3. TypeOK'
  BY <1>1, <1>2 DEF TypeOK, Puts
<1>4. Slots'
  <2>1. (SlotOk(w) /\ SidecarOk(w))'
    BY <1>1, <1>2 DEF Here, Fields, SlotOk, SidecarOk, Puts, TypeOK
  <2> QED
    BY <1>1, <2>1, SlotsFrame DEF Puts, TypeOK
<1>5. Keys'
  BY <1>1, <1>2 DEF Puts, Here, Fields, SlotOk, SidecarOk, Keys, Running, At, StoreIsOurs
<1>6. Joins'
  BY <1>1, <1>2 DEF Puts, Here, Fields, SlotOk, SidecarOk, Joins, Joining, At, Accepted
<1>7. Configured'
  BY <1>1, <1>2 DEF Puts, Here, SlotOk, Configured, Blank, TypeOK
<1>8. Texts'
  BY <1>1, <1>2 DEF Puts, Here, Fields, SlotOk, SidecarOk, Texts, Stored, FailedIsNotStored
<1>9. Display'
  BY <1>1, <1>2 DEF Puts, Here, Fields, SlotOk, SidecarOk, Display, Stored
<1> QED
  BY <1>3, <1>4, <1>5, <1>6, <1>7, <1>8, <1>9

LEMMA SendIInv ==
    ASSUME IInv, NEW w \in Window, NEW t \in Text, Send(w, t)
    PROVE  IInv'
<1> USE DEF IInv
<1>1. /\ window[w] = "open" /\ job[w].kind = "none" /\ shown[w].community
      /\ Puts(w, "send", "send", t, Blank)
      /\ \A v \in Window : t \notin sent[v]
      /\ sent' = [sent EXCEPT ![w] = @ \cup {t}]
      /\ UNCHANGED <<identity, config, held, signed, verdict, lock, window, shown, sidecar, failed>>
  <2> DEFINE j == [NoJob EXCEPT !.kind = "send", !.at = "send", !.text = t]
  <2>1. /\ j \in Slot
        /\ j.kind = "send" /\ j.at = "send" /\ j.text = t /\ j.snapshot = Blank
    BY NewJobs DEF Slot, Step
  <2>2. job' = [job EXCEPT ![w] = j]
    BY DEF Send
  <2> HIDE DEF j
  <2> QED
    BY <2>1, <2>2, PutEffect DEF Send, Ready, disk
<1>2. Here(w)
  BY IsHere
<1>3. TypeOK'
  BY <1>1, <1>2 DEF TypeOK, Puts
<1>4. Slots'
  <2>1. (SlotOk(w) /\ SidecarOk(w))'
    BY <1>1, <1>2 DEF Here, Fields, SlotOk, SidecarOk, Puts, TypeOK
  <2> QED
    BY <1>1, <2>1, SlotsFrame DEF Puts, TypeOK
<1>5. Keys'
  BY <1>1, <1>2 DEF Puts, Here, Fields, SlotOk, SidecarOk, Keys, Running, At, StoreIsOurs
<1>6. Joins'
  BY <1>1, <1>2 DEF Puts, Here, Fields, SlotOk, SidecarOk, Joins, Joining, At, Accepted
<1>7. Configured'
  BY <1>1, <1>2 DEF Puts, Here, SlotOk, Configured, Blank, TypeOK
<1>8. Texts'
  BY <1>1, <1>2 DEF Puts, Here, Fields, SlotOk, SidecarOk, Texts, Stored, FailedIsNotStored
<1>9. Display'
  BY <1>1, <1>2 DEF Puts, Here, Fields, SlotOk, SidecarOk, Display, Stored
<1> QED
  BY <1>3, <1>4, <1>5, <1>6, <1>7, <1>8, <1>9

LEMMA PollLoadedIInv ==
    ASSUME IInv, NEW w \in Window, PollLoaded(w)
    PROVE  IInv'
<1> USE DEF IInv
<1>1. /\ job[w].at = "loaded"
      /\ Puts(w, IF job[w].kind = "send" THEN "load" ELSE "none",
              IF job[w].kind = "send" THEN "ensure" ELSE "idle", None, Blank)
      /\ shown' = [shown EXCEPT ![w] = job[w].snapshot]
      /\ UNCHANGED <<identity, config, held, signed, verdict, lock, window, sidecar, sent, failed>>
  BY PutEffect, NewJobs DEF PollLoaded, disk
<1>2. Here(w)
  BY IsHere
<1>3. TypeOK'
  BY <1>1, <1>2 DEF TypeOK, Puts, Here, Fields
<1>4. Slots'
  <2>1. (SlotOk(w) /\ SidecarOk(w))'
    BY <1>1, <1>2 DEF Here, Fields, SlotOk, SidecarOk, Puts, TypeOK
  <2> QED
    BY <1>1, <2>1, SlotsFrame DEF Puts, TypeOK
<1>5. Keys'
  BY <1>1, <1>2 DEF Puts, Here, Fields, SlotOk, SidecarOk, Keys, Running, At, StoreIsOurs
<1>6. Joins'
  BY <1>1, <1>2 DEF Puts, Here, Fields, SlotOk, SidecarOk, Joins, Joining, At, Accepted
<1>7. Configured'
  BY <1>1, <1>2 DEF Puts, Here, SlotOk, Configured, Blank, TypeOK
<1>8. Texts'
  BY <1>1, <1>2 DEF Puts, Here, Fields, SlotOk, SidecarOk, Texts, Stored, FailedIsNotStored, TypeOK
<1>9. Display'
  <2>1. window[w] = "open" /\ window \in [Window -> {"new", "open", "closed"}]
    BY <1>1, <1>2 DEF Here, SlotOk, TypeOK
  <2>2. shown'[w] = job[w].snapshot /\ \A v \in Window : v # w => shown'[v] = shown[v]
    BY <1>1 DEF TypeOK
  <2>3. Stored' = Stored
    BY <1>1 DEF Stored
  <2> QED
    BY <1>1, <1>2, <2>1, <2>2, <2>3 DEF Puts, Here, Fields, SlotOk, Display
<1> QED
  BY <1>3, <1>4, <1>5, <1>6, <1>7, <1>8, <1>9

LEMMA load_configIInv ==
    ASSUME IInv, NEW w \in Window, load_config(w)
    PROVE  IInv'
<1> USE DEF IInv
<1>1. PICK at \in Step, s \in Snapshot :
      /\ job[w].at = "config"
      /\ Puts(w, job[w].kind, at, job[w].text, s)
      /\ at \in {"loaded", "failed", "sync", "channels"}
      /\ at = "loaded" => config = "none"
      /\ config = "none" => at = "loaded" /\ s = job[w].snapshot
      /\ config = "torn" => at = "failed" /\ s = job[w].snapshot
      /\ config = "community" =>
            at = (IF job[w].kind = "load" THEN "sync" ELSE "channels") /\ s.community
      /\ UNCHANGED <<identity, config, held, signed, verdict, lock, window, shown, sidecar, sent, failed>>
  <2>1. CASE config = "community"
    <3> DEFINE s == [job[w].snapshot EXCEPT !.community = TRUE]
               at == IF job[w].kind = "load" THEN "sync" ELSE "channels"
    <3>1. s \in Snapshot /\ s.community
      BY HasFields DEF Fields, Snapshot
    <3>2. Learn(w, at, s)
      BY <2>1 DEF load_config
    <3> HIDE DEF s
    <3>3. Puts(w, job[w].kind, at, job[w].text, s)
      BY <3>1, <3>2, SnapEffect DEF Step
    <3> QED
      BY <2>1, <3>1, <3>3 DEF load_config, Step, disk
  <2>2. CASE config = "none"
    BY <2>2, GotoEffect, HasFields DEF load_config, Fields, Step, disk
  <2>3. CASE config = "torn"
    BY <2>3, GotoEffect, HasFields DEF load_config, Fields, Step, disk
  <2> QED
    BY <2>1, <2>2, <2>3 DEF TypeOK
<1>2. Here(w)
  BY IsHere
<1>3. TypeOK'
  BY <1>1, <1>2 DEF TypeOK, Puts
<1>4. Slots'
  <2>1. (SlotOk(w) /\ SidecarOk(w))'
    BY <1>1, <1>2 DEF Here, Fields, SlotOk, SidecarOk, Puts, TypeOK
  <2> QED
    BY <1>1, <2>1, SlotsFrame DEF Puts, TypeOK
<1>5. Keys'
  BY <1>1, <1>2 DEF Puts, Here, Fields, SlotOk, SidecarOk, Keys, Running, At, StoreIsOurs
<1>6. Joins'
  BY <1>1, <1>2 DEF Puts, Here, Fields, SlotOk, SidecarOk, Joins, Joining, At, Accepted
<1>7. Configured'
  BY <1>1, <1>2, SenderHasJoined DEF Puts, Configured, TypeOK
<1>8. Texts'
  BY <1>1, <1>2, SenderHasJoined DEF Puts, Here, Fields, SlotOk, Texts, Stored, FailedIsNotStored
<1>9. Display'
  BY <1>1, <1>2 DEF Puts, Here, Fields, SlotOk, SidecarOk, Display, Stored, Configured, TypeOK
<1> QED
  BY <1>3, <1>4, <1>5, <1>6, <1>7, <1>8, <1>9

LEMMA list_channelsIInv ==
    ASSUME IInv, NEW w \in Window, list_channels(w)
    PROVE  IInv'
<1> USE DEF IInv
<1>1. PICK at \in Step, s \in Snapshot :
      /\ job[w].at = "channels"
      /\ Puts(w, job[w].kind, at, job[w].text, s)
      /\ at = IF "ancestry" \in held THEN "messages" ELSE "failed"
      /\ s.community = job[w].snapshot.community
      /\ UNCHANGED <<identity, config, held, signed, verdict, lock, window, shown, sidecar, sent, failed>>
  <2>1. CASE "ancestry" \in held
    <3> DEFINE b == "channel" \in held
               s == [job[w].snapshot EXCEPT !.channel = b]
    <3>0. b \in BOOLEAN
      OBVIOUS
    <3>2. Learn(w, "messages", s)
      BY <2>1 DEF list_channels
    <3> HIDE DEF b
    <3>1. s \in Snapshot /\ s.community = job[w].snapshot.community
      BY <3>0, HasFields DEF Fields, Snapshot
    <3> HIDE DEF s
    <3>3. Puts(w, job[w].kind, "messages", job[w].text, s)
      BY <3>1, <3>2, SnapEffect DEF Step
    <3> QED
      BY <2>1, <3>1, <3>3 DEF list_channels, Step, disk
  <2>2. CASE "ancestry" \notin held
    BY <2>2, GotoEffect, HasFields DEF list_channels, Fields, Step, disk
  <2> QED
    BY <2>1, <2>2
<1>2. Here(w)
  BY IsHere
<1>3. TypeOK'
  BY <1>1, <1>2 DEF TypeOK, Puts
<1>4. Slots'
  <2>1. (SlotOk(w) /\ SidecarOk(w))'
    BY <1>1, <1>2 DEF Here, Fields, SlotOk, SidecarOk, Puts, TypeOK
  <2> QED
    BY <1>1, <2>1, SlotsFrame DEF Puts, TypeOK
<1>5. Keys'
  BY <1>1, <1>2 DEF Puts, Here, Fields, SlotOk, SidecarOk, Keys, Running, At, StoreIsOurs
<1>6. Joins'
  BY <1>1, <1>2 DEF Puts, Here, Fields, SlotOk, SidecarOk, Joins, Joining, At, Accepted
<1>7. Configured'
  BY <1>1, <1>2 DEF Puts, Configured
<1>8. Texts'
  BY <1>1, <1>2, SenderHasJoined DEF Puts, Here, Fields, SlotOk, Texts, Stored, FailedIsNotStored
<1>9. Display'
  BY <1>1, <1>2 DEF Puts, Here, Fields, SlotOk, SidecarOk, Display, Stored
<1> QED
  BY <1>3, <1>4, <1>5, <1>6, <1>7, <1>8, <1>9

LEMMA list_messagesIInv ==
    ASSUME IInv, NEW w \in Window, list_messages(w)
    PROVE  IInv'
<1> USE DEF IInv
<1>1. PICK s \in Snapshot :
      /\ job[w].at = "messages"
      /\ Puts(w, job[w].kind, "loaded", job[w].text, s)
      /\ s.community = job[w].snapshot.community /\ s.messages = Stored \ refused
      /\ UNCHANGED <<identity, config, held, signed, verdict, lock, window, shown, sidecar, sent, failed>>
  <2> DEFINE s == [job[w].snapshot EXCEPT !.messages = Stored \ refused]
  <2>1. s \in Snapshot /\ s.community = job[w].snapshot.community /\ s.messages = Stored \ refused
    BY HasFields DEF Fields, Snapshot, Stored
  <2>2. Learn(w, "loaded", s)
    BY DEF list_messages
  <2> HIDE DEF s
  <2>3. Puts(w, job[w].kind, "loaded", job[w].text, s)
    BY <2>1, <2>2, SnapEffect DEF Step
  <2> QED
    BY <2>1, <2>3 DEF list_messages, disk
<1>2. Here(w)
  BY IsHere
<1>3. TypeOK'
  BY <1>1, <1>2 DEF TypeOK, Puts
<1>4. Slots'
  <2>1. (SlotOk(w) /\ SidecarOk(w))'
    BY <1>1, <1>2 DEF Here, Fields, SlotOk, SidecarOk, Puts, TypeOK
  <2> QED
    BY <1>1, <2>1, SlotsFrame DEF Puts, TypeOK
<1>5. Keys'
  BY <1>1, <1>2 DEF Puts, Here, Fields, SlotOk, SidecarOk, Keys, Running, At, StoreIsOurs
<1>6. Joins'
  BY <1>1, <1>2 DEF Puts, Here, Fields, SlotOk, SidecarOk, Joins, Joining, At, Accepted
<1>7. Configured'
  BY <1>1, <1>2 DEF Puts, Configured
<1>8. Texts'
  BY <1>1, <1>2 DEF Puts, Here, Fields, SlotOk, SidecarOk, Texts, Stored, FailedIsNotStored
<1>9. Display'
  BY <1>1, <1>2 DEF Puts, Here, Fields, SlotOk, SidecarOk, Display, Stored
<1> QED
  BY <1>3, <1>4, <1>5, <1>6, <1>7, <1>8, <1>9

LEMMA CallNodeIInv ==
    ASSUME IInv, NEW w \in Window, CallNode(w)
    PROVE  IInv'
<1> USE DEF IInv
<1>1. /\ job[w].at \in {"join", "sync", "send"} /\ sidecar[w].cmd = "none"
      /\ Runs(w, job[w].at, "start", None, job[w].text)
      /\ UNCHANGED <<identity, config, held, signed, verdict, lock, window, shown, job, sent, failed>>
  BY CallEffect DEF CallNode, Idle, disk
<1>2. Here(w)
  BY IsHere
<1>3. TypeOK'
  BY <1>1, <1>2 DEF TypeOK, Runs
<1>4. Slots'
  <2>1. (SlotOk(w) /\ SidecarOk(w))'
    BY <1>1, <1>2 DEF Here, Fields, SlotOk, SidecarOk, Runs, TypeOK
  <2> QED
    BY <1>1, <2>1, SlotsFrame DEF Runs, TypeOK
<1>5. Keys'
  BY <1>1, <1>2 DEF Runs, Here, Fields, SlotOk, SidecarOk, Keys, Running, At, StoreIsOurs
<1>6. Joins'
  BY <1>1, <1>2 DEF Runs, Here, Fields, SlotOk, SidecarOk, Joins, Joining, At, Accepted
<1>7. Configured'
  BY <1>1, <1>2 DEF Runs, Configured
<1>8. Texts'
  BY <1>1, <1>2 DEF Runs, Here, Fields, SlotOk, SidecarOk, Texts, Stored, FailedIsNotStored
<1>9. Display'
  BY <1>1, <1>2 DEF Runs, Here, Fields, SlotOk, SidecarOk, Display, Stored
<1> QED
  BY <1>3, <1>4, <1>5, <1>6, <1>7, <1>8, <1>9

LEMMA EnsureCallsIInv ==
    ASSUME IInv, NEW w \in Window, ensure_identity(w), identity = None
    PROVE  IInv'
<1> USE DEF IInv
<1>1. /\ job[w].at \in {"prepare", "ensure"} /\ sidecar[w].cmd = "none"
      /\ Runs(w, "init", "start", None, job[w].text)
      /\ UNCHANGED <<identity, config, held, signed, verdict, lock, window, shown, job, sent, failed>>
  BY CallEffect DEF ensure_identity, Idle, disk
<1>2. Here(w)
  BY IsHere
<1>3. TypeOK'
  BY <1>1, <1>2 DEF TypeOK, Runs
<1>4. Slots'
  <2>1. job[w].kind # "send"
    BY <1>1, <1>2, SenderHasJoined DEF Here, SlotOk
  <2>2. (SlotOk(w) /\ SidecarOk(w))'
    BY <1>1, <1>2, <2>1 DEF Here, Fields, SlotOk, SidecarOk, Runs
  <2> QED
    BY <1>1, <2>2, SlotsFrame DEF Runs
<1>5. Keys'
  BY <1>1, <1>2 DEF Runs, Here, Fields, SlotOk, SidecarOk, Keys, Running, At, StoreIsOurs
<1>6. Joins'
  BY <1>1, <1>2 DEF Runs, Here, Fields, SlotOk, SidecarOk, Joins, Joining, At, Accepted
<1>7. Configured'
  BY <1>1, <1>2 DEF Runs, Configured
<1>8. Texts'
  BY <1>1, <1>2 DEF Runs, Here, Fields, SlotOk, SidecarOk, Texts, Stored, FailedIsNotStored
<1>9. Display'
  BY <1>1, <1>2 DEF Runs, Here, Fields, SlotOk, SidecarOk, Display, Stored
<1> QED
  BY <1>3, <1>4, <1>5, <1>6, <1>7, <1>8, <1>9

LEMMA EnsureGoesIInv ==
    ASSUME IInv, NEW w \in Window, ensure_identity(w), identity # None
    PROVE  IInv'
<1> USE DEF IInv
<1>1. /\ job[w].at \in {"prepare", "ensure"} /\ sidecar[w].cmd = "none"
      /\ Puts(w, job[w].kind, IF job[w].at = "prepare" THEN "join" ELSE "info",
              job[w].text, job[w].snapshot)
      /\ UNCHANGED <<identity, config, held, signed, verdict, lock, window, shown, sidecar, sent, failed>>
  BY GotoEffect DEF ensure_identity, Idle, Ensured, Step, disk
<1>2. Here(w)
  BY IsHere
<1>3. TypeOK'
  BY <1>1, <1>2 DEF TypeOK, Puts
<1>4. Slots'
  <2>1. (SlotOk(w) /\ SidecarOk(w))'
    BY <1>1, <1>2 DEF Here, Fields, SlotOk, SidecarOk, Puts, TypeOK
  <2> QED
    BY <1>1, <2>1, SlotsFrame DEF Puts, TypeOK
<1>5. Keys'
  BY <1>1, <1>2 DEF Puts, Here, Fields, SlotOk, SidecarOk, Keys, Running, At, StoreIsOurs
<1>6. Joins'
  BY <1>1, <1>2 DEF Puts, Here, Fields, SlotOk, SidecarOk, Joins, Joining, At, Accepted
<1>7. Configured'
  BY <1>1, <1>2 DEF Puts, Configured
<1>8. Texts'
  BY <1>1, <1>2 DEF Puts, Here, Fields, SlotOk, SidecarOk, Texts, Stored, FailedIsNotStored
<1>9. Display'
  BY <1>1, <1>2 DEF Puts, Here, Fields, SlotOk, SidecarOk, Display, Stored
<1> QED
  BY <1>3, <1>4, <1>5, <1>6, <1>7, <1>8, <1>9

LEMMA ReturnIInv ==
    ASSUME IInv, NEW w \in Window, Return(w)
    PROVE  IInv'
<1> USE DEF IInv
<1>1. PICK at \in Step :
      /\ job[w].kind # "none" /\ sidecar[w].at \in {"ok", "err"}
      /\ Puts(w, job[w].kind, at, job[w].text, job[w].snapshot)
      /\ Runs(w, "none", "idle", None, None)
      /\ sidecar[w].cmd = "sync" => at = "channels"
      /\ sidecar[w].cmd # "sync" /\ sidecar[w].at = "err" => at = "failed"
      /\ sidecar[w].cmd = "init" /\ sidecar[w].at = "ok" => at \in {"join", "info"}
      /\ at = "join" => job[w].at = "prepare"
      /\ sidecar[w].cmd = "join" /\ sidecar[w].at = "ok" => at = "save"
      /\ sidecar[w].cmd = "send" /\ sidecar[w].at = "ok" => at = "ensure"
      /\ UNCHANGED <<identity, config, held, signed, verdict, lock, window, shown, sent, failed>>
  <2> DEFINE at == IF sidecar[w].at = "err" /\ sidecar[w].cmd # "sync"
                   THEN "failed" ELSE Returned(w)
  <2>1. /\ at \in Step
        /\ sidecar[w].cmd = "sync" => at = "channels"
        /\ sidecar[w].cmd # "sync" /\ sidecar[w].at = "err" => at = "failed"
        /\ sidecar[w].cmd = "init" /\ sidecar[w].at = "ok" => at \in {"join", "info"}
        /\ at = "join" => job[w].at = "prepare"
        /\ sidecar[w].cmd = "join" /\ sidecar[w].at = "ok" => at = "save"
        /\ sidecar[w].cmd = "send" /\ sidecar[w].at = "ok" => at = "ensure"
    BY HasFields DEF Fields, Return, Returned, Ensured, Step
  <2>2. Goto(w, at)
    BY DEF Return
  <2> HIDE DEF at
  <2>3. Puts(w, job[w].kind, at, job[w].text, job[w].snapshot)
    BY <2>1, <2>2, GotoEffect
  <2> QED
    BY <2>1, <2>3, ResetEffect DEF Return, disk
<1>2. Here(w)
  BY IsHere
<1>3. TypeOK'
  BY <1>1, <1>2 DEF TypeOK, Puts, Runs
<1>4. Slots'
  <2>1. (SlotOk(w) /\ SidecarOk(w))'
    BY <1>1, <1>2 DEF Here, Fields, SlotOk, SidecarOk, Puts, Runs, TypeOK
  <2> QED
    BY <1>1, <2>1, SlotsFrame DEF Puts, Runs, TypeOK
<1>5. Keys'
  BY <1>1, <1>2 DEF Puts, Runs, Here, Fields, SlotOk, SidecarOk, Keys, Running, At, StoreIsOurs
<1>6. Joins'
  BY <1>1, <1>2 DEF Puts, Runs, Here, Fields, SlotOk, SidecarOk, Joins, Joining, At, Accepted
<1>7. Configured'
  BY <1>1, <1>2 DEF Puts, Runs, Configured
<1>8. Texts'
  BY <1>1, <1>2 DEF Puts, Runs, Here, Fields, SlotOk, SidecarOk, Texts, Stored, FailedIsNotStored
<1>9. Display'
  BY <1>1, <1>2 DEF Puts, Runs, Here, Fields, SlotOk, SidecarOk, Display, Stored
<1> QED
  BY <1>3, <1>4, <1>5, <1>6, <1>7, <1>8, <1>9

LEMMA StartRunsIInv ==
    ASSUME IInv, NEW w \in Window, Start(w), Starts(w)
    PROVE  IInv'
<1> USE DEF IInv
<1>1. /\ sidecar[w].cmd \in {"join", "sync", "send"} /\ sidecar[w].at = "start"
      /\ Runs(w, sidecar[w].cmd, IF sidecar[w].cmd = "send" THEN "sign" ELSE "dial",
              identity, sidecar[w].text)
      /\ lock = None /\ lock' = w /\ identity \in Window
      /\ sidecar[w].cmd = "join" => held = {} /\ signed = {}
      /\ UNCHANGED <<identity, config, held, signed, verdict, window, shown, job, sent, failed>>
  <2>1. (IF sidecar[w].cmd = "send" THEN "sign" ELSE "dial") \in Stage
    BY DEF Stage
  <2> QED
    BY <2>1, StartEffect DEF Start, Starts
<1>2. Here(w)
  BY IsHere
<1>3. TypeOK'
  BY <1>1, <1>2 DEF TypeOK, Runs
<1>4. Slots'
  <2>1. (SlotOk(w) /\ SidecarOk(w))'
    BY <1>1, <1>2 DEF Here, Fields, SlotOk, SidecarOk, Runs, TypeOK
  <2> QED
    BY <1>1, <2>1, SlotsFrame DEF Runs, TypeOK
<1>5. Keys'
  BY <1>1, <1>2 DEF Runs, Here, Fields, SlotOk, SidecarOk, Keys, Running, At, StoreIsOurs
<1>6. Joins'
  <2>1. \A v \in Window : ~Running(v)
    BY <1>1 DEF Keys, TypeOK
  <2>2. sidecar[w].cmd = "join" => \A v \in Window : ~Joining(v)
    BY <1>1, <2>1, HasFields DEF Running, Joining, Joins, Accepted, Fields, Stage
  <2> QED
    BY <1>1, <1>2, <2>2 DEF Runs, Here, Fields, SlotOk, SidecarOk, Joins, Joining, At, Accepted
<1>7. Configured'
  BY <1>1, <1>2 DEF Runs, Configured
<1>8. Texts'
  BY <1>1, <1>2 DEF Runs, Here, Fields, SlotOk, SidecarOk, Texts, Stored, FailedIsNotStored
<1>9. Display'
  BY <1>1, <1>2 DEF Runs, Here, Fields, SlotOk, SidecarOk, Display, Stored
<1> QED
  BY <1>3, <1>4, <1>5, <1>6, <1>7, <1>8, <1>9

LEMMA StartFailsIInv ==
    ASSUME IInv, NEW w \in Window, Start(w), ~Starts(w)
    PROVE  IInv'
<1> USE DEF IInv
<1>1. /\ sidecar[w].cmd \in {"join", "sync", "send"} /\ sidecar[w].at = "start"
      /\ Runs(w, sidecar[w].cmd, "err", sidecar[w].as, sidecar[w].text)
      /\ UNCHANGED <<identity, config, held, signed, verdict, lock, window, shown, job, sent, failed>>
  BY ProceedEffect DEF Start, Stage
<1>2. Here(w)
  BY IsHere
<1>3. TypeOK'
  BY <1>1, <1>2 DEF TypeOK, Runs
<1>4. Slots'
  <2>1. (SlotOk(w) /\ SidecarOk(w))'
    BY <1>1, <1>2 DEF Here, Fields, SlotOk, SidecarOk, Runs, TypeOK
  <2> QED
    BY <1>1, <2>1, SlotsFrame DEF Runs, TypeOK
<1>5. Keys'
  BY <1>1, <1>2 DEF Runs, Here, Fields, SlotOk, SidecarOk, Keys, Running, At, StoreIsOurs
<1>6. Joins'
  BY <1>1, <1>2 DEF Runs, Here, Fields, SlotOk, SidecarOk, Joins, Joining, At, Accepted
<1>7. Configured'
  BY <1>1, <1>2 DEF Runs, Configured
<1>8. Texts'
  BY <1>1, <1>2 DEF Runs, Here, Fields, SlotOk, SidecarOk, Texts, Stored, FailedIsNotStored
<1>9. Display'
  BY <1>1, <1>2 DEF Runs, Here, Fields, SlotOk, SidecarOk, Display, Stored
<1> QED
  BY <1>3, <1>4, <1>5, <1>6, <1>7, <1>8, <1>9

LEMMA PowerLossIInv ==
    ASSUME IInv, PowerLoss
    PROVE  IInv'
<1> USE DEF IInv
<1>1. /\ window' = [w \in Window |-> IF window[w] = "new" THEN "new" ELSE "closed"]
      /\ shown' = [w \in Window |-> Blank]
      /\ job' = [w \in Window |-> NoJob]
      /\ sidecar' = [w \in Window |-> NoSidecar]
      /\ lock' = None
      /\ UNCHANGED <<identity, config, held, signed, verdict, sent, failed>>
  BY DEF PowerLoss
<1>2. /\ NoSidecar \in Sidecar /\ NoSidecar.cmd = "none" /\ NoSidecar.at = "idle"
      /\ NoSidecar.text = None
      /\ Blank.community = FALSE
      /\ NoJob \in Slot /\ NoJob.kind = "none" /\ NoJob.at = "idle" /\ NoJob.text = None
      /\ NoJob.snapshot = Blank /\ Blank \in Snapshot
  BY NewJobs DEF NoSidecar, Sidecar, Stage, Blank
<1> HIDE DEF IInv
<1>3. TypeOK'
  BY <1>1, <1>2 DEF IInv, TypeOK
<1>4. Slots'
  BY <1>1, <1>2 DEF IInv, Slots, SlotOk, SidecarOk
<1>5. Keys'
  BY <1>1, <1>2 DEF IInv, Keys, Running, At, StoreIsOurs
<1>6. Joins'
  BY <1>1, <1>2 DEF IInv, Joins, Joining, At, Accepted
<1>7. Configured'
  BY <1>1, <1>2 DEF IInv, Configured
<1>8. Texts'
  BY <1>1, <1>2 DEF IInv, Texts, Stored, FailedIsNotStored, TypeOK
<1>9. Display'
  BY <1>1, <1>2 DEF IInv, Display
<1> QED
  BY <1>3, <1>4, <1>5, <1>6, <1>7, <1>8, <1>9 DEF IInv

LEMMA InitIInv == Init => IInv
<1> SUFFICES ASSUME Init
             PROVE  IInv
  OBVIOUS
<1>1. /\ NoSidecar \in Sidecar /\ NoSidecar.cmd = "none" /\ NoSidecar.at = "idle"
      /\ NoSidecar.text = None
      /\ Blank.community = FALSE
      /\ NoJob \in Slot /\ NoJob.kind = "none" /\ NoJob.at = "idle" /\ NoJob.text = None
      /\ NoJob.snapshot = Blank /\ Blank \in Snapshot
  BY NewJobs DEF NoSidecar, Sidecar, Stage, Blank
<1>2. TypeOK
  BY <1>1 DEF Init, TypeOK
<1>3. Slots
  BY <1>1 DEF Init, Slots, SlotOk, SidecarOk
<1>4. Keys
  BY <1>1 DEF Init, Keys, Running, At, StoreIsOurs
<1>5. Joins
  BY <1>1 DEF Init, Joins, Joining, At, Accepted
<1>6. Configured
  BY <1>1 DEF Init, Configured
<1>7. Texts
  BY <1>1 DEF Init, Texts, Stored, FailedIsNotStored
<1>8. Display
  BY <1>1 DEF Init, Display
<1> QED
  BY <1>2, <1>3, <1>4, <1>5, <1>6, <1>7, <1>8 DEF IInv

LEMMA NextIInv == IInv /\ [Next]_vars => IInv'
<1> SUFFICES ASSUME IInv, [Next]_vars
             PROVE  IInv'
  OBVIOUS
<1>1. ASSUME NEW w \in Window,
             \/ Launch(w) \/ Refresh(w) \/ Join(w) \/ Close(w)
             \/ \E t \in Text : Send(w, t)
             \/ Poll(w)
      PROVE  IInv'
  BY <1>1, LaunchIInv, RefreshIInv, JoinIInv, CloseIInv, SendIInv, PollLoadedIInv,
     PollFailedIInv DEF Poll
<1>2. ASSUME NEW w \in Window, Thread(w)
      PROVE  IInv'
  BY <1>2, EnsureCallsIInv, EnsureGoesIInv, ReadInfoIInv, load_configIInv, CallNodeIInv,
     ReturnIInv, TruncateConfigIInv, WriteConfigIInv, list_channelsIInv, list_messagesIInv
     DEF Thread
<1>3. ASSUME NEW w \in Window, Process(w) \/ LoseConnection(w) \/ NetworkError(w)
      PROVE  IInv'
  BY <1>3, InitCheckIInv, InitCreateIInv, InitWriteIInv, StartRunsIInv, StartFailsIInv,
     SendMessageIInv, DialIInv, SyncProgressIInv, SyncEndIInv, BootstrapBeginIInv,
     BootstrapAncestryIInv, StoreAcceptanceIInv, BootstrapAcceptedIInv, JoinFailedIInv,
     LoseConnectionIInv, NetworkErrorIInv DEF Process
<1>4. CASE UNCHANGED vars
  <2> USE <1>4 DEF vars
  <2>1. TypeOK' /\ Slots' /\ Keys'
    BY DEF IInv, TypeOK, Slots, SlotOk, SidecarOk, Keys, Running, At, StoreIsOurs
  <2>2. Joins' /\ Configured'
    BY DEF IInv, Joins, Joining, At, Accepted, Configured
  <2>3. Texts' /\ Display'
    BY DEF IInv, Texts, Stored, FailedIsNotStored, Display
  <2> QED
    BY <2>1, <2>2, <2>3 DEF IInv
<1> QED
  BY <1>1, <1>2, <1>3, <1>4, PowerLossIInv DEF Next

LEMMA AlwaysIInv == Spec => []IInv
BY InitIInv, NextIInv, PTL DEF Spec

----------------------------------------------------------------------------

(***************************************************************************)
(* Type correctness: in particular a sidecar that runs has read an         *)
(* identity, never an identity.json that is still empty.                   *)
(***************************************************************************)
THEOREM TypeCorrect == Spec => []TypeOK
<1>1. IInv => TypeOK
  BY DEF IInv
<1> QED
  BY AlwaysIInv, <1>1, PTL

(***************************************************************************)
(* However many windows and orphaned sidecars race to create identity.json *)
(* everything stored in this directory's name is signed with its keys.     *)
(***************************************************************************)
THEOREM OneIdentity == Spec => []StoreIsOurs
<1>1. IInv => StoreIsOurs
  BY DEF IInv, Keys
<1> QED
  BY AlwaysIInv, <1>1, PTL

(***************************************************************************)
(* client.json names a community, and a window shows its conversation,     *)
(* only when the acceptance is stored, whatever was closed or crashed.     *)
(***************************************************************************)
THEOREM ConfiguredAlwaysJoined == Spec => []ConfiguredIsJoined
<1>1. IInv => ConfiguredIsJoined
  BY DEF IInv, Joins, Configured, ConfiguredIsJoined
<1> QED
  BY AlwaysIInv, <1>1, PTL

(***************************************************************************)
(* A message whose sending was reported to have failed is not stored, so   *)
(* that sending it again does not say it twice.                            *)
(***************************************************************************)
THEOREM FailedNeverStored == Spec => []FailedIsNotStored
<1>1. IInv => FailedIsNotStored
  BY DEF IInv, Texts
<1> QED
  BY AlwaysIInv, <1>1, PTL

(***************************************************************************)
(* A window that synchronizes already displays what it has stored of its   *)
(* own messages, up to those the profile has rejected since: also when     *)
(* other windows and orphaned sidecars bring the events that tell against  *)
(* them between any two steps of its job.                                  *)
(***************************************************************************)
THEOREM AlwaysLocalFirst == Spec => []LocalFirst
<1>1. ASSUME IInv, NEW w \in Window, job[w].at = "sync"
      PROVE  sent[w] \cap Stored \subseteq shown[w].messages \cup disputed
  <2>1. job[w].text = None /\ window[w] = "open"
    BY <1>1 DEF IInv, Slots, SlotOk
  <2> QED
    BY <1>1, <2>1 DEF IInv, Display, Stored
<1>2. IInv => LocalFirst
  BY <1>1 DEF LocalFirst
<1> QED
  BY AlwaysIInv, <1>2, PTL
=============================================================================
