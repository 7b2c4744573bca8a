---------------------------- MODULE UploadsProofs ----------------------------
(***************************************************************************)
(* Folders that sends use stay, their handles are counted, what was        *)
(* forwarded remains and what is gone is cleared, for every set of         *)
(* workspaces, sends, cleanups and folders, and every number of faults,    *)
(* crashes and removals by others.                                         *)
(*                                                                         *)
(* Base is what holds whether or not an ID returns: who owns a folder, who *)
(* is alone in a gate, which handle is open and which file is where.       *)
(* History adds, for IDs that do not return, what a workspace that is gone *)
(* can no longer see happen.                                               *)
(***************************************************************************)
EXTENDS Uploads, FiniteSetTheorems, TLAPS

Phase  == {"new", "gate", "entered", "validated", "recording", "ensured",
           "reading", "staged", "forwarding", "rollback", "release", "done"}
Result == {"none", "forwarded", "unknown", "occupied", "not_sent", "lost"}
Send   == [at : Phase, ws : Workspaces \cup {None}, dir : Folders \cup {None}, stopped : BOOLEAN,
           result : Result]
Cleanup == [at : {"none", "begun", "stopped", "announced", "removing", "clearing"}, ws : Workspaces \cup {None}]
Folder  == [there : BOOLEAN, entries : SUBSET (Sends \cup {Marker})]

\* The types, but for the number of a handle's users.
Types ==
    /\ process \in {"down", "up", "closing", "stopping"}
    /\ home \subseteq Workspaces /\ observing \in BOOLEAN
    /\ watch \in [observed : BOOLEAN, workspaces : SUBSET Workspaces]
    /\ records \in [Workspaces -> Folders \cup {None}]
    /\ gate \in [Workspaces -> Gate]
    /\ handle \in [Folders -> [open : BOOLEAN, users : Int]]
    /\ send \in [Sends -> Send]
    /\ cleaner \in [Cleaners -> Cleanup]
    /\ closing \in [stop : SUBSET Workspaces, lock : SUBSET Workspaces, done : SUBSET Workspaces]
    /\ disk \in [records : [Workspaces -> Folders \cup {None}], folders : [Folders -> Folder]]
    /\ made \subseteq Folders /\ life \in [Workspaces -> {"new", "present", "gone"}] /\ cleared \subseteq Sends
    /\ published \in 0 .. MaxPublications /\ faults \in 0 .. MaxFaults
    /\ crashes \in 0 .. MaxCrashes /\ vanished \in 0 .. MaxVanished

\* Where a send has a folder, and where its answer is open.
Holding   == {"recording", "ensured", "reading", "staged", "forwarding", "rollback", "release"}
Answering == {"new", "gate", "entered", "validated", "recording", "ensured", "reading", "staged", "forwarding"}
Kept      == {"forwarded", "unknown"}
Failed    == {"not_sent", "occupied"}

PhaseOK(q) ==
    /\ q.at = "new" <=> q.ws = None
    /\ q.at \in Holding <=> q.dir # None
    /\ q.at \in Answering <=> q.result = "none"
    /\ q.at = "rollback" => q.result \in Failed
    /\ q.at = "release" => q.result \in Kept \cup Failed
Phases == \A s \in Sends : PhaseOK(send[s])

\* The setup mutex is held by the send that records a folder.
Setups == \A w \in Workspaces, s \in Sends :
              gate[w].setup = s <=> send[s].at = "recording" /\ send[s].ws = w

\* Nothing of a process is left when it is down.
Down ==
    process = "down" =>
        /\ home = {} /\ ~observing /\ watch = [observed |-> FALSE, workspaces |-> {}]
        /\ \A w \in Workspaces : gate[w] = NewGate(None) /\ records[w] = None
        /\ \A s \in Sends : send[s].at \in {"new", "done"}
        /\ \A c \in Cleaners : cleaner[c] = NoCleanup

Associations == \A w \in Workspaces : /\ gate[w].association = records[w]
                                      /\ gate[w].directory \in {None, records[w]}

\* The folders that are, or may be, a workspace's.
Owns(w, f) == \/ records[w] = f \/ disk.records[w] = f
              \/ \E s \in Sends : send[s].ws = w /\ send[s].dir = f

\* No folder is two workspaces', and none is made twice.
Owners ==
    \A f \in Folders :
        /\ \A v, w \in Workspaces : Owns(v, f) /\ Owns(w, f) => v = w
        /\ \A w \in Workspaces : Owns(w, f) => f \in made
        /\ f \notin made => disk.folders[f] = Absent

\* A folder that is being recorded is nobody else's, and replaces one that is
\* no longer verified.
Fresh ==
    \A s \in Sends : send[s].at = "recording" =>
        /\ \A w \in Workspaces : records[w] # send[s].dir /\ disk.records[w] # send[s].dir
        /\ \A r \in Sends : r # s => send[r].dir # send[s].dir
        /\ ~Verified(records[send[s].ws])

\* A gate for which a folder is recorded has no other one open.
Bare == \A s \in Sends : send[s].at = "recording" => gate[send[s].ws].directory = None

\* A cleanup that has begun to remove is alone in its gate.
Cleanups ==
    \A c \in Cleaners :
        /\ cleaner[c].at = "none" <=> cleaner[c].ws = None
        /\ cleaner[c].at \in {"removing", "clearing"} => Inside(cleaner[c].ws) = {}
        /\ cleaner[c].at = "removing" => gate[cleaner[c].ws].directory # None
        /\ cleaner[c].at = "clearing" => /\ gate[cleaner[c].ws].directory = None
                                         /\ records[cleaner[c].ws] # None /\ ~Exists(records[cleaner[c].ws])
        /\ \A d \in Cleaners :
              c # d /\ c \in Excluding(cleaner[c].ws) /\ d \in Excluding(cleaner[d].ws)
                  => cleaner[c].ws # cleaner[d].ws

Closed ==
    /\ process # "stopping" => closing = NotClosing
    /\ process = "stopping" => \A c \in Cleaners : cleaner[c].at = "none"
    /\ \A w \in (closing.lock \ closing.stop) \cup closing.done : ~gate[w].open
    /\ \A w \in closing.done : Inside(w) = {} /\ gate[w].directory = None

\* Which file may be where.
Files ==
    \A f \in Folders :
         /\ ~disk.folders[f].there => disk.folders[f].entries = {}
         /\ \A s \in Sends : s \in disk.folders[f].entries =>
              /\ \/ send[s].at \in {"reading", "staged", "forwarding", "rollback", "release"} /\ send[s].dir = f
                 \/ send[s].at = "done"
              /\ \A w \in Workspaces : Owns(w, f) => send[s].ws = w
              /\ faults = 0 /\ send[s].at \in {"release", "done"} => send[s].result \notin Failed

\* Unless something else removes folders, those in use are there with their files.
Present ==
    vanished = 0 =>
         /\ \A s \in Sends : /\ send[s].dir # None => Verified(send[s].dir)
                             /\ send[s].at \in {"reading", "staged", "forwarding"} => s \in disk.folders[send[s].dir].entries
         /\ \A w \in Workspaces : gate[w].directory # None => Exists(gate[w].directory)

Base == /\ Types /\ Phases /\ Setups /\ Down /\ Associations /\ Owners /\ Fresh /\ Bare
        /\ Cleanups /\ Closed /\ HandlesAreHeld /\ Files /\ Present

\* Where a send has no folder yet, or no longer.
Outside == {"new", "gate", "entered", "done"}

\* What Home published and what the manager has observed of it.
Lives ==
    /\ \A w \in Workspaces :
         /\ w \in home => life[w] = "present"
         /\ observing /\ life[w] = "present" => w \in home
         /\ (\/ w \in watch.workspaces \/ records[w] # None \/ disk.records[w] # None
             \/ \E s \in Sends : send[s].ws = w) => life[w] # "new"
    /\ process = "up" /\ ~observing => IF watch.observed THEN watch.workspaces = home ELSE home = {}
    /\ process = "up" /\ ~watch.observed => \A s \in Sends : send[s].at \in {"new", "done"} \/ send[s].ws \in home

\* A workspace that is cleaned up is gone, has one cleanup, and gets no send.
Crews ==
    \A c \in Cleaners : cleaner[c].at # "none" =>
        /\ watch.observed /\ cleaner[c].ws \notin watch.workspaces /\ life[cleaner[c].ws] = "gone"
        /\ \A d \in Cleaners : cleaner[d].ws = cleaner[c].ws => d = c
        /\ \A s \in Sends : send[s].ws = cleaner[c].ws /\ (send[s].at = "forwarding" \/ send[s].result \in Kept)
                            => s \in cleared
        /\ cleaner[c].at # "begun" =>
             /\ ~gate[cleaner[c].ws].open
             /\ \A s \in Inside(cleaner[c].ws) : send[s].stopped \/ send[s].at \in {"forwarding", "rollback", "release"}

\* A folder has lost its marker only to a cleanup.
Marks ==
    \A f \in Folders, w \in Workspaces :
        Exists(f) /\ ~Verified(f) /\ Owns(w, f) =>
            life[w] = "gone" /\ \A s \in Sends : send[s].ws = w => send[s].at \in Outside

\* A folder that is being recorded has no file yet.
Blank == \A s \in Sends : send[s].at = "recording" => disk.folders[send[s].dir].entries \subseteq {Marker}

\* A folder that is there has its record, unless its process ended first.
Recorded ==
    (\A s \in Sends : send[s].result # "lost") =>
        \A f \in Folders : Exists(f) =>
            \/ \E w \in Workspaces : disk.records[w] = f /\ (Running => records[w] = f)
            \/ \E s \in Sends : send[s].dir = f /\ send[s].at = "recording"

\* As long as no call failed, the running manager's records are those on disk.
Agreed == faults = 0 /\ Running => disk.records = records

\* What is left of a workspace whose cleanup is done.
Gone ==
    \A w \in Workspaces :
        /\ process = "up" /\ watch.observed /\ w \notin home \cup watch.workspaces
        /\ faults = 0 /\ vanished = 0
        /\ \A c \in Cleaners : cleaner[c].ws # w
        => /\ \A s \in Sends : send[s].ws = w => send[s].at \in Outside
           /\ records[w] # None => Exists(records[w]) /\ ~Verified(records[w])

History == Lives /\ Crews /\ Marks /\ Blank /\ Recorded /\ Agreed /\ Gone /\ ForwardedFilesRemain

-----------------------------------------------------------------------------
(***************************************************************************)
(* What each step does.                                                    *)
(***************************************************************************)

\* A step that changes one send.
Only(s) == send' \in [Sends -> Send] /\ \A r \in Sends : r # s => send'[r] = send[r]

\* A step that moves one send on, with the folder that it has.
Walks(s) ==
    /\ UNCHANGED <<process, memory, disk, made, history, bounds>>
    /\ Only(s) /\ send[s].at \notin {"new", "recording", "done", "release"}
    /\ send'[s].ws = send[s].ws /\ send'[s].dir = send[s].dir /\ send'[s].stopped = send[s].stopped

\* A new record of a send.
LEMMA OneSend ==
    ASSUME Types, NEW s \in Sends, NEW q \in Send, send' = [send EXCEPT ![s] = q]
    PROVE  Only(s) /\ send'[s] = q
BY DEF Types, Only

LEMMA EnterDoes ==
    ASSUME Types, NEW s \in Sends, SendEnter(s)
    PROVE  /\ Walks(s) /\ send[s].at = "gate" /\ Excluding(send[s].ws) = {}
           /\ \/ gate[send[s].ws].open /\ send'[s].at = "entered" /\ send'[s].result = send[s].result
              \/ send'[s].at = "done" /\ send'[s].result = "not_sent"
<1> DEFINE q == IF gate[send[s].ws].open THEN [send[s] EXCEPT !.at = "entered"]
                ELSE [send[s] EXCEPT !.at = "done", !.result = "not_sent"]
<1>0. send[s] \in Send /\ send \in [Sends -> Send]
  BY DEF Types
<1>1. /\ q \in Send /\ q.ws = send[s].ws /\ q.dir = send[s].dir /\ q.stopped = send[s].stopped
      /\ \/ gate[send[s].ws].open /\ q.at = "entered" /\ q.result = send[s].result
         \/ q.at = "done" /\ q.result = "not_sent"
  BY <1>0 DEF Send, Phase, Result
<1>2. send' = [send EXCEPT ![s] = q]
  BY <1>0 DEF SendEnter
<1> HIDE DEF q
<1> QED
  BY <1>1, <1>2, OneSend DEF SendEnter, Walks

LEMMA ValidateDoes ==
    ASSUME Types, NEW s \in Sends, SendValidate(s)
    PROVE  /\ Walks(s) /\ send[s].at = "entered"
           /\ \/ /\ send'[s].at = "validated" /\ send'[s].result = send[s].result
                 /\ send[s].ws \in home /\ ~send[s].stopped
              \/ send'[s].at = "done" /\ send'[s].result = "not_sent"
<1>0. send[s] \in Send /\ send \in [Sends -> Send]
  BY DEF Types
<1>1. PICK agent \in BOOLEAN :
        send' = [send EXCEPT ![s] =
           IF ~@.stopped /\ @.ws \in home /\ agent THEN [@ EXCEPT !.at = "validated"]
           ELSE [@ EXCEPT !.at = "done", !.result = "not_sent"]]
  BY DEF SendValidate
<1> DEFINE q == IF ~send[s].stopped /\ send[s].ws \in home /\ agent THEN [send[s] EXCEPT !.at = "validated"]
                ELSE [send[s] EXCEPT !.at = "done", !.result = "not_sent"]
<1>2. /\ q \in Send /\ q.ws = send[s].ws /\ q.dir = send[s].dir /\ q.stopped = send[s].stopped
      /\ \/ q.at = "validated" /\ q.result = send[s].result /\ send[s].ws \in home /\ ~send[s].stopped
         \/ q.at = "done" /\ q.result = "not_sent"
  BY <1>0 DEF Send, Phase, Result
<1>3. send' = [send EXCEPT ![s] = q]
  BY <1>0, <1>1
<1> HIDE DEF q
<1> QED
  BY <1>2, <1>3, OneSend DEF SendValidate, Walks

LEMMA ReadDoes ==
    ASSUME Types, NEW s \in Sends, SendRead(s)
    PROVE  /\ Walks(s) /\ send[s].at = "reading"
           /\ \/ send'[s].at = "staged" /\ send'[s].result = send[s].result
              \/ send'[s].at = "rollback" /\ send'[s].result = "not_sent"
<1> DEFINE q == [send[s] EXCEPT !.at = "staged"]
           p == [send[s] EXCEPT !.at = "rollback", !.result = "not_sent"]
<1>0. send[s] \in Send /\ send \in [Sends -> Send]
  BY DEF Types
<1>1. /\ q \in Send /\ q.ws = send[s].ws /\ q.dir = send[s].dir /\ q.stopped = send[s].stopped
      /\ q.at = "staged" /\ q.result = send[s].result
      /\ p \in Send /\ p.ws = send[s].ws /\ p.dir = send[s].dir /\ p.stopped = send[s].stopped
      /\ p.at = "rollback" /\ p.result = "not_sent"
  BY <1>0 DEF Send, Phase, Result
<1>2. send' = [send EXCEPT ![s] = q] \/ send' = [send EXCEPT ![s] = p]
  BY <1>0 DEF SendRead
<1> HIDE DEF q, p
<1> QED
  BY <1>1, <1>2, OneSend DEF SendRead, Walks

LEMMA ForwardDoes ==
    ASSUME Types, NEW s \in Sends, SendForward(s)
    PROVE  /\ Walks(s) /\ send[s].at = "staged"
           /\ \/ /\ send'[s].at = "forwarding" /\ send'[s].result = send[s].result
                 /\ send[s].ws \in home /\ ~send[s].stopped
              \/ send'[s].at = "rollback" /\ send'[s].result = "not_sent"
<1> DEFINE q == [send[s] EXCEPT !.at = "forwarding"]
           p == [send[s] EXCEPT !.at = "rollback", !.result = "not_sent"]
<1>0. send[s] \in Send /\ send \in [Sends -> Send]
  BY DEF Types
<1>1. /\ q \in Send /\ q.ws = send[s].ws /\ q.dir = send[s].dir /\ q.stopped = send[s].stopped
      /\ q.at = "forwarding" /\ q.result = send[s].result
      /\ p \in Send /\ p.ws = send[s].ws /\ p.dir = send[s].dir /\ p.stopped = send[s].stopped
      /\ p.at = "rollback" /\ p.result = "not_sent"
  BY <1>0 DEF Send, Phase, Result
<1>2. \/ send' = [send EXCEPT ![s] = q] /\ send[s].ws \in home /\ ~send[s].stopped
      \/ send' = [send EXCEPT ![s] = p]
  BY <1>0 DEF SendForward
<1> HIDE DEF q, p
<1> QED
  BY <1>1, <1>2, OneSend DEF SendForward, Walks

LEMMA ResultDoes ==
    ASSUME Types, NEW s \in Sends, NEW result \in {"forwarded", "unknown", "occupied", "not_sent"}, SendResult(s, result)
    PROVE  /\ Walks(s) /\ send[s].at = "forwarding" /\ send'[s].result = result
           /\ send'[s].at = IF result \in Failed THEN "rollback" ELSE "release"
<1> DEFINE place == IF result \in {"not_sent", "occupied"} THEN "rollback" ELSE "release"
           q == [send[s] EXCEPT !.result = result, !.at = place]
<1>0. send[s] \in Send /\ send \in [Sends -> Send]
  BY DEF Types
<1>1. place \in Phase /\ place = IF result \in Failed THEN "rollback" ELSE "release"
  BY DEF Phase, Failed
<1>2. send' = [send EXCEPT ![s] = [send[s] EXCEPT !.result = result, !.at = place]]
  BY <1>0 DEF SendResult
<1> HIDE DEF place
<1>3. /\ q \in Send /\ q.ws = send[s].ws /\ q.dir = send[s].dir /\ q.stopped = send[s].stopped
      /\ q.at = place /\ q.result = result
  BY <1>0, <1>1 DEF Send, Result
<1>4. send' = [send EXCEPT ![s] = q]
  BY <1>2
<1> HIDE DEF q
<1> QED
  BY <1>1, <1>3, <1>4, OneSend DEF SendResult, Walks

\* A step that changes one gate, one handle, or one folder and the records.
Handle == [open : BOOLEAN, users : Int]
OneGate(w)   == gate' \in [Workspaces -> Gate] /\ \A v \in Workspaces : v # w => gate'[v] = gate[v]
OneHandle(f) == handle' \in [Folders -> Handle] /\ \A g \in Folders : g # f => handle'[g] = handle[g]
OneFolder(f) == /\ disk' \in [records : [Workspaces -> Folders \cup {None}], folders : [Folders -> Folder]]
                /\ \A g \in Folders : g # f => disk'.folders[g] = disk.folders[g]
OneRecord(w) == /\ records' \in [Workspaces -> Folders \cup {None}] /\ disk' \in [records : [Workspaces -> Folders \cup {None}], folders : [Folders -> Folder]]
                /\ \A v \in Workspaces : v # w => records'[v] = records[v] /\ disk'.records[v] \in {records[v], disk.records[v]}

LEMMA TheGate ==
    ASSUME Types, NEW w \in Workspaces, NEW g \in Gate, gate' = [gate EXCEPT ![w] = g]
    PROVE  OneGate(w) /\ gate'[w] = g
BY DEF Types, OneGate

LEMMA TheHandle ==
    ASSUME Types, NEW f \in Folders, NEW h \in Handle, handle' = [handle EXCEPT ![f] = h]
    PROVE  OneHandle(f) /\ handle'[f] = h
BY DEF Types, OneHandle, Handle

LEMMA TheFolder ==
    ASSUME Types, NEW f \in Folders, NEW d \in Folder, disk' = [disk EXCEPT !.folders[f] = d]
    PROVE  OneFolder(f) /\ disk'.folders[f] = d /\ disk'.records = disk.records
BY DEF Types, OneFolder

\* A send that holds a gate is one of a workspace.
LEMMA SendHasGate ==
    ASSUME Types, Phases, NEW s \in Sends, send[s].at # "new"
    PROVE  send[s].ws \in Workspaces
BY DEF Types, Phases, PhaseOK, Send

LEMMA SendHasFolder ==
    ASSUME Types, Phases, NEW s \in Sends, send[s].at \in Holding
    PROVE  send[s].dir \in Folders
BY DEF Types, Phases, PhaseOK, Send

LEMMA BeginDoes ==
    ASSUME Types, NEW s \in Sends, NEW w \in Workspaces, SendBegin(s, w)
    PROVE  /\ UNCHANGED <<process, home, observing, watch, records, handle, cleaner, closing, disk, made, history, bounds>>
           /\ send[s].at = "new" /\ Running /\ w \in home /\ Only(s) /\ send'[s].at = "gate" /\ send'[s].ws = w
           /\ send'[s].dir = send[s].dir /\ send'[s].result = send[s].result /\ send'[s].stopped = send[s].stopped
           /\ OneGate(w) /\ gate'[w] = [gate[w] EXCEPT !.known = TRUE]
<1> DEFINE q == [send[s] EXCEPT !.at = "gate", !.ws = w]
           g == [gate[w] EXCEPT !.known = TRUE]
<1>0. send[s] \in Send /\ send \in [Sends -> Send] /\ gate[w] \in Gate /\ gate \in [Workspaces -> Gate]
  BY DEF Types
<1>1. /\ q \in Send /\ q.ws = w /\ q.dir = send[s].dir /\ q.stopped = send[s].stopped
      /\ q.at = "gate" /\ q.result = send[s].result
  BY <1>0 DEF Send, Phase
<1>2. g \in Gate
  BY <1>0 DEF Gate
<1>3. send' = [send EXCEPT ![s] = q] /\ gate' = [gate EXCEPT ![w] = g]
  BY <1>0 DEF SendBegin
<1>4. OneGate(w) /\ gate'[w] = g
  BY <1>2, <1>3, TheGate
<1> HIDE DEF q, g
<1>5. Only(s) /\ send'[s] = q
  BY <1>1, <1>3, OneSend
<1> QED
  BY <1>1, <1>4, <1>5 DEF SendBegin, g

\* The folder that a gate has, or had.
Old(w) == IF gate[w].directory # None THEN gate[w].directory ELSE gate[w].association

Reuses(s, w, f) ==
    /\ UNCHANGED <<process, home, observing, watch, records, cleaner, closing, disk, made, history, bounds>>
    /\ w = send[s].ws /\ f = Old(w) /\ Verified(f) /\ gate[w].setup = None
    /\ send[s].at = "validated" /\ Only(s) /\ send'[s].at = "ensured" /\ send'[s].dir = f
    /\ send'[s].ws = w /\ send'[s].result = send[s].result /\ send'[s].stopped = send[s].stopped
    /\ OneGate(w) /\ gate'[w] = [gate[w] EXCEPT !.directory = f]
    /\ OneHandle(f) /\ handle'[f].open /\ handle'[f].users = handle[f].users + 1

LEMMA ReuseDoes ==
    ASSUME Types, Phases, NEW s \in Sends, SendReuse(s)
    PROVE  \E w \in Workspaces, f \in Folders : Reuses(s, w, f)
<1> USE DEF Reuses
<1>1. PICK w \in Workspaces : w = send[s].ws
  BY SendHasGate DEF SendReuse
<1>2. PICK f \in Folders : f = Old(w)
  BY <1>1 DEF SendReuse, Old, Verified, Exists, Types, Gate
<1> DEFINE q == [send[s] EXCEPT !.at = "ensured", !.dir = f]
           g == [gate[w] EXCEPT !.directory = f]
           h == [open |-> TRUE, users |-> handle[f].users + 1]
<1>0. /\ send[s] \in Send /\ send \in [Sends -> Send] /\ gate[w] \in Gate /\ gate \in [Workspaces -> Gate]
      /\ handle[f] \in Handle /\ handle \in [Folders -> Handle]
  BY DEF Types, Handle
<1>3. /\ send[s].at = "validated" /\ SetupFree(w) /\ Verified(f)
      /\ gate' = [gate EXCEPT ![w].directory = f]
      /\ handle' = [handle EXCEPT ![f] = [open |-> TRUE, users |-> @.users + 1]]
      /\ send' = [send EXCEPT ![s].at = "ensured", ![s].dir = f]
      /\ UNCHANGED <<process, home, observing, watch, records, cleaner, closing, disk, made, history, bounds>>
  BY <1>1, <1>2 DEF SendReuse, Old
<1>4. /\ q \in Send /\ q.ws = w /\ q.dir = f /\ q.stopped = send[s].stopped
      /\ q.at = "ensured" /\ q.result = send[s].result
  BY <1>0, <1>1 DEF Send, Phase
<1>5. g \in Gate /\ h \in Handle /\ h.open /\ h.users = handle[f].users + 1
  BY <1>0 DEF Gate, Handle
<1>6. send' = [send EXCEPT ![s] = q] /\ gate' = [gate EXCEPT ![w] = g] /\ handle' = [handle EXCEPT ![f] = h]
  BY <1>0, <1>3
<1>7. OneGate(w) /\ gate'[w] = g
  BY <1>5, <1>6, TheGate
<1> HIDE DEF q, h
<1>8. Only(s) /\ send'[s] = q
  BY <1>4, <1>6, OneSend
<1>9. OneHandle(f) /\ handle'[f] = h
  BY <1>5, <1>6, TheHandle
<1> QED
  BY <1>1, <1>2, <1>3, <1>4, <1>5, <1>7, <1>8, <1>9 DEF SetupFree

Reserves(s, f) ==
    /\ UNCHANGED <<process, memory, made, history, bounds>>
    /\ send[s].at = "ensured" /\ f = send[s].dir
    /\ Only(s) /\ send'[s].ws = send[s].ws /\ send'[s].dir = f /\ send'[s].stopped = send[s].stopped
    /\ OneFolder(f) /\ disk'.records = disk.records
    /\ \/ /\ Verified(f) /\ send'[s].at = "reading" /\ send'[s].result = send[s].result
          /\ disk'.folders[f] = [disk.folders[f] EXCEPT !.entries = @ \cup {s}]
       \/ /\ send'[s].at = "release" /\ send'[s].result = "not_sent"
          /\ disk'.folders[f] = disk.folders[f] /\ (~Verified(f) \/ send[s].stopped)

LEMMA ReserveDoes ==
    ASSUME Types, Phases, NEW s \in Sends, SendReserve(s)
    PROVE  \E f \in Folders : Reserves(s, f)
<1> USE DEF Reserves
<1>1. PICK f \in Folders : f = send[s].dir
  BY SendHasFolder DEF SendReserve, Holding
<1> DEFINE q == [send[s] EXCEPT !.at = "reading"]
           p == [send[s] EXCEPT !.at = "release", !.result = "not_sent"]
           d == [disk.folders[f] EXCEPT !.entries = @ \cup {s}]
<1>0. /\ send[s] \in Send /\ send \in [Sends -> Send] /\ disk.folders[f] \in Folder
      /\ disk \in [records : [Workspaces -> Folders \cup {None}], folders : [Folders -> Folder]]
  BY DEF Types
<1>2. /\ q \in Send /\ q.ws = send[s].ws /\ q.dir = send[s].dir /\ q.stopped = send[s].stopped
      /\ q.at = "reading" /\ q.result = send[s].result
      /\ p \in Send /\ p.ws = send[s].ws /\ p.dir = send[s].dir /\ p.stopped = send[s].stopped
      /\ p.at = "release" /\ p.result = "not_sent"
  BY <1>0 DEF Send, Phase, Result
<1>3. d \in Folder
  BY <1>0 DEF Folder
<1>4. \/ send' = [send EXCEPT ![s] = q] /\ Verified(f) /\ disk' = [disk EXCEPT !.folders[f] = d]
      \/ send' = [send EXCEPT ![s] = p] /\ UNCHANGED disk /\ (~Verified(f) \/ send[s].stopped)
  BY <1>0, <1>1 DEF SendReserve
<1>5. CASE send' = [send EXCEPT ![s] = q] /\ Verified(f) /\ disk' = [disk EXCEPT !.folders[f] = d]
  <2>1. OneFolder(f) /\ disk'.folders[f] = d /\ disk'.records = disk.records
    BY <1>3, <1>5, TheFolder
  <2> HIDE DEF q
  <2>2. Only(s) /\ send'[s] = q
    BY <1>2, <1>5, OneSend
  <2> QED
    BY <1>1, <1>2, <1>5, <2>1, <2>2 DEF SendReserve
<1>6. CASE send' = [send EXCEPT ![s] = p] /\ UNCHANGED disk /\ (~Verified(f) \/ send[s].stopped)
  <2> HIDE DEF p
  <2>2. Only(s) /\ send'[s] = p
    BY <1>2, <1>6, OneSend
  <2>3. OneFolder(f)
    BY <1>0, <1>6 DEF OneFolder
  <2> QED
    BY <1>1, <1>2, <1>6, <2>2, <2>3 DEF SendReserve
<1> QED
  BY <1>4, <1>5, <1>6

RollsBack(s, f) ==
    /\ UNCHANGED <<process, memory, made, history, published, crashes, vanished>>
    /\ send[s].at = "rollback" /\ f = send[s].dir /\ faults' \in 0 .. MaxFaults
    /\ Only(s) /\ send'[s].ws = send[s].ws /\ send'[s].dir = f /\ send'[s].stopped = send[s].stopped
    /\ send'[s].at = "release" /\ send'[s].result = send[s].result
    /\ OneFolder(f) /\ disk'.records = disk.records /\ disk'.folders[f] \in Folder
    /\ disk'.folders[f].there = disk.folders[f].there
    /\ disk'.folders[f].entries \in {disk.folders[f].entries, disk.folders[f].entries \ {s}}
    /\ \/ faults' = faults /\ (handle[f].open => disk'.folders[f].entries = disk.folders[f].entries \ {s})
       \/ faults' = faults + 1

LEMMA RollbackDoes ==
    ASSUME Types, Phases, NEW s \in Sends, SendRollback(s)
    PROVE  \E f \in Folders : RollsBack(s, f)
<1> USE DEF RollsBack
<1>1. PICK f \in Folders : f = send[s].dir
  BY SendHasFolder DEF SendRollback, Holding
<1> DEFINE left == IF handle[f].open THEN disk.folders[f].entries \ {s} ELSE disk.folders[f].entries
           q == [send[s] EXCEPT !.at = "release"]
           d == [disk.folders[f] EXCEPT !.entries = left]
<1>0. /\ send[s] \in Send /\ send \in [Sends -> Send] /\ disk.folders[f] \in Folder
      /\ disk \in [records : [Workspaces -> Folders \cup {None}], folders : [Folders -> Folder]]
      /\ faults \in 0 .. MaxFaults /\ MaxFaults \in Nat
  BY UploadBoundsAreNaturals DEF Types
<1>2. /\ q \in Send /\ q.ws = send[s].ws /\ q.dir = send[s].dir /\ q.stopped = send[s].stopped
      /\ q.at = "release" /\ q.result = send[s].result
  BY <1>0 DEF Send, Phase
<1>3. /\ d \in Folder /\ d.there = disk.folders[f].there
      /\ d.entries \in {disk.folders[f].entries, disk.folders[f].entries \ {s}}
      /\ handle[f].open => d.entries = disk.folders[f].entries \ {s}
  BY <1>0 DEF Folder
<1>4. /\ send' = [send EXCEPT ![s] = q]
      /\ \/ disk' = [disk EXCEPT !.folders[f] = d] /\ UNCHANGED faults
         \/ UNCHANGED disk /\ faults' = faults + 1 /\ faults < MaxFaults
  BY <1>0, <1>1 DEF SendRollback, Fault
<1> HIDE DEF q, d
<1>5. Only(s) /\ send'[s] = q
  BY <1>2, <1>4, OneSend
<1>6. CASE disk' = [disk EXCEPT !.folders[f] = d] /\ UNCHANGED faults
  <2>1. OneFolder(f) /\ disk'.folders[f] = d /\ disk'.records = disk.records
    BY <1>3, <1>6, TheFolder
  <2> QED
    BY <1>0, <1>1, <1>2, <1>3, <1>5, <1>6, <2>1 DEF SendRollback
<1>7. CASE UNCHANGED disk /\ faults' = faults + 1 /\ faults < MaxFaults
  <2>1. OneFolder(f) /\ faults' \in 0 .. MaxFaults
    BY <1>0, <1>7 DEF OneFolder
  <2> QED
    BY <1>0, <1>1, <1>2, <1>5, <1>7, <2>1 DEF SendRollback
<1> QED
  BY <1>4, <1>6, <1>7

\* The handle that a gate gives up closes at once without users.
Drops(w) == \A g \in Folders :
    IF g = gate[w].directory /\ handle[g].users = 0 THEN handle'[g] = NoHandle ELSE handle'[g] = handle[g]

LEMMA DroppedHandles ==
    ASSUME Types, NEW w \in Workspaces
    PROVE  /\ dropped(gate[w].directory) \in [Folders -> Handle]
           /\ \A g \in Folders : dropped(gate[w].directory)[g] =
                 IF g = gate[w].directory /\ handle[g].users = 0 THEN NoHandle ELSE handle[g]
<1>0. handle \in [Folders -> Handle] /\ gate[w].directory \in Folders \cup {None}
  BY DEF Types, Handle, Gate
<1>1. NoHandle \in Handle
  BY DEF NoHandle, Handle
<1> QED
  BY <1>0, <1>1, NothingIsNone DEF dropped

Creates(s, f, w) ==
    /\ UNCHANGED <<process, home, observing, watch, records, cleaner, closing, history, published, crashes, vanished>>
    /\ w = send[s].ws /\ send[s].at = "validated" /\ gate[w].setup = None /\ ~Verified(Old(w))
    /\ f \notin made /\ made' = made \cup {f} /\ faults' \in 0 .. MaxFaults
    /\ Only(s) /\ send'[s].ws = w /\ send'[s].stopped = send[s].stopped
    /\ OneGate(w) /\ handle' \in [Folders -> Handle]
    /\ OneFolder(f) /\ disk'.records = disk.records
    /\ \A g \in Folders : g # f =>
          IF g = gate[w].directory /\ handle[g].users = 0 THEN handle'[g] = NoHandle ELSE handle'[g] = handle[g]
    /\ \/ /\ send'[s].at = "recording" /\ send'[s].dir = f /\ send'[s].result = send[s].result
          /\ gate'[w] = [gate[w] EXCEPT !.directory = None, !.setup = s]
          /\ handle'[f] = [open |-> TRUE, users |-> 0] /\ faults' = faults
          /\ disk'.folders[f] = [there |-> TRUE, entries |-> {Marker}]
       \/ /\ send'[s].at = "done" /\ send'[s].dir = send[s].dir /\ send'[s].result = "not_sent"
          /\ gate'[w] = [gate[w] EXCEPT !.directory = None] /\ Drops(w)
          /\ faults' = faults + 1 /\ disk' = disk

LEMMA CreateDoes ==
    ASSUME Types, Phases, NEW s \in Sends, NEW f \in Folders, SendCreate(s, f)
    PROVE  \E w \in Workspaces : Creates(s, f, w)
<1> USE DEF Creates
<1>1. PICK w \in Workspaces : w = send[s].ws
  BY SendHasGate DEF SendCreate
<1> DEFINE q == [send[s] EXCEPT !.at = "recording", !.dir = f]
           p == [send[s] EXCEPT !.at = "done", !.result = "not_sent"]
           g == [gate[w] EXCEPT !.directory = None, !.setup = s]
           k == [gate[w] EXCEPT !.directory = None]
           h == [open |-> TRUE, users |-> 0]
           d == [there |-> TRUE, entries |-> {Marker}]
           less == dropped(gate[w].directory)
<1>0. /\ send[s] \in Send /\ send \in [Sends -> Send] /\ gate[w] \in Gate /\ gate \in [Workspaces -> Gate]
      /\ disk \in [records : [Workspaces -> Folders \cup {None}], folders : [Folders -> Folder]]
      /\ faults \in 0 .. MaxFaults /\ MaxFaults \in Nat
  BY UploadBoundsAreNaturals DEF Types
<1>2. /\ q \in Send /\ q.ws = w /\ q.dir = f /\ q.stopped = send[s].stopped
      /\ q.at = "recording" /\ q.result = send[s].result
      /\ p \in Send /\ p.ws = w /\ p.dir = send[s].dir /\ p.stopped = send[s].stopped
      /\ p.at = "done" /\ p.result = "not_sent"
  BY <1>0, <1>1 DEF Send, Phase, Result
<1>3. g \in Gate /\ k \in Gate /\ h \in Handle /\ d \in Folder
  <2>1. g \in Gate /\ k \in Gate
    BY <1>0 DEF Gate
  <2>2. h \in Handle /\ d \in Folder
    BY DEF Handle, Folder
  <2> QED
    BY <2>1, <2>2
<1>4. /\ less \in [Folders -> Handle]
      /\ \A x \in Folders : less[x] = IF x = gate[w].directory /\ handle[x].users = 0 THEN NoHandle ELSE handle[x]
  BY DroppedHandles
<1> HIDE DEF less
<1>5. /\ UNCHANGED <<process, home, observing, watch, records, cleaner, closing, history, published, crashes, vanished>>
      /\ send[s].at = "validated" /\ SetupFree(w) /\ ~Verified(Old(w)) /\ f \notin made /\ made' = made \cup {f}
      /\ \/ /\ handle' = [less EXCEPT ![f] = h] /\ disk' = [disk EXCEPT !.folders[f] = d]
            /\ gate' = [gate EXCEPT ![w].directory = None, ![w].setup = s]
            /\ send' = [send EXCEPT ![s].at = "recording", ![s].dir = f] /\ UNCHANGED faults
         \/ /\ Fault /\ handle' = less /\ gate' = [gate EXCEPT ![w].directory = None]
            /\ send' = [send EXCEPT ![s].at = "done", ![s].result = "not_sent"] /\ UNCHANGED disk
  BY <1>1 DEF SendCreate, Old, less
<1>6. CASE /\ handle' = [less EXCEPT ![f] = h] /\ disk' = [disk EXCEPT !.folders[f] = d]
           /\ gate' = [gate EXCEPT ![w].directory = None, ![w].setup = s]
           /\ send' = [send EXCEPT ![s].at = "recording", ![s].dir = f] /\ UNCHANGED faults
  <2>1. send' = [send EXCEPT ![s] = q] /\ gate' = [gate EXCEPT ![w] = g]
    BY <1>0, <1>6
  <2>2. OneGate(w) /\ gate'[w] = g
    BY <1>3, <2>1, TheGate
  <2>3. OneFolder(f) /\ disk'.folders[f] = d /\ disk'.records = disk.records
    BY <1>3, <1>6, TheFolder
  <2>4. /\ handle' \in [Folders -> Handle] /\ handle'[f] = h
        /\ \A x \in Folders : x # f => handle'[x] = less[x]
    BY <1>3, <1>4, <1>6
  <2> HIDE DEF q
  <2>5. Only(s) /\ send'[s] = q
    BY <1>2, <2>1, OneSend
  <2>6. \A x \in Folders : x # f =>
          IF x = gate[w].directory /\ handle[x].users = 0 THEN handle'[x] = NoHandle ELSE handle'[x] = handle[x]
    BY <1>4, <2>4
  <2>7. /\ w = send[s].ws /\ gate[w].setup = None /\ faults' \in 0 .. MaxFaults /\ faults' = faults
        /\ send'[s].ws = w /\ send'[s].stopped = send[s].stopped
        /\ send'[s].at = "recording" /\ send'[s].dir = f /\ send'[s].result = send[s].result
    BY <1>0, <1>1, <1>2, <1>5, <1>6, <2>5 DEF SetupFree
  <2> QED
    BY <1>5, <2>2, <2>3, <2>4, <2>5, <2>6, <2>7
<1>7. CASE /\ Fault /\ handle' = less /\ gate' = [gate EXCEPT ![w].directory = None]
           /\ send' = [send EXCEPT ![s].at = "done", ![s].result = "not_sent"] /\ UNCHANGED disk
  <2>1. send' = [send EXCEPT ![s] = p] /\ gate' = [gate EXCEPT ![w] = k]
    BY <1>0, <1>7
  <2>2. OneGate(w) /\ gate'[w] = k
    BY <1>3, <2>1, TheGate
  <2>3. OneFolder(f) /\ Drops(w) /\ faults' = faults + 1 /\ faults' \in 0 .. MaxFaults
    BY <1>0, <1>4, <1>7 DEF OneFolder, Drops, Fault
  <2> HIDE DEF p
  <2>4. Only(s) /\ send'[s] = p
    BY <1>2, <2>1, OneSend
  <2> QED
    BY <1>0, <1>1, <1>2, <1>4, <1>5, <1>7, <2>2, <2>3, <2>4 DEF SetupFree
<1> QED
  BY <1>5, <1>6, <1>7

\* Fewer faults than the bound, or one more.
LEMMA FaultCounts == ASSUME Types, Fault PROVE faults' \in 0 .. MaxFaults /\ faults' = faults + 1
BY UploadBoundsAreNaturals DEF Types, Fault

Records(s, w, f) ==
    /\ UNCHANGED <<process, home, observing, watch, cleaner, closing, made, history, published, crashes, vanished>>
    /\ w = send[s].ws /\ f = send[s].dir /\ send[s].at = "recording" /\ faults' \in 0 .. MaxFaults
    /\ Only(s) /\ send'[s].ws = w /\ send'[s].stopped = send[s].stopped
    /\ OneGate(w) /\ OneHandle(f) /\ OneRecord(w) /\ OneFolder(f)
    /\ \/ /\ send'[s].at = "ensured" /\ send'[s].dir = f /\ send'[s].result = send[s].result
          /\ gate'[w] = [gate[w] EXCEPT !.association = f, !.directory = f, !.setup = None]
          /\ handle'[f] = [open |-> handle[f].open, users |-> handle[f].users + 1]
          /\ records'[w] = f /\ disk'.records = records' /\ disk'.folders[f] = disk.folders[f] /\ faults' = faults
       \/ /\ send'[s].at = "done" /\ send'[s].dir = None /\ send'[s].result = "not_sent"
          /\ gate'[w] = [gate[w] EXCEPT !.setup = None]
          /\ handle'[f] = NoHandle /\ records' = records /\ disk'.folders[f] = Absent
          /\ faults' = faults + 1
          /\ disk'.records = disk.records \/ disk'.records = [records EXCEPT ![w] = f]

LEMMA RecordDoes ==
    ASSUME Types, Phases, NEW s \in Sends, SendRecord(s)
    PROVE  \E w \in Workspaces, f \in Folders : Records(s, w, f)
<1> USE DEF Records
<1>1. PICK w \in Workspaces, f \in Folders : w = send[s].ws /\ f = send[s].dir
  BY SendHasGate, SendHasFolder DEF SendRecord, Holding
<1> DEFINE q == [send[s] EXCEPT !.at = "ensured"]
           p == [send[s] EXCEPT !.at = "done", !.dir = None, !.result = "not_sent"]
           g == [gate[w] EXCEPT !.association = f, !.directory = f, !.setup = None]
           k == [gate[w] EXCEPT !.setup = None]
           h == [open |-> handle[f].open, users |-> handle[f].users + 1]
           new == [records EXCEPT ![w] = f]
<1>0. /\ send[s] \in Send /\ send \in [Sends -> Send] /\ gate[w] \in Gate /\ gate \in [Workspaces -> Gate]
      /\ disk \in [records : [Workspaces -> Folders \cup {None}], folders : [Folders -> Folder]]
      /\ records \in [Workspaces -> Folders \cup {None}]
      /\ handle[f] \in Handle /\ handle \in [Folders -> Handle] /\ faults \in 0 .. MaxFaults
  BY DEF Types, Handle
<1>2. /\ q \in Send /\ q.ws = w /\ q.dir = f /\ q.stopped = send[s].stopped
      /\ q.at = "ensured" /\ q.result = send[s].result
      /\ p \in Send /\ p.ws = w /\ p.dir = None /\ p.stopped = send[s].stopped
      /\ p.at = "done" /\ p.result = "not_sent"
  BY <1>0, <1>1 DEF Send, Phase, Result
<1>3. g \in Gate /\ k \in Gate /\ h \in Handle /\ NoHandle \in Handle /\ Absent \in Folder
  <2>1. g \in Gate /\ k \in Gate
    BY <1>0 DEF Gate
  <2>2. h \in Handle /\ NoHandle \in Handle
    BY <1>0 DEF Handle, NoHandle
  <2>3. Absent \in Folder
    BY DEF Folder, Absent, NoDir
  <2> QED
    BY <2>1, <2>2, <2>3
<1>4. new \in [Workspaces -> Folders \cup {None}] /\ new[w] = f /\ \A v \in Workspaces : v # w => new[v] = records[v]
  BY <1>0
<1>5. PICK outcome \in WriteOutcomes :
         /\ replaceRecord(w, f, outcome)
         /\ \/ /\ outcome = "done"
               /\ disk' = [disk EXCEPT !.records = Written(w, f, outcome)]
               /\ gate' = [gate EXCEPT ![w].association = f, ![w].directory = f, ![w].setup = None]
               /\ handle' = [handle EXCEPT ![f].users = @ + 1]
               /\ send' = [send EXCEPT ![s].at = "ensured"]
            \/ /\ outcome # "done"
               /\ disk' = [disk EXCEPT !.records = Written(w, f, outcome), !.folders[f] = Absent]
               /\ gate' = [gate EXCEPT ![w].setup = None]
               /\ handle' = [handle EXCEPT ![f] = NoHandle]
               /\ send' = [send EXCEPT ![s].at = "done", ![s].dir = None, ![s].result = "not_sent"]
  BY <1>1 DEF SendRecord
<1>8. /\ UNCHANGED <<process, home, observing, watch, cleaner, closing, made, history, published, crashes, vanished>>
      /\ send[s].at = "recording"
  BY DEF SendRecord
<1>6. CASE outcome = "done"
  <2>1. send' = [send EXCEPT ![s] = q] /\ gate' = [gate EXCEPT ![w] = g] /\ handle' = [handle EXCEPT ![f] = h]
    <3>1. handle[f] = [open |-> handle[f].open, users |-> handle[f].users]
      BY <1>0 DEF Handle
    <3> QED
      BY <1>0, <1>5, <1>6, <3>1
  <2>2. records' = new /\ disk' = [disk EXCEPT !.records = new] /\ faults' = faults
    BY <1>5, <1>6 DEF replaceRecord, Written
  <2>3. OneGate(w) /\ gate'[w] = g
    BY <1>3, <2>1, TheGate
  <2>4. OneHandle(f) /\ handle'[f] = h
    BY <1>3, <2>1, TheHandle
  <2> HIDE DEF q, new
  <2>5. Only(s) /\ send'[s] = q
    BY <1>2, <2>1, OneSend
  <2>6. disk'.records = new /\ disk'.folders = disk.folders /\ OneFolder(f) /\ OneRecord(w)
    BY <1>0, <1>4, <2>2 DEF OneFolder, OneRecord
  <2> QED
    BY <1>0, <1>1, <1>2, <1>4, <1>8, <2>2, <2>3, <2>4, <2>5, <2>6
<1>7. CASE outcome # "done"
  <2>1. send' = [send EXCEPT ![s] = p] /\ gate' = [gate EXCEPT ![w] = k] /\ handle' = [handle EXCEPT ![f] = NoHandle]
    BY <1>0, <1>5, <1>7
  <2> DEFINE old == IF outcome = "failed" THEN disk.records ELSE new
  <2>2. records' = records /\ disk' = [disk EXCEPT !.records = old, !.folders[f] = Absent] /\ Fault
    BY <1>5, <1>7 DEF replaceRecord, Written
  <2>7. faults' \in 0 .. MaxFaults /\ faults' = faults + 1
    BY <2>2, FaultCounts
  <2>3. OneGate(w) /\ gate'[w] = k
    BY <1>3, <2>1, TheGate
  <2>4. OneHandle(f) /\ handle'[f] = NoHandle
    BY <1>3, <2>1, TheHandle
  <2>8. /\ old \in [Workspaces -> Folders \cup {None}]
        /\ old = disk.records \/ old = new
        /\ \A v \in Workspaces : v # w => old[v] \in {records[v], disk.records[v]}
    BY <1>0, <1>4
  <2> HIDE DEF p, new, old
  <2>5. Only(s) /\ send'[s] = p
    BY <1>2, <2>1, OneSend
  <2>6. disk'.records = old /\ disk'.folders[f] = Absent /\ OneFolder(f) /\ OneRecord(w)
    <3>1. disk' = [records |-> old, folders |-> [disk.folders EXCEPT ![f] = Absent]]
      BY <1>0, <2>2
    <3> DEFINE here == [disk.folders EXCEPT ![f] = Absent]
    <3>2. here \in [Folders -> Folder] /\ here[f] = Absent /\ \A x \in Folders : x # f => here[x] = disk.folders[x]
      BY <1>0, <1>3
    <3> HIDE DEF here
    <3>3. disk' = [records |-> old, folders |-> here]
      BY <3>1 DEF here
    <3>4. disk'.records = old /\ disk'.folders = here
      BY <3>3
    <3>8. records' = records
      BY <2>2
    <3>5. disk' \in [records : [Workspaces -> Folders \cup {None}], folders : [Folders -> Folder]]
      <4>1. old \in [Workspaces -> Folders \cup {None}] /\ here \in [Folders -> Folder]
        BY <2>8, <3>2
      <4> QED
        BY <3>3, <4>1
    <3>6. OneFolder(f) /\ disk'.folders[f] = Absent
      BY <3>2, <3>4, <3>5 DEF OneFolder
    <3>7. OneRecord(w)
      BY <1>0, <2>8, <3>4, <3>5, <3>8 DEF OneRecord
    <3> QED
      BY <3>4, <3>6, <3>7
  <2> QED
    BY <1>0, <1>1, <1>2, <1>4, <1>8, <2>2, <2>3, <2>4, <2>5, <2>6, <2>7, <2>8 DEF new
<1> QED
  BY <1>6, <1>7

Releases(s, w, f) ==
    /\ UNCHANGED <<process, home, observing, watch, records, gate, cleaner, closing, disk, made, history, bounds>>
    /\ w = send[s].ws /\ f = send[s].dir /\ send[s].at = "release" /\ gate[w].setup = None
    /\ Only(s) /\ send'[s].at = "done" /\ send'[s].ws = w /\ send'[s].dir = None /\ send'[s].result = send[s].result
    /\ OneHandle(f)
    /\ IF handle[f].users = 1 /\ gate[w].directory # f THEN handle'[f] = NoHandle
       ELSE handle'[f] = [open |-> handle[f].open, users |-> handle[f].users - 1]

LEMMA ReleaseDoes ==
    ASSUME Types, Phases, NEW s \in Sends, SendRelease(s)
    PROVE  \E w \in Workspaces, f \in Folders : Releases(s, w, f)
<1> USE DEF Releases
<1>1. PICK w \in Workspaces, f \in Folders : w = send[s].ws /\ f = send[s].dir
  BY SendHasGate, SendHasFolder DEF SendRelease, Holding
<1> DEFINE q == [send[s] EXCEPT !.at = "done", !.dir = None, !.stopped = FALSE]
           h == IF handle[f].users = 1 /\ gate[w].directory # f THEN NoHandle
                ELSE [open |-> handle[f].open, users |-> handle[f].users - 1]
<1>0. /\ send[s] \in Send /\ send \in [Sends -> Send]
      /\ handle[f] \in Handle /\ handle \in [Folders -> Handle]
  BY DEF Types, Handle
<1>2. q \in Send /\ q.ws = w /\ q.dir = None /\ q.at = "done" /\ q.result = send[s].result
  BY <1>0, <1>1 DEF Send, Phase
<1>3. h \in Handle
  BY <1>0 DEF Handle, NoHandle
<1>4. /\ UNCHANGED <<process, home, observing, watch, records, gate, cleaner, closing, disk, made, history, bounds>>
      /\ send[s].at = "release" /\ SetupFree(w)
      /\ handle' = release(f, w) /\ send' = [send EXCEPT ![s] = q]
  BY <1>0, <1>1 DEF SendRelease
<1>5. handle' = [handle EXCEPT ![f] = h]
  <2>1. handle[f] = [open |-> handle[f].open, users |-> handle[f].users] /\ handle[f].users \in Int
    BY <1>0 DEF Handle
  <2>2. handle[f].users - 1 = 0 <=> handle[f].users = 1
    BY <2>1
  <2>3. ASSUME NEW left
        PROVE  [handle EXCEPT ![f].users = left] = [handle EXCEPT ![f] = [open |-> handle[f].open, users |-> left]]
    <3>1. [handle[f] EXCEPT !.users = left] = [open |-> handle[f].open, users |-> left]
      BY <2>1
    <3>2. [handle EXCEPT ![f].users = left] = [handle EXCEPT ![f] = [handle[f] EXCEPT !.users = left]]
      OBVIOUS
    <3> QED
      BY <3>1, <3>2
  <2> QED
    BY <1>4, <2>2, <2>3 DEF release
<1> HIDE DEF q
<1>6. Only(s) /\ send'[s] = q
  BY <1>2, <1>4, OneSend
<1>7. OneHandle(f) /\ handle'[f] = h
  BY <1>3, <1>5, TheHandle
<1> QED
  BY <1>1, <1>2, <1>4, <1>6, <1>7 DEF SetupFree

\* A step that stops the sends of a gate, and closes it to others.
Stops(w) ==
    /\ UNCHANGED <<process, home, observing, watch, records, handle, disk, made, history, bounds>>
    /\ send' \in [Sends -> Send] /\ gate[w].setup = None
    /\ \A s \in Sends : /\ send'[s].at = send[s].at /\ send'[s].ws = send[s].ws /\ send'[s].dir = send[s].dir
                        /\ send'[s].result = send[s].result
                        /\ send'[s].stopped = (send[s].stopped \/ s \in Inside(w))
    /\ OneGate(w) /\ gate'[w].open = FALSE /\ gate'[w].directory = gate[w].directory
    /\ gate'[w].association = gate[w].association /\ gate'[w].setup = gate[w].setup

LEMMA StoppedSends ==
    ASSUME Types, NEW w \in Workspaces
    PROVE  /\ stopped(w) \in [Sends -> Send]
           /\ \A s \in Sends : /\ stopped(w)[s].at = send[s].at /\ stopped(w)[s].ws = send[s].ws
                               /\ stopped(w)[s].dir = send[s].dir /\ stopped(w)[s].result = send[s].result
                               /\ stopped(w)[s].stopped = (send[s].stopped \/ s \in Inside(w))
<1> SUFFICES ASSUME NEW s \in Sends
             PROVE  /\ stopped(w)[s] \in Send
                    /\ stopped(w)[s].at = send[s].at /\ stopped(w)[s].ws = send[s].ws
                    /\ stopped(w)[s].dir = send[s].dir /\ stopped(w)[s].result = send[s].result
                    /\ stopped(w)[s].stopped = (send[s].stopped \/ s \in Inside(w))
  BY DEF stopped
<1>1. send[s] \in Send
  BY DEF Types
<1> DEFINE q == [send[s] EXCEPT !.stopped = TRUE]
<1>2. q \in Send /\ q.at = send[s].at /\ q.ws = send[s].ws /\ q.dir = send[s].dir /\ q.result = send[s].result /\ q.stopped = TRUE
  BY <1>1 DEF Send
<1>3. stopped(w)[s] = IF s \in Inside(w) THEN q ELSE send[s]
  BY DEF stopped
<1> HIDE DEF q
<1>4. send[s].stopped \in BOOLEAN
  BY <1>1 DEF Send
<1>5. CASE s \in Inside(w)
  BY <1>2, <1>3, <1>5
<1>6. CASE s \notin Inside(w)
  <2>1. (send[s].stopped \/ s \in Inside(w)) = send[s].stopped
    BY <1>4, <1>6
  <2> QED
    BY <1>1, <1>3, <1>6, <2>1
<1> QED
  BY <1>5, <1>6

LEMMA CloseStopDoes ==
    ASSUME Types, NEW w \in Workspaces, CloseStop(w)
    PROVE  /\ Stops(w) /\ UNCHANGED cleaner /\ w \in closing.stop
           /\ closing' \in [stop : SUBSET Workspaces, lock : SUBSET Workspaces, done : SUBSET Workspaces]
           /\ closing'.stop = closing.stop \ {w} /\ closing'.lock = closing.lock /\ closing'.done = closing.done
<1> DEFINE g == [gate[w] EXCEPT !.open = FALSE]
<1>0. gate[w] \in Gate /\ gate \in [Workspaces -> Gate]
      /\ closing \in [stop : SUBSET Workspaces, lock : SUBSET Workspaces, done : SUBSET Workspaces]
  BY DEF Types
<1>1. /\ g \in Gate /\ g.open = FALSE /\ g.directory = gate[w].directory
      /\ g.association = gate[w].association /\ g.setup = gate[w].setup
  BY <1>0 DEF Gate
<1>2. gate' = [gate EXCEPT ![w] = g]
  BY <1>0 DEF CloseStop
<1> HIDE DEF g
<1>3. OneGate(w) /\ gate'[w] = g
  BY <1>1, <1>2, TheGate
<1> QED
  BY <1>0, <1>1, <1>3, StoppedSends DEF CloseStop, Stops, SetupFree

\* A step that changes one cleanup.
OneCleanup(c) == cleaner' \in [Cleaners -> Cleanup] /\ \A d \in Cleaners : d # c => cleaner'[d] = cleaner[d]

LEMMA TheCleanup ==
    ASSUME Types, NEW c \in Cleaners, NEW k \in Cleanup, cleaner' = [cleaner EXCEPT ![c] = k]
    PROVE  OneCleanup(c) /\ cleaner'[c] = k
BY DEF Types, OneCleanup

\* A cleanup goes to its next step.
LEMMA CleanupGoes ==
    ASSUME Types, NEW c \in Cleaners, NEW next \in {"begun", "stopped", "announced", "removing", "clearing"},
           cleaner' = [cleaner EXCEPT ![c].at = next]
    PROVE  OneCleanup(c) /\ cleaner'[c].at = next /\ cleaner'[c].ws = cleaner[c].ws
<1> DEFINE k == [cleaner[c] EXCEPT !.at = next]
<1>0. cleaner[c] \in Cleanup /\ cleaner \in [Cleaners -> Cleanup]
  BY DEF Types
<1>1. k \in Cleanup /\ k.at = next /\ k.ws = cleaner[c].ws
  BY <1>0 DEF Cleanup
<1>2. cleaner' = [cleaner EXCEPT ![c] = k]
  BY <1>0
<1> HIDE DEF k
<1> QED
  BY <1>1, <1>2, TheCleanup

LEMMA CleanupEnds ==
    ASSUME Types, NEW c \in Cleaners, cleaner' = finished(c)
    PROVE  OneCleanup(c) /\ cleaner'[c].at = "none" /\ cleaner'[c].ws = None
<1>1. NoCleanup \in Cleanup /\ NoCleanup.at = "none" /\ NoCleanup.ws = None
  BY DEF NoCleanup, Cleanup
<1> QED
  BY <1>1, TheCleanup DEF finished

\* A cleanup is one of a workspace.
LEMMA CleanupHasGate ==
    ASSUME Types, Cleanups, NEW c \in Cleaners, cleaner[c].at # "none"
    PROVE  cleaner[c].ws \in Workspaces
BY DEF Types, Cleanups, Cleanup

LEMMA CleanupStopDoes ==
    ASSUME Types, Cleanups, NEW c \in Cleaners, CleanupStop(c)
    PROVE  \E w \in Workspaces :
              /\ w = cleaner[c].ws /\ cleaner[c].at = "begun" /\ Stops(w) /\ UNCHANGED closing
              /\ OneCleanup(c) /\ cleaner'[c].at = "stopped" /\ cleaner'[c].ws = w
<1>1. PICK w \in Workspaces : w = cleaner[c].ws
  BY CleanupHasGate DEF CleanupStop
<1> DEFINE g == [gate[w] EXCEPT !.open = FALSE, !.known = TRUE]
<1>0. gate[w] \in Gate /\ gate \in [Workspaces -> Gate]
  BY DEF Types
<1>2. /\ g \in Gate /\ g.open = FALSE /\ g.directory = gate[w].directory
      /\ g.association = gate[w].association /\ g.setup = gate[w].setup
  BY <1>0 DEF Gate
<1>3. gate' = [gate EXCEPT ![w] = g]
  BY <1>0, <1>1 DEF CleanupStop
<1> HIDE DEF g
<1>4. OneGate(w) /\ gate'[w] = g
  BY <1>2, <1>3, TheGate
<1>5. OneCleanup(c) /\ cleaner'[c].at = "stopped" /\ cleaner'[c].ws = cleaner[c].ws
  BY CleanupGoes DEF CleanupStop
<1> QED
  BY <1>1, <1>2, <1>4, <1>5, StoppedSends DEF CleanupStop, Stops, SetupFree

LEMMA AnnounceDoes ==
    ASSUME Types, Cleanups, NEW c \in Cleaners, CleanupAnnounce(c)
    PROVE  /\ UNCHANGED <<process, home, observing, watch, records, gate, handle, send, closing, disk, made, history, bounds>>
           /\ cleaner[c].at = "stopped" /\ Excluding(cleaner[c].ws) = {}
           /\ OneCleanup(c) /\ cleaner'[c].at = "announced" /\ cleaner'[c].ws = cleaner[c].ws
BY CleanupGoes DEF CleanupAnnounce

LEMMA ReopenedGate ==
    ASSUME Types, NEW w \in Workspaces
    PROVE  \E g \in Gate : reopened(w) = [gate EXCEPT ![w] = g] /\ g.open = TRUE /\ g.directory = gate[w].directory
                           /\ g.association = gate[w].association /\ g.setup = gate[w].setup
<1> DEFINE g == [gate[w] EXCEPT !.open = TRUE]
<1>0. gate[w] \in Gate /\ gate \in [Workspaces -> Gate]
  BY DEF Types
<1>1. /\ g \in Gate /\ g.open = TRUE /\ g.directory = gate[w].directory
      /\ g.association = gate[w].association /\ g.setup = gate[w].setup
  BY <1>0 DEF Gate
<1>2. reopened(w) = [gate EXCEPT ![w] = g]
  BY <1>0 DEF reopened
<1> QED
  BY <1>1, <1>2

Opens(c, w) ==
    /\ UNCHANGED <<process, home, observing, watch, records, send, closing, disk, made, history,
                   published, crashes, vanished>>
    /\ w = cleaner[c].ws /\ cleaner[c].at = "announced" /\ Inside(w) = {} /\ OneGate(w) /\ OneCleanup(c)
    /\ gate'[w].association = gate[w].association /\ gate'[w].setup = gate[w].setup
    /\ faults' \in 0 .. MaxFaults /\ (faults' = faults \/ faults' = faults + 1)
    /\ \/ /\ records[w] \in Folders /\ Verified(records[w]) /\ gate'[w].directory = records[w]
          /\ gate'[w].open = gate[w].open
          /\ cleaner'[c].at = "removing" /\ cleaner'[c].ws = w /\ OneHandle(records[w])
          /\ handle'[records[w]].open = TRUE /\ handle'[records[w]].users = handle[records[w]].users
       \/ /\ records[w] \in Folders /\ ~Exists(records[w]) /\ gate[w].directory = None /\ gate' = gate
          /\ cleaner'[c].at = "clearing" /\ cleaner'[c].ws = w /\ handle' = handle
       \/ /\ \/ records[w] = None
             \/ ~Verified(records[w]) /\ (Exists(records[w]) \/ gate[w].directory # None)
             \/ faults' = faults + 1
          /\ gate'[w].open = TRUE /\ gate'[w].directory = gate[w].directory
          /\ cleaner'[c].at = "none" /\ cleaner'[c].ws = None /\ handle' = handle

LEMMA CleanupOpenDoes ==
    ASSUME Types, Cleanups, Associations, NEW c \in Cleaners, CleanupOpen(c)
    PROVE  \E w \in Workspaces : Opens(c, w)
<1> USE DEF Opens
<1>1. PICK w \in Workspaces : w = cleaner[c].ws
  BY CleanupHasGate DEF CleanupOpen
<1>0. /\ gate[w] \in Gate /\ gate \in [Workspaces -> Gate] /\ records[w] \in Folders \cup {None}
      /\ handle \in [Folders -> Handle] /\ faults \in 0 .. MaxFaults
  BY DEF Types, Handle
<1>2. /\ gate[w].association = records[w]
      /\ records[w] # None => (IF gate[w].directory # None THEN gate[w].directory ELSE gate[w].association) = records[w]
  BY DEF Associations
<1>3. /\ UNCHANGED <<process, home, observing, watch, records, send, closing, disk, made, history,
                     published, crashes, vanished>>
      /\ cleaner[c].at = "announced" /\ Inside(w) = {}
  BY <1>1 DEF CleanupOpen
<1>4. CASE /\ records[w] # None /\ Verified(records[w])
           /\ gate' = [gate EXCEPT ![w].directory = records[w]]
           /\ handle' = [handle EXCEPT ![records[w]].open = TRUE]
           /\ cleaner' = [cleaner EXCEPT ![c].at = "removing"] /\ UNCHANGED faults
  <2>1. PICK f \in Folders : f = records[w]
    BY <1>0, <1>4
  <2> DEFINE g == [gate[w] EXCEPT !.directory = f]
             h == [handle[f] EXCEPT !.open = TRUE]
  <2>2. g \in Gate /\ g.directory = f /\ g.association = gate[w].association /\ g.setup = gate[w].setup /\ g.open = gate[w].open
    BY <1>0 DEF Gate
  <2>3. h \in Handle /\ h.open = TRUE /\ h.users = handle[f].users
    BY <1>0 DEF Handle
  <2>4. gate' = [gate EXCEPT ![w] = g] /\ handle' = [handle EXCEPT ![f] = h]
    BY <1>0, <1>4, <2>1
  <2> HIDE DEF g, h
  <2>5. OneGate(w) /\ gate'[w] = g
    BY <2>2, <2>4, TheGate
  <2>6. OneHandle(f) /\ handle'[f] = h
    BY <2>3, <2>4, TheHandle
  <2>7. OneCleanup(c) /\ cleaner'[c].at = "removing" /\ cleaner'[c].ws = w
    BY <1>1, <1>4, CleanupGoes
  <2> QED
    BY <1>0, <1>1, <1>3, <1>4, <2>1, <2>2, <2>3, <2>5, <2>6, <2>7
<1>5. CASE /\ records[w] # None /\ ~Exists(records[w]) /\ gate[w].directory = None
           /\ cleaner' = [cleaner EXCEPT ![c].at = "clearing"] /\ UNCHANGED <<gate, handle, faults>>
  <2>1. OneCleanup(c) /\ cleaner'[c].at = "clearing" /\ cleaner'[c].ws = w
    BY <1>1, <1>5, CleanupGoes
  <2>2. OneGate(w)
    BY <1>0, <1>5 DEF OneGate
  <2> QED
    BY <1>0, <1>1, <1>3, <1>5, <2>1, <2>2
<1>6. CASE /\ \/ records[w] = None /\ UNCHANGED faults
              \/ ~Verified(records[w]) /\ (Exists(records[w]) \/ gate[w].directory # None) /\ UNCHANGED faults
              \/ Fault
           /\ gate' = reopened(w) /\ cleaner' = finished(c) /\ UNCHANGED handle
  <2>1. OneCleanup(c) /\ cleaner'[c].at = "none" /\ cleaner'[c].ws = None
    BY <1>6, CleanupEnds
  <2>2. PICK g \in Gate : reopened(w) = [gate EXCEPT ![w] = g] /\ g.open = TRUE /\ g.directory = gate[w].directory
                          /\ g.association = gate[w].association /\ g.setup = gate[w].setup
    BY ReopenedGate
  <2>3. OneGate(w) /\ gate'[w] = g
    BY <1>6, <2>2, TheGate
  <2>4. faults' \in 0 .. MaxFaults
        /\ \/ records[w] = None /\ faults' = faults
           \/ ~Verified(records[w]) /\ (Exists(records[w]) \/ gate[w].directory # None) /\ faults' = faults
           \/ faults' = faults + 1
    BY <1>0, <1>6, FaultCounts
  <2> QED
    BY <1>1, <1>3, <1>6, <2>1, <2>2, <2>3, <2>4
<1> QED
  BY <1>1, <1>2, <1>4, <1>5, <1>6 DEF CleanupOpen

Removes(c, w, f) ==
    /\ UNCHANGED <<process, home, observing, watch, records, send, closing, made, history,
                   published, crashes, vanished>>
    /\ w = cleaner[c].ws /\ f = gate[w].directory /\ cleaner[c].at = "removing" /\ OneGate(w) /\ OneCleanup(c)
    /\ OneFolder(f) /\ disk'.records = disk.records
    /\ gate'[w].association = gate[w].association /\ gate'[w].setup = gate[w].setup
    /\ faults' \in 0 .. MaxFaults /\ (faults' = faults \/ faults' = faults + 1)
    /\ \/ /\ \E e \in disk.folders[f].entries : disk'.folders[f].entries = disk.folders[f].entries \ {e}
          /\ disk'.folders[f].there = disk.folders[f].there
          /\ gate' = gate /\ handle' = handle /\ cleaner' = cleaner
       \/ /\ Exists(f) /\ disk.folders[f].entries = {} /\ disk'.folders[f] = Absent
          /\ OneHandle(f) /\ handle'[f] = NoHandle /\ gate'[w].directory = None /\ gate'[w].open = gate[w].open
          /\ cleaner'[c].at = "clearing" /\ cleaner'[c].ws = w
       \/ /\ disk' = disk /\ handle' = handle /\ gate'[w].directory = f /\ gate'[w].open = TRUE
          /\ (~Exists(f) \/ faults' = faults + 1)
          /\ cleaner'[c].at = "none" /\ cleaner'[c].ws = None

LEMMA RemoveDoes ==
    ASSUME Types, Cleanups, NEW c \in Cleaners, CleanupRemove(c)
    PROVE  \E w \in Workspaces, f \in Folders : Removes(c, w, f)
<1> USE DEF Removes
<1>1. PICK w \in Workspaces : w = cleaner[c].ws
  BY CleanupHasGate DEF CleanupRemove
<1>0. /\ gate[w] \in Gate /\ gate \in [Workspaces -> Gate]
      /\ handle \in [Folders -> Handle] /\ faults \in 0 .. MaxFaults /\ cleaner \in [Cleaners -> Cleanup]
      /\ disk \in [records : [Workspaces -> Folders \cup {None}], folders : [Folders -> Folder]]
  BY DEF Types, Handle
<1>2. PICK f \in Folders : f = gate[w].directory
  BY <1>0, <1>1 DEF CleanupRemove, Cleanups, Gate
<1>3. /\ UNCHANGED <<process, home, observing, watch, records, send, closing, made, history,
                     published, crashes, vanished>>
      /\ cleaner[c].at = "removing"
  BY DEF CleanupRemove
<1>4. CASE \E e \in disk.folders[f].entries :
              /\ disk' = [disk EXCEPT !.folders[f].entries = @ \ {e}]
              /\ UNCHANGED <<gate, handle, cleaner, faults>>
  <2>1. PICK e \in disk.folders[f].entries :
              /\ disk' = [disk EXCEPT !.folders[f].entries = @ \ {e}]
              /\ UNCHANGED <<gate, handle, cleaner, faults>>
    BY <1>4
  <2> DEFINE d == [disk.folders[f] EXCEPT !.entries = @ \ {e}]
  <2>2. d \in Folder /\ d.entries = disk.folders[f].entries \ {e} /\ d.there = disk.folders[f].there
    BY <1>0 DEF Folder
  <2>3. disk' = [disk EXCEPT !.folders[f] = d]
    BY <1>0, <2>1
  <2> HIDE DEF d
  <2>4. OneFolder(f) /\ disk'.folders[f] = d /\ disk'.records = disk.records
    BY <2>2, <2>3, TheFolder
  <2>5. OneGate(w) /\ OneCleanup(c)
    BY <1>0, <2>1 DEF OneGate, OneCleanup
  <2> QED
    BY <1>0, <1>1, <1>2, <1>3, <2>1, <2>2, <2>4, <2>5
<1>5. CASE /\ Exists(f) /\ disk.folders[f].entries = {}
           /\ disk' = [disk EXCEPT !.folders[f] = Absent]
           /\ handle' = [handle EXCEPT ![f] = NoHandle]
           /\ gate' = [gate EXCEPT ![w].directory = None]
           /\ cleaner' = [cleaner EXCEPT ![c].at = "clearing"]
           /\ UNCHANGED faults
  <2>1. NoHandle \in Handle /\ Absent \in Folder
    BY DEF NoHandle, Handle, Absent, Folder, NoDir
  <2> DEFINE g == [gate[w] EXCEPT !.directory = None]
  <2>2. g \in Gate /\ g.directory = None /\ g.association = gate[w].association /\ g.setup = gate[w].setup /\ g.open = gate[w].open
    BY <1>0 DEF Gate
  <2>3. gate' = [gate EXCEPT ![w] = g]
    BY <1>0, <1>5
  <2> HIDE DEF g
  <2>4. OneGate(w) /\ gate'[w] = g
    BY <2>2, <2>3, TheGate
  <2>5. OneHandle(f) /\ handle'[f] = NoHandle
    BY <1>5, <2>1, TheHandle
  <2>6. OneFolder(f) /\ disk'.folders[f] = Absent /\ disk'.records = disk.records
    BY <1>5, <2>1, TheFolder
  <2>7. OneCleanup(c) /\ cleaner'[c].at = "clearing" /\ cleaner'[c].ws = w
    BY <1>1, <1>5, CleanupGoes
  <2> QED
    BY <1>0, <1>1, <1>2, <1>3, <1>5, <2>2, <2>4, <2>5, <2>6, <2>7
<1>6. CASE /\ \/ ~Exists(f) /\ UNCHANGED faults
              \/ Fault
           /\ gate' = reopened(w) /\ cleaner' = finished(c)
           /\ UNCHANGED <<disk, handle>>
  <2>1. OneCleanup(c) /\ cleaner'[c].at = "none" /\ cleaner'[c].ws = None
    BY <1>6, CleanupEnds
  <2>2. PICK g \in Gate : reopened(w) = [gate EXCEPT ![w] = g] /\ g.open = TRUE /\ g.directory = gate[w].directory
                          /\ g.association = gate[w].association /\ g.setup = gate[w].setup
    BY ReopenedGate
  <2>3. OneGate(w) /\ gate'[w] = g
    BY <1>6, <2>2, TheGate
  <2>4. /\ faults' \in 0 .. MaxFaults
        /\ (~Exists(f) /\ faults' = faults) \/ faults' = faults + 1
    BY <1>0, <1>6, FaultCounts
  <2>5. OneFolder(f)
    BY <1>0, <1>6 DEF OneFolder
  <2> QED
    BY <1>1, <1>2, <1>3, <1>6, <2>1, <2>2, <2>3, <2>4, <2>5
<1> QED
  BY <1>1, <1>2, <1>4, <1>5, <1>6 DEF CleanupRemove

Clears(c, w) ==
    /\ UNCHANGED <<process, home, observing, watch, handle, send, closing, made, history,
                   published, crashes, vanished>>
    /\ w = cleaner[c].ws /\ cleaner[c].at = "clearing" /\ OneGate(w) /\ OneCleanup(c) /\ OneRecord(w)
    /\ disk'.folders = disk.folders
    /\ gate'[w].directory = gate[w].directory /\ gate'[w].setup = gate[w].setup /\ gate'[w].open = TRUE
    /\ cleaner'[c].at = "none" /\ cleaner'[c].ws = None /\ faults' \in 0 .. MaxFaults
    /\ \/ /\ gate'[w].association = None /\ records'[w] = None /\ disk'.records = records' /\ faults' = faults
       \/ /\ gate'[w].association = gate[w].association /\ records' = records /\ faults' = faults + 1
          /\ disk'.records = disk.records \/ disk'.records = [records EXCEPT ![w] = None]

LEMMA ClearDoes ==
    ASSUME Types, Cleanups, NEW c \in Cleaners, CleanupClear(c)
    PROVE  \E w \in Workspaces : Clears(c, w)
<1> USE DEF Clears
<1>1. PICK w \in Workspaces : w = cleaner[c].ws
  BY CleanupHasGate DEF CleanupClear
<1>0. /\ gate[w] \in Gate /\ gate \in [Workspaces -> Gate] /\ faults \in 0 .. MaxFaults
      /\ disk \in [records : [Workspaces -> Folders \cup {None}], folders : [Folders -> Folder]]
      /\ records \in [Workspaces -> Folders \cup {None}]
  BY DEF Types
<1>2. PICK outcome \in WriteOutcomes :
         /\ replaceRecord(w, None, outcome)
         /\ disk' = [disk EXCEPT !.records = Written(w, None, outcome)]
         /\ gate' = [reopened(w) EXCEPT ![w].association = IF outcome = "done" THEN None ELSE @]
  BY <1>1 DEF CleanupClear
<1>3. /\ UNCHANGED <<process, home, observing, watch, handle, send, closing, made, history,
                     published, crashes, vanished>>
      /\ cleaner[c].at = "clearing" /\ cleaner' = finished(c)
  BY DEF CleanupClear
<1>4. OneCleanup(c) /\ cleaner'[c].at = "none" /\ cleaner'[c].ws = None
  BY <1>3, CleanupEnds
<1> DEFINE kept == IF outcome = "done" THEN None ELSE gate[w].association
           new == [records EXCEPT ![w] = None]
           k == [gate[w] EXCEPT !.open = TRUE, !.association = kept]
<1>5. kept \in Folders \cup {None}
  BY <1>0 DEF Gate
<1>6. gate' = [gate EXCEPT ![w] = k]
  <2>1. PICK g \in Gate : reopened(w) = [gate EXCEPT ![w] = g] /\ g = [gate[w] EXCEPT !.open = TRUE] /\ g.association = gate[w].association
    <3>1. [gate[w] EXCEPT !.open = TRUE] \in Gate /\ [gate[w] EXCEPT !.open = TRUE].association = gate[w].association
      BY <1>0 DEF Gate
    <3> QED
      BY <1>0, <3>1 DEF reopened
  <2>2. gate' = [gate EXCEPT ![w] = [g EXCEPT !.association = kept]]
    BY <1>0, <1>2, <2>1
  <2>3. [g EXCEPT !.association = kept] = k
    BY <1>0, <2>1 DEF Gate
  <2> QED
    BY <2>2, <2>3
<1> HIDE DEF kept
<1>7. k \in Gate /\ k.directory = gate[w].directory /\ k.setup = gate[w].setup /\ k.open = TRUE /\ k.association = kept
  BY <1>0, <1>5 DEF Gate
<1> HIDE DEF k
<1>8. OneGate(w) /\ gate'[w] = k
  BY <1>6, <1>7, TheGate
<1>9. new \in [Workspaces -> Folders \cup {None}] /\ new[w] = None /\ \A v \in Workspaces : v # w => new[v] = records[v]
  BY <1>0
<1>10. CASE outcome = "done"
  <2>1. records' = new /\ disk' = [disk EXCEPT !.records = new] /\ faults' = faults
    BY <1>2, <1>10 DEF replaceRecord, Written
  <2> HIDE DEF new
  <2>2. disk'.records = new /\ disk'.folders = disk.folders /\ OneRecord(w)
    BY <1>0, <1>9, <2>1 DEF OneRecord
  <2>3. kept = None
    BY <1>10 DEF kept
  <2> QED
    BY <1>0, <1>1, <1>3, <1>4, <1>7, <1>8, <1>9, <2>1, <2>2, <2>3
<1>11. CASE outcome # "done"
  <2> DEFINE old == IF outcome = "failed" THEN disk.records ELSE new
  <2>1. records' = records /\ disk' = [disk EXCEPT !.records = old] /\ Fault
    BY <1>2, <1>11 DEF replaceRecord, Written
  <2>2. faults' \in 0 .. MaxFaults /\ faults' = faults + 1
    BY <2>1, FaultCounts
  <2>3. /\ old \in [Workspaces -> Folders \cup {None}]
        /\ old = disk.records \/ old = new
        /\ \A v \in Workspaces : v # w => old[v] \in {records[v], disk.records[v]}
    BY <1>0, <1>9
  <2> HIDE DEF new, old
  <2>4. disk'.records = old /\ disk'.folders = disk.folders
    BY <1>0, <2>1
  <2>5. OneRecord(w)
    BY <1>0, <2>1, <2>3 DEF OneRecord
  <2>6. kept = gate[w].association
    BY <1>11 DEF kept
  <2> QED
    BY <1>0, <1>1, <1>3, <1>4, <1>7, <1>8, <2>1, <2>2, <2>3, <2>4, <2>5, <2>6 DEF new
<1> QED
  BY <1>10, <1>11

LEMMA EndedDoes ==
    ASSUME Types, Ended
    PROVE  /\ process' = "down" /\ home' = {} /\ observing' = FALSE
           /\ watch' = [observed |-> FALSE, workspaces |-> {}]
           /\ records' \in [Workspaces -> Folders \cup {None}] /\ \A w \in Workspaces : records'[w] = None
           /\ gate' \in [Workspaces -> Gate] /\ \A w \in Workspaces : gate'[w] = NewGate(None)
           /\ handle' \in [Folders -> Handle] /\ \A f \in Folders : handle'[f] = NoHandle
           /\ cleaner' \in [Cleaners -> Cleanup] /\ \A c \in Cleaners : cleaner'[c] = NoCleanup
           /\ send' \in [Sends -> Send]
           /\ \A s \in Sends :
                 IF send[s].at \in {"new", "done"} THEN send'[s] = send[s]
                 ELSE /\ send'[s].at = "done" /\ send'[s].ws = send[s].ws /\ send'[s].dir = None
                      /\ send'[s].result = IF send[s].result \in Kept THEN send[s].result ELSE "lost"
<1>1. NewGate(None) \in Gate /\ NoHandle \in Handle /\ NoCleanup \in Cleanup
  BY DEF NewGate, Gate, NoHandle, Handle, NoCleanup, Cleanup
<1>2. ASSUME NEW s \in Sends, send[s].at \notin {"new", "done"}
      PROVE  /\ send'[s] \in Send
             /\ send'[s].at = "done" /\ send'[s].ws = send[s].ws /\ send'[s].dir = None
             /\ send'[s].result = IF send[s].result \in Kept THEN send[s].result ELSE "lost"
  <2>0. send[s] \in Send
    BY DEF Types
  <2> DEFINE result == IF send[s].result \in Kept THEN send[s].result ELSE "lost"
             q == [send[s] EXCEPT !.at = "done", !.dir = None, !.stopped = FALSE, !.result = result]
  <2>1. send'[s] = q
    BY <1>2, <2>0 DEF Ended, Kept
  <2>2. result \in Result
    BY <2>0 DEF Send, Result
  <2> HIDE DEF result
  <2>3. q \in Send /\ q.at = "done" /\ q.ws = send[s].ws /\ q.dir = None /\ q.result = result
    BY <2>0, <2>2 DEF Send, Phase
  <2> HIDE DEF q
  <2> QED
    BY <2>1, <2>3 DEF result
<1>3. ASSUME NEW s \in Sends, send[s].at \in {"new", "done"} PROVE send'[s] = send[s]
  BY <1>3 DEF Ended
<1>4. send' \in [Sends -> Send]
  <2>1. \A s \in Sends : send'[s] \in Send
    BY <1>2, <1>3 DEF Types
  <2>2. send' = [s \in Sends |-> send'[s]]
    BY DEF Ended
  <2> QED
    BY <2>1, <2>2
<1>5. ASSUME NEW s \in Sends
      PROVE  IF send[s].at \in {"new", "done"} THEN send'[s] = send[s]
             ELSE /\ send'[s].at = "done" /\ send'[s].ws = send[s].ws /\ send'[s].dir = None
                  /\ send'[s].result = IF send[s].result \in Kept THEN send[s].result ELSE "lost"
  BY <1>2, <1>3
<1>6. /\ process' = "down" /\ home' = {} /\ observing' = FALSE
      /\ watch' = [observed |-> FALSE, workspaces |-> {}]
      /\ records' = [w \in Workspaces |-> None] /\ gate' = [w \in Workspaces |-> NewGate(None)]
      /\ handle' = [f \in Folders |-> NoHandle] /\ cleaner' = [c \in Cleaners |-> NoCleanup]
  BY DEF Ended
<1> QED
  BY <1>1, <1>4, <1>5, <1>6

\* A published state reaches the manager: each missing workspace gets a
\* cleanup of its own.
Started == IF process = "up" THEN missing ELSE {}

LEMMA ObserveDoes ==
    ASSUME Types, Cleanups, ObservePublishedSnapshot
    PROVE  /\ UNCHANGED <<process, home, records, gate, handle, send, closing, disk, made, life, bounds>>
           /\ observing /\ observing' = FALSE
           /\ watch' = IF process = "up" THEN [observed |-> TRUE, workspaces |-> home] ELSE watch
           /\ cleaner' \in [Cleaners -> Cleanup]
           /\ \A c \in Cleaners :
                 \/ cleaner'[c] = cleaner[c]
                 \/ cleaner[c].at = "none" /\ cleaner'[c].at = "begun" /\ cleaner'[c].ws \in Started
           /\ \A w \in Started : \E c \in Cleaners : cleaner'[c].ws = w
           /\ \A c, d \in Cleaners : cleaner'[c] # cleaner[c] /\ cleaner'[d] # cleaner[d] /\ cleaner'[c].ws = cleaner'[d].ws => c = d
           /\ cleared' = cleared \cup {s \in Sends : /\ \/ send[s].at = "forwarding"
                                                        \/ send[s].result \in Kept
                                                     /\ send[s].ws \notin home}
<1>1. Started \subseteq Workspaces
  BY DEF Started, missing, Types
<1>2. PICK crew \in [Started -> {c \in Cleaners : cleaner[c].at = "none"}] :
         /\ \A v, w \in Started : v # w => crew[v] # crew[w]
         /\ cleaner' = [c \in Cleaners |->
              IF \E w \in Started : crew[w] = c
              THEN [at |-> "begun", ws |-> CHOOSE w \in Started : crew[w] = c]
              ELSE cleaner[c]]
  BY DEF ObservePublishedSnapshot, Started
<1>3. ASSUME NEW c \in Cleaners, NEW w \in Started, crew[w] = c
      PROVE  cleaner'[c] = [at |-> "begun", ws |-> w] /\ cleaner[c].at = "none"
  <2>1. (CHOOSE v \in Started : crew[v] = c) = w
    BY <1>2, <1>3
  <2>2. cleaner'[c] = [at |-> "begun", ws |-> CHOOSE v \in Started : crew[v] = c]
    BY <1>2, <1>3
  <2> QED
    BY <1>2, <1>3, <2>1, <2>2
<1>4. ASSUME NEW c \in Cleaners, \A w \in Started : crew[w] # c PROVE cleaner'[c] = cleaner[c]
  BY <1>2, <1>4
<1>5. \A c \in Cleaners :
         \/ cleaner'[c] = cleaner[c]
         \/ /\ cleaner[c].at = "none" /\ cleaner'[c] \in Cleanup /\ cleaner'[c].at = "begun"
            /\ cleaner'[c].ws \in Started /\ crew[cleaner'[c].ws] = c
  <2> SUFFICES ASSUME NEW c \in Cleaners, NEW w \in Started, crew[w] = c
               PROVE  /\ cleaner[c].at = "none" /\ cleaner'[c] \in Cleanup /\ cleaner'[c].at = "begun"
                      /\ cleaner'[c].ws \in Started /\ crew[cleaner'[c].ws] = c
    BY <1>4
  <2>1. cleaner'[c] = [at |-> "begun", ws |-> w] /\ cleaner[c].at = "none"
    BY <1>3
  <2> QED
    BY <1>1, <2>1 DEF Cleanup
<1>6. cleaner' \in [Cleaners -> Cleanup]
  <2>1. \A c \in Cleaners : cleaner'[c] \in Cleanup
    BY <1>5 DEF Types
  <2>2. cleaner' = [c \in Cleaners |-> cleaner'[c]]
    BY <1>2
  <2> QED
    BY <2>1, <2>2
<1>7. \A w \in Started : \E c \in Cleaners : cleaner'[c].ws = w
  <2> SUFFICES ASSUME NEW w \in Started PROVE \E c \in Cleaners : cleaner'[c].ws = w
    OBVIOUS
  <2>1. PICK c \in Cleaners : c = crew[w]
    BY <1>2
  <2>2. cleaner'[c] = [at |-> "begun", ws |-> w]
    BY <1>3, <2>1
  <2> QED
    BY <2>2
<1>8. \A c, d \in Cleaners : cleaner'[c] # cleaner[c] /\ cleaner'[d] # cleaner[d] /\ cleaner'[c].ws = cleaner'[d].ws => c = d
  BY <1>5
<1> QED
  BY <1>5, <1>6, <1>7, <1>8 DEF ObservePublishedSnapshot, Started, Kept

LEMMA PublishDoes ==
    ASSUME Types, NEW workspaces \in SUBSET Workspaces, Publish(workspaces)
    PROVE  /\ UNCHANGED <<process, watch, records, gate, handle, send, cleaner, closing, disk, made,
                          cleared, faults, crashes, vanished>>
           /\ Running /\ ~observing /\ home' = workspaces /\ observing' = TRUE
           /\ IDsReturn \/ \A w \in workspaces : life[w] # "gone"
           /\ life' \in [Workspaces -> {"new", "present", "gone"}]
           /\ \A w \in Workspaces : life'[w] = IF w \in workspaces THEN "present"
                                               ELSE IF life[w] = "new" THEN "new" ELSE "gone"
           /\ published' \in 0 .. MaxPublications
<1>1. published' \in 0 .. MaxPublications
  BY UploadBoundsAreNaturals DEF Types, Publish
<1> QED
  BY <1>1 DEF Publish

LEMMA CloseGatesDoes ==
    ASSUME Types, CloseGates
    PROVE  /\ UNCHANGED <<home, observing, watch, records, gate, handle, cleaner, send, disk, made, history, bounds>>
           /\ process = "closing" /\ process' = "stopping" /\ \A c \in Cleaners : cleaner[c].at = "none"
           /\ closing' \in [stop : SUBSET Workspaces, lock : SUBSET Workspaces, done : SUBSET Workspaces]
           /\ closing'.lock = closing'.stop /\ closing'.done = {}
BY DEF CloseGates

LEMMA CloseLockDoes ==
    ASSUME Types, NEW w \in Workspaces, CloseLock(w)
    PROVE  /\ UNCHANGED <<process, home, observing, watch, records, send, cleaner, disk, made, history, bounds>>
           /\ closing.stop = {} /\ w \in closing.lock /\ Inside(w) = {}
           /\ closing' \in [stop : SUBSET Workspaces, lock : SUBSET Workspaces, done : SUBSET Workspaces]
           /\ closing'.stop = {} /\ closing'.lock = closing.lock \ {w} /\ closing'.done = closing.done \cup {w}
           /\ OneGate(w) /\ gate'[w] = [gate[w] EXCEPT !.directory = None]
           /\ handle' \in [Folders -> Handle]
           /\ \A f \in Folders : handle'[f] = IF f = gate[w].directory THEN NoHandle ELSE handle[f]
<1> DEFINE g == [gate[w] EXCEPT !.directory = None]
<1>0. /\ gate[w] \in Gate /\ gate \in [Workspaces -> Gate] /\ handle \in [Folders -> Handle]
      /\ closing \in [stop : SUBSET Workspaces, lock : SUBSET Workspaces, done : SUBSET Workspaces]
  BY DEF Types, Handle
<1>1. g \in Gate /\ gate' = [gate EXCEPT ![w] = g]
  BY <1>0 DEF Gate, CloseLock
<1>2. OneGate(w) /\ gate'[w] = g
  BY <1>1, TheGate
<1>3. NoHandle \in Handle
  BY DEF NoHandle, Handle
<1>4. /\ handle' \in [Folders -> Handle]
      /\ \A f \in Folders : handle'[f] = IF f = gate[w].directory THEN NoHandle ELSE handle[f]
  <2>1. handle' = IF gate[w].directory = None THEN handle ELSE [handle EXCEPT ![gate[w].directory] = NoHandle]
    BY DEF CloseLock
  <2> QED
    BY <1>0, <1>3, <2>1, NothingIsNone
<1>5. /\ closing' \in [stop : SUBSET Workspaces, lock : SUBSET Workspaces, done : SUBSET Workspaces]
      /\ closing'.stop = closing.stop /\ closing'.lock = closing.lock \ {w} /\ closing'.done = closing.done \cup {w}
  BY <1>0 DEF CloseLock
<1> QED
  BY <1>2, <1>4, <1>5 DEF CloseLock

LEMMA VanishDoes ==
    ASSUME Types, NEW f \in Folders, Vanish(f)
    PROVE  /\ UNCHANGED <<process, memory, send, made, history, published, faults, crashes>>
           /\ OneFolder(f) /\ disk'.folders[f] = Absent /\ disk'.records = disk.records
           /\ vanished' \in 0 .. MaxVanished /\ vanished' # 0
<1>1. Absent \in Folder
  BY DEF Absent, Folder, NoDir
<1>2. OneFolder(f) /\ disk'.folders[f] = Absent /\ disk'.records = disk.records
  BY <1>1, TheFolder DEF Vanish
<1>3. vanished' \in 0 .. MaxVanished /\ vanished' # 0
  BY UploadBoundsAreNaturals DEF Vanish, Types
<1> QED
  BY <1>2, <1>3 DEF Vanish

LEMMA OpenDoes ==
    ASSUME Types, Open
    PROVE  /\ UNCHANGED <<home, observing, watch, handle, send, cleaner, closing, disk, made, history, bounds>>
           /\ process = "down" /\ process' = "up" /\ records' = disk.records
           /\ gate' \in [Workspaces -> Gate] /\ \A w \in Workspaces : gate'[w] = NewGate(disk.records[w])
<1>1. \A w \in Workspaces : NewGate(disk.records[w]) \in Gate
  <2> SUFFICES ASSUME NEW w \in Workspaces PROVE NewGate(disk.records[w]) \in Gate
    OBVIOUS
  <2>1. PICK f \in Folders \cup {None} : f = disk.records[w]
    BY DEF Types
  <2>2. NewGate(f) \in Gate
    BY DEF NewGate, Gate
  <2> QED
    BY <2>1, <2>2
<1> QED
  BY <1>1 DEF Open

-----------------------------------------------------------------------------
(***************************************************************************)
(* The types, and where a send is.                                         *)
(***************************************************************************)

LEMMA TypesNext == ASSUME Types, Phases, Cleanups, Associations, [Next]_vars PROVE Types'
<1>1. ASSUME NEW s \in Sends, Walks(s) PROVE Types'
  <2>1. /\ send' \in [Sends -> Send]
    BY <1>1 DEF Walks, Only
  <2>2. UNCHANGED <<process, home, observing, watch, records, gate, handle, cleaner, closing, disk, made, life, cleared, published, faults, crashes, vanished>>
    BY <1>1 DEF Walks, memory, history, bounds
  <2> QED
    BY <2>1, <2>2 DEF Types
<1>2. ASSUME NEW s \in Sends, NEW w \in Workspaces, SendBegin(s, w) PROVE Types'
  <2>1. /\ send' \in [Sends -> Send]
        /\ gate' \in [Workspaces -> Gate]
    BY <1>2, BeginDoes DEF Only, OneGate
  <2>2. UNCHANGED <<process, home, observing, watch, records, handle, cleaner, closing, disk, made, life, cleared, published, faults, crashes, vanished>>
    BY <1>2, BeginDoes DEF history, bounds, memory
  <2> QED
    BY <2>1, <2>2 DEF Types
<1>3. ASSUME NEW s \in Sends, SendReuse(s) PROVE Types'
  <2>1. /\ send' \in [Sends -> Send]
        /\ gate' \in [Workspaces -> Gate]
        /\ handle' \in [Folders -> [open : BOOLEAN, users : Int]]
    BY <1>3, ReuseDoes DEF Reuses, Only, OneGate, OneHandle, Handle
  <2>2. UNCHANGED <<process, home, observing, watch, records, cleaner, closing, disk, made, life, cleared, published, faults, crashes, vanished>>
    BY <1>3, ReuseDoes DEF Reuses, history, bounds, memory
  <2> QED
    BY <2>1, <2>2 DEF Types
<1>4. ASSUME NEW s \in Sends, NEW f \in Folders, SendCreate(s, f) PROVE Types'
  <2>1. /\ send' \in [Sends -> Send]
        /\ gate' \in [Workspaces -> Gate]
        /\ handle' \in [Folders -> [open : BOOLEAN, users : Int]]
        /\ disk' \in [records : [Workspaces -> Folders \cup {None}], folders : [Folders -> Folder]]
        /\ made' \subseteq Folders
        /\ faults' \in 0 .. MaxFaults
    <3>1. (\E w \in Workspaces : OneGate(w)) /\ Only(s) /\ OneFolder(f) /\ faults' \in 0 .. MaxFaults
          /\ made' = made \cup {f} /\ handle' \in [Folders -> Handle]
      BY <1>4, CreateDoes DEF Creates
    <3> QED
      BY <3>1 DEF Types, Only, OneGate, Handle, OneFolder
  <2>2. UNCHANGED <<process, home, observing, watch, records, cleaner, closing, life, cleared, published, crashes, vanished>>
    BY <1>4, CreateDoes DEF Creates, history, bounds, memory
  <2> QED
    BY <2>1, <2>2 DEF Types
<1>5. ASSUME NEW s \in Sends, SendRecord(s) PROVE Types'
  <2>1. /\ send' \in [Sends -> Send]
        /\ gate' \in [Workspaces -> Gate]
        /\ handle' \in [Folders -> [open : BOOLEAN, users : Int]]
        /\ disk' \in [records : [Workspaces -> Folders \cup {None}], folders : [Folders -> Folder]]
        /\ records' \in [Workspaces -> Folders \cup {None}]
        /\ faults' \in 0 .. MaxFaults
    BY <1>5, RecordDoes DEF Records, Only, OneGate, OneHandle, Handle, OneFolder, OneRecord
  <2>2. UNCHANGED <<process, home, observing, watch, cleaner, closing, made, life, cleared, published, crashes, vanished>>
    BY <1>5, RecordDoes DEF Records, history, bounds, memory
  <2> QED
    BY <2>1, <2>2 DEF Types
<1>6. ASSUME NEW s \in Sends, SendReserve(s) PROVE Types'
  <2>1. /\ send' \in [Sends -> Send]
        /\ disk' \in [records : [Workspaces -> Folders \cup {None}], folders : [Folders -> Folder]]
    BY <1>6, ReserveDoes DEF Reserves, Only, OneFolder
  <2>2. UNCHANGED <<process, home, observing, watch, records, gate, handle, cleaner, closing, made, life, cleared, published, faults, crashes, vanished>>
    BY <1>6, ReserveDoes DEF Reserves, history, bounds, memory
  <2> QED
    BY <2>1, <2>2 DEF Types
<1>7. ASSUME NEW s \in Sends, SendRollback(s) PROVE Types'
  <2>1. /\ send' \in [Sends -> Send]
        /\ disk' \in [records : [Workspaces -> Folders \cup {None}], folders : [Folders -> Folder]]
        /\ faults' \in 0 .. MaxFaults
    BY <1>7, RollbackDoes DEF RollsBack, Only, OneFolder
  <2>2. UNCHANGED <<process, home, observing, watch, records, gate, handle, cleaner, closing, made, life, cleared, published, crashes, vanished>>
    BY <1>7, RollbackDoes DEF RollsBack, history, bounds, memory
  <2> QED
    BY <2>1, <2>2 DEF Types
<1>8. ASSUME NEW s \in Sends, SendRelease(s) PROVE Types'
  <2>1. /\ send' \in [Sends -> Send]
        /\ handle' \in [Folders -> [open : BOOLEAN, users : Int]]
    BY <1>8, ReleaseDoes DEF Releases, Only, OneHandle, Handle
  <2>2. UNCHANGED <<process, home, observing, watch, records, gate, cleaner, closing, disk, made, life, cleared, published, faults, crashes, vanished>>
    BY <1>8, ReleaseDoes DEF Releases, history, bounds, memory
  <2> QED
    BY <2>1, <2>2 DEF Types
<1>9. ASSUME NEW w \in Workspaces, CloseStop(w) PROVE Types'
  <2>1. /\ send' \in [Sends -> Send]
        /\ gate' \in [Workspaces -> Gate]
        /\ closing' \in [stop : SUBSET Workspaces, lock : SUBSET Workspaces, done : SUBSET Workspaces]
    BY <1>9, CloseStopDoes DEF Stops, OneGate
  <2>2. UNCHANGED <<process, home, observing, watch, records, handle, cleaner, disk, made, life, cleared, published, faults, crashes, vanished>>
    BY <1>9, CloseStopDoes DEF Stops, history, bounds
  <2> QED
    BY <2>1, <2>2 DEF Types
<1>10. ASSUME NEW c \in Cleaners, CleanupStop(c) PROVE Types'
  <2>1. /\ send' \in [Sends -> Send]
        /\ gate' \in [Workspaces -> Gate]
        /\ cleaner' \in [Cleaners -> Cleanup]
    BY <1>10, CleanupStopDoes DEF Stops, OneGate, OneCleanup
  <2>2. UNCHANGED <<process, home, observing, watch, records, handle, closing, disk, made, life, cleared, published, faults, crashes, vanished>>
    BY <1>10, CleanupStopDoes DEF Stops, history, bounds
  <2> QED
    BY <2>1, <2>2 DEF Types
<1>11. ASSUME NEW c \in Cleaners, CleanupAnnounce(c) PROVE Types'
  <2>1. /\ cleaner' \in [Cleaners -> Cleanup]
    BY <1>11, AnnounceDoes DEF OneCleanup
  <2>2. UNCHANGED <<process, home, observing, watch, records, gate, handle, closing, send, disk, made, life, cleared, published, faults, crashes, vanished>>
    BY <1>11, AnnounceDoes DEF history, bounds, memory
  <2> QED
    BY <2>1, <2>2 DEF Types
<1>12. ASSUME NEW c \in Cleaners, CleanupOpen(c) PROVE Types'
  <2>1. /\ gate' \in [Workspaces -> Gate]
        /\ handle' \in [Folders -> [open : BOOLEAN, users : Int]]
        /\ cleaner' \in [Cleaners -> Cleanup]
        /\ faults' \in 0 .. MaxFaults
    <3>1. (\E w \in Workspaces : OneGate(w)) /\ OneCleanup(c) /\ faults' \in 0 .. MaxFaults
          /\ (handle' = handle \/ \E f \in Folders : OneHandle(f))
      BY <1>12, CleanupOpenDoes DEF Opens
    <3> QED
      BY <3>1 DEF Types, OneGate, OneHandle, Handle, OneCleanup
  <2>2. UNCHANGED <<process, home, observing, watch, records, closing, send, disk, made, life, cleared, published, crashes, vanished>>
    BY <1>12, CleanupOpenDoes DEF Opens, history, bounds, memory
  <2> QED
    BY <2>1, <2>2 DEF Types
<1>13. ASSUME NEW c \in Cleaners, CleanupRemove(c) PROVE Types'
  <2>1. /\ gate' \in [Workspaces -> Gate]
        /\ handle' \in [Folders -> [open : BOOLEAN, users : Int]]
        /\ cleaner' \in [Cleaners -> Cleanup]
        /\ disk' \in [records : [Workspaces -> Folders \cup {None}], folders : [Folders -> Folder]]
        /\ faults' \in 0 .. MaxFaults
    <3>1. (\E w \in Workspaces : OneGate(w)) /\ OneCleanup(c) /\ faults' \in 0 .. MaxFaults
          /\ (\E f \in Folders : OneFolder(f)) /\ (handle' = handle \/ \E f \in Folders : OneHandle(f))
      BY <1>13, RemoveDoes DEF Removes
    <3> QED
      BY <3>1 DEF Types, OneGate, OneHandle, Handle, OneCleanup, OneFolder
  <2>2. UNCHANGED <<process, home, observing, watch, records, closing, send, made, life, cleared, published, crashes, vanished>>
    BY <1>13 DEF CleanupRemove, history
  <2> QED
    BY <2>1, <2>2 DEF Types
<1>14. ASSUME NEW c \in Cleaners, CleanupClear(c) PROVE Types'
  <2>1. /\ gate' \in [Workspaces -> Gate]
        /\ cleaner' \in [Cleaners -> Cleanup]
        /\ records' \in [Workspaces -> Folders \cup {None}]
        /\ disk' \in [records : [Workspaces -> Folders \cup {None}], folders : [Folders -> Folder]]
        /\ faults' \in 0 .. MaxFaults
    BY <1>14, ClearDoes DEF Clears, OneGate, OneCleanup, OneRecord
  <2>2. UNCHANGED <<process, home, observing, watch, handle, closing, send, made, life, cleared, published, crashes, vanished>>
    BY <1>14, ClearDoes DEF Clears, history, bounds, memory
  <2> QED
    BY <2>1, <2>2 DEF Types
<1>15. ASSUME Ended, closing' = NotClosing, UNCHANGED <<disk, made, life, cleared, published, faults, vanished>>,
              crashes' \in 0 .. MaxCrashes
       PROVE  Types'
  <2>1. closing' \in [stop : SUBSET Workspaces, lock : SUBSET Workspaces, done : SUBSET Workspaces]
    BY <1>15 DEF NotClosing
  <2>2. /\ process' \in {"down", "up", "closing", "stopping"} /\ home' \subseteq Workspaces
        /\ records' \in [Workspaces -> Folders \cup {None}] /\ gate' \in [Workspaces -> Gate]
        /\ handle' \in [Folders -> [open : BOOLEAN, users : Int]] /\ send' \in [Sends -> Send]
        /\ cleaner' \in [Cleaners -> Cleanup]
    BY <1>15, EndedDoes DEF Handle
  <2>3. observing' = FALSE /\ watch' = [observed |-> FALSE, workspaces |-> {}]
    BY <1>15, EndedDoes
  <2>4. observing' \in BOOLEAN
    BY <2>3, Zenon
  <2>5. watch' \in [observed : BOOLEAN, workspaces : SUBSET Workspaces]
    BY <2>3
  <2> QED
    BY <1>15, <2>1, <2>2, <2>4, <2>5 DEF Types
<1>16. CASE Open
  <2>1. /\ process' \in {"down", "up", "closing", "stopping"}
        /\ records' \in [Workspaces -> Folders \cup {None}]
        /\ gate' \in [Workspaces -> Gate]
    BY <1>16, OpenDoes DEF Types
  <2>2. UNCHANGED <<home, observing, watch, handle, cleaner, closing, send, disk, made, life, cleared, published, faults, crashes, vanished>>
    BY <1>16, OpenDoes DEF history, bounds, memory
  <2> QED
    BY <2>1, <2>2 DEF Types
<1>17. ASSUME NEW f \in Folders, Vanish(f) PROVE Types'
  <2>1. /\ disk' \in [records : [Workspaces -> Folders \cup {None}], folders : [Folders -> Folder]]
        /\ vanished' \in 0 .. MaxVanished
    BY <1>17, VanishDoes DEF OneFolder
  <2>2. UNCHANGED <<process, home, observing, watch, records, gate, handle, cleaner, closing, send, made, life, cleared, published, faults, crashes>>
    BY <1>17, VanishDoes DEF history, bounds, memory
  <2> QED
    BY <2>1, <2>2 DEF Types
<1>18. ASSUME NEW workspaces \in SUBSET Workspaces, Publish(workspaces) PROVE Types'
  <2>1. /\ home' \subseteq Workspaces
        /\ life' \in [Workspaces -> {"new", "present", "gone"}]
        /\ published' \in 0 .. MaxPublications
    BY <1>18, PublishDoes
  <2>2. UNCHANGED <<process, watch, records, gate, handle, cleaner, closing, send, disk, made, cleared, faults, crashes, vanished>>
    BY <1>18, PublishDoes DEF history, bounds, memory
  <2>3. observing' \in BOOLEAN
    <3>1. observing' = TRUE \/ observing' = FALSE
      BY <1>18, PublishDoes
    <3> QED
      BY <3>1, Zenon
  <2> QED
    BY <2>1, <2>2, <2>3 DEF Types
<1>19. CASE ObservePublishedSnapshot
  <2>1. /\ watch' \in [observed : BOOLEAN, workspaces : SUBSET Workspaces]
        /\ cleaner' \in [Cleaners -> Cleanup]
        /\ cleared' \subseteq Sends
    <3>1. watch' \in {watch, [observed |-> TRUE, workspaces |-> home]}
      BY <1>19, ObserveDoes
    <3>2. watch' \in [observed : BOOLEAN, workspaces : SUBSET Workspaces]
      <4>1. home \in SUBSET Workspaces /\ watch \in [observed : BOOLEAN, workspaces : SUBSET Workspaces]
        BY DEF Types
      <4>2. [observed |-> TRUE, workspaces |-> home] \in [observed : BOOLEAN, workspaces : SUBSET Workspaces]
        BY <4>1
      <4> QED
        BY <3>1, <4>1, <4>2
    <3>3. cleared' \subseteq Sends
      BY <1>19 DEF ObservePublishedSnapshot, Types
    <3> QED
      BY <1>19, <3>2, <3>3, ObserveDoes
  <2>2. UNCHANGED <<process, home, records, gate, handle, closing, send, disk, made, life, published, faults, crashes, vanished>>
    BY <1>19, ObserveDoes DEF history, bounds, memory
  <2>3. observing' \in BOOLEAN
    <3>1. observing' = TRUE \/ observing' = FALSE
      BY <1>19, ObserveDoes
    <3> QED
      BY <3>1, Zenon
  <2> QED
    BY <2>1, <2>2, <2>3 DEF Types
<1>20. CASE CloseBegin
  <2>1. /\ process' \in {"down", "up", "closing", "stopping"}
    BY <1>20 DEF CloseBegin
  <2>2. UNCHANGED <<home, observing, watch, records, gate, handle, cleaner, closing, send, disk, made, life, cleared, published, faults, crashes, vanished>>
    BY <1>20 DEF CloseBegin, memory, history, bounds
  <2> QED
    BY <2>1, <2>2 DEF Types
<1>21. CASE CloseGates
  <2>1. /\ process' \in {"down", "up", "closing", "stopping"}
        /\ closing' \in [stop : SUBSET Workspaces, lock : SUBSET Workspaces, done : SUBSET Workspaces]
    BY <1>21, CloseGatesDoes
  <2>2. UNCHANGED <<home, observing, watch, records, gate, handle, cleaner, send, disk, made, life, cleared, published, faults, crashes, vanished>>
    BY <1>21, CloseGatesDoes DEF history, bounds, memory
  <2> QED
    BY <2>1, <2>2 DEF Types
<1>22. ASSUME NEW w \in Workspaces, CloseLock(w) PROVE Types'
  <2>1. /\ gate' \in [Workspaces -> Gate]
        /\ handle' \in [Folders -> [open : BOOLEAN, users : Int]]
        /\ closing' \in [stop : SUBSET Workspaces, lock : SUBSET Workspaces, done : SUBSET Workspaces]
    BY <1>22, CloseLockDoes DEF OneGate, Handle
  <2>2. UNCHANGED <<process, home, observing, watch, records, cleaner, send, disk, made, life, cleared, published, faults, crashes, vanished>>
    BY <1>22, CloseLockDoes DEF history, bounds, memory
  <2> QED
    BY <2>1, <2>2 DEF Types
<1>23. CASE Crash
  <2>1. crashes' \in 0 .. MaxCrashes
    BY <1>23, UploadBoundsAreNaturals DEF Crash, Types
  <2> QED
    BY <1>15, <1>23, <2>1 DEF Crash, history
<1>24. CASE Exit
  <2>1. crashes' \in 0 .. MaxCrashes
    BY <1>24 DEF Exit, Types, bounds
  <2> QED
    BY <1>15, <1>24, <2>1 DEF Exit, history, bounds
<1>25. CASE UNCHANGED vars
  <2>1. UNCHANGED <<process, home, observing, watch, records, gate, handle, cleaner, closing, send, disk, made, life, cleared, published, faults, crashes, vanished>>
    BY <1>25 DEF vars, memory, history, bounds
  <2> QED
    BY <2>1 DEF Types
<1>26. ASSUME NEW s \in Sends, SendStep(s) PROVE Types'
  BY <1>1, <1>3, <1>4, <1>5, <1>6, <1>7, <1>8, <1>26, EnterDoes, ValidateDoes, ReadDoes, ForwardDoes, ResultDoes DEF SendStep
<1> QED
  BY <1>2, <1>9, <1>10, <1>11, <1>12, <1>13, <1>14, <1>16, <1>17, <1>18, <1>19, <1>20, <1>21, <1>22, <1>23, <1>24,
     <1>25, <1>26 DEF Next, CleanupStep, CloseStep

\* A step of a send on its own.
Walk(s) == \/ SendEnter(s) \/ SendValidate(s) \/ SendRead(s) \/ SendForward(s)
           \/ \E result \in {"forwarded", "unknown", "occupied", "not_sent"} : SendResult(s, result)

LEMMA WalkDoes ==
    ASSUME Types, Phases, NEW s \in Sends, Walk(s)
    PROVE  /\ Walks(s) /\ PhaseOK(send'[s])
           /\ send'[s].at \in {"entered", "validated", "staged", "forwarding", "rollback", "release", "done"}
<1> USE DEF PhaseOK, Holding, Answering, Kept, Failed
<1>0. PhaseOK(send[s])
  BY DEF Phases
<1>1. CASE SendEnter(s)
  BY <1>0, <1>1, EnterDoes DEF Walks
<1>2. CASE SendValidate(s)
  BY <1>0, <1>2, ValidateDoes DEF Walks
<1>3. CASE SendRead(s)
  BY <1>0, <1>3, ReadDoes DEF Walks
<1>4. CASE SendForward(s)
  BY <1>0, <1>4, ForwardDoes DEF Walks
<1>5. ASSUME NEW result \in {"forwarded", "unknown", "occupied", "not_sent"}, SendResult(s, result)
      PROVE  /\ Walks(s) /\ PhaseOK(send'[s])
             /\ send'[s].at \in {"entered", "validated", "staged", "forwarding", "rollback", "release", "done"}
  BY <1>0, <1>5, ResultDoes DEF Walks
<1> QED
  BY <1>1, <1>2, <1>3, <1>4, <1>5 DEF Walk

LEMMA OnePhase ==
    ASSUME Phases, NEW s \in Sends, Only(s), PhaseOK(send'[s])
    PROVE  Phases'
<1>1. \A r \in Sends : r # s => PhaseOK(send'[r])
  BY DEF Phases, Only
<1> QED
  BY <1>1 DEF Phases

LEMMA PhasesNext == ASSUME Types, Phases, Cleanups, Associations, [Next]_vars PROVE Phases'
<1>0. ASSUME NEW s \in Sends PROVE PhaseOK(send[s])
  BY DEF Phases
<1>1. ASSUME NEW s \in Sends, Walk(s) PROVE Phases'
  <2>1. Only(s) /\ PhaseOK(send'[s])
    BY <1>1, WalkDoes DEF Walks
  <2> QED
    BY <2>1, OnePhase
<1>2. ASSUME NEW s \in Sends, NEW w \in Workspaces, SendBegin(s, w) PROVE Phases'
  <2>1. /\ Only(s)
           /\ send[s].at = "new"
           /\ send'[s].at = "gate" /\ send'[s].ws = w
           /\ send'[s].dir = send[s].dir /\ send'[s].result = send[s].result
    BY <1>2, BeginDoes
  <2>2. PhaseOK(send'[s])
    BY <1>0, <2>1, NothingIsNone DEF PhaseOK, Holding, Answering, Kept, Failed
  <2> QED
    BY <2>1, <2>2, OnePhase
<1>3. ASSUME NEW s \in Sends, SendReuse(s) PROVE Phases'
  <2>1. PICK w \in Workspaces, f \in Folders : 
           /\ Only(s)
           /\ send[s].at = "validated" /\ w = send[s].ws
           /\ send'[s].at = "ensured" /\ send'[s].ws = w /\ send'[s].dir = f /\ send'[s].result = send[s].result
    BY <1>3, ReuseDoes DEF Reuses
  <2>2. PhaseOK(send'[s])
    BY <1>0, <2>1, NothingIsNone DEF PhaseOK, Holding, Answering, Kept, Failed
  <2> QED
    BY <2>1, <2>2, OnePhase
<1>4. ASSUME NEW s \in Sends, NEW f \in Folders, SendCreate(s, f) PROVE Phases'
  <2>1. PICK w \in Workspaces : 
           /\ Only(s)
           /\ send[s].at = "validated" /\ w = send[s].ws /\ send'[s].ws = w
           /\ \/ send'[s].at = "recording" /\ send'[s].dir = f /\ send'[s].result = send[s].result
              \/ send'[s].at = "done" /\ send'[s].dir = send[s].dir /\ send'[s].result = "not_sent"
    BY <1>4, CreateDoes DEF Creates
  <2>2. PhaseOK(send'[s])
    BY <1>0, <2>1, NothingIsNone DEF PhaseOK, Holding, Answering, Kept, Failed
  <2> QED
    BY <2>1, <2>2, OnePhase
<1>5. ASSUME NEW s \in Sends, SendRecord(s) PROVE Phases'
  <2>0. PICK w \in Workspaces, f \in Folders : Records(s, w, f)
    BY <1>5, RecordDoes
  <2>1. /\ Only(s)
        /\ send[s].at = "recording" /\ w = send[s].ws /\ send'[s].ws = w
        /\ \/ send'[s].at = "ensured" /\ send'[s].dir = f /\ send'[s].result = send[s].result
           \/ send'[s].at = "done" /\ send'[s].dir = None /\ send'[s].result = "not_sent"
    BY <2>0 DEF Records
  <2>2. PhaseOK(send'[s])
    BY <1>0, <2>1, NothingIsNone DEF PhaseOK, Holding, Answering, Kept, Failed
  <2> QED
    BY <2>1, <2>2, OnePhase
<1>6. ASSUME NEW s \in Sends, SendReserve(s) PROVE Phases'
  <2>1. /\ Only(s)
           /\ send[s].at = "ensured" /\ send'[s].ws = send[s].ws /\ send'[s].dir = send[s].dir
           /\ \/ send'[s].at = "reading" /\ send'[s].result = send[s].result
              \/ send'[s].at = "release" /\ send'[s].result = "not_sent"
    BY <1>6, ReserveDoes DEF Reserves
  <2>2. PhaseOK(send'[s])
    BY <1>0, <2>1, NothingIsNone DEF PhaseOK, Holding, Answering, Kept, Failed
  <2> QED
    BY <2>1, <2>2, OnePhase
<1>7. ASSUME NEW s \in Sends, SendRollback(s) PROVE Phases'
  <2>1. /\ Only(s)
           /\ send[s].at = "rollback" /\ send'[s].ws = send[s].ws /\ send'[s].dir = send[s].dir
           /\ send'[s].at = "release" /\ send'[s].result = send[s].result
    BY <1>7, RollbackDoes DEF RollsBack
  <2>2. PhaseOK(send'[s])
    BY <1>0, <2>1, NothingIsNone DEF PhaseOK, Holding, Answering, Kept, Failed
  <2> QED
    BY <2>1, <2>2, OnePhase
<1>8. ASSUME NEW s \in Sends, SendRelease(s) PROVE Phases'
  <2>1. /\ Only(s)
           /\ send[s].at = "release" /\ send'[s].ws = send[s].ws /\ send'[s].dir = None
           /\ send'[s].at = "done" /\ send'[s].result = send[s].result
    BY <1>8, ReleaseDoes DEF Releases
  <2>2. PhaseOK(send'[s])
    BY <1>0, <2>1, NothingIsNone DEF PhaseOK, Holding, Answering, Kept, Failed
  <2> QED
    BY <2>1, <2>2, OnePhase
<1>9. ASSUME NEW w \in Workspaces, Stops(w) PROVE Phases'
  <2>1. \A s \in Sends : /\ send'[s].at = send[s].at /\ send'[s].ws = send[s].ws /\ send'[s].dir = send[s].dir
                         /\ send'[s].result = send[s].result
    BY <1>9 DEF Stops
  <2> QED
    BY <1>0, <2>1 DEF Phases, PhaseOK
<1>10. CASE Ended
  <2> SUFFICES ASSUME NEW s \in Sends PROVE PhaseOK(send'[s])
    BY DEF Phases
  <2>1. \/ send'[s] = send[s]
        \/ /\ send[s].at # "new" /\ send'[s].at = "done" /\ send'[s].ws = send[s].ws /\ send'[s].dir = None
           /\ send'[s].result \in Kept \cup {"lost"}
    BY <1>10, EndedDoes
  <2> QED
    BY <1>0, <2>1 DEF PhaseOK, Holding, Answering, Kept
<1>11. ASSUME UNCHANGED send PROVE Phases'
  BY <1>11 DEF Phases
<1>12. ASSUME NEW c \in Cleaners, CleanupStep(c) PROVE Phases'
  BY <1>9, <1>11, <1>12, CleanupStopDoes DEF CleanupStep, CleanupAnnounce, CleanupOpen, CleanupRemove, CleanupClear
<1>13. CASE CloseStep
  BY <1>9, <1>10, <1>11, <1>13, CloseStopDoes DEF CloseStep, CloseGates, Exit, CloseLock
<1>14. ASSUME NEW s \in Sends, SendStep(s) PROVE Phases'
  BY <1>1, <1>3, <1>4, <1>5, <1>6, <1>7, <1>8, <1>14 DEF SendStep, Walk
<1> QED
  BY <1>2, <1>10, <1>11, <1>12, <1>13, <1>14 DEF Next, Open, Crash, CloseBegin, Vanish, Publish, ObservePublishedSnapshot, vars

\* A step that leaves the setup mutexes alone.
LEMMA SetupsKeep ==
    ASSUME Setups, NEW s \in Sends, Only(s), send[s].at # "recording", send'[s].at # "recording",
           \A w \in Workspaces : gate'[w].setup = gate[w].setup
    PROVE  Setups'
<1> SUFFICES ASSUME NEW w \in Workspaces, NEW r \in Sends
             PROVE  gate'[w].setup = r <=> send'[r].at = "recording" /\ send'[r].ws = w
  BY DEF Setups
<1>1. gate'[w].setup = r <=> send[r].at = "recording" /\ send[r].ws = w
  BY DEF Setups
<1>2. CASE r = s
  BY <1>1, <1>2
<1>3. CASE r # s
  BY <1>1, <1>3 DEF Only
<1> QED
  BY <1>2, <1>3

LEMMA SetupsNext == ASSUME Types, Phases, Cleanups, Associations, Setups, Down, [Next]_vars PROVE Setups'
<1>1. ASSUME NEW s \in Sends, Walk(s) PROVE Setups'
  <2>1. UNCHANGED gate /\ Only(s) /\ send[s].at # "recording" /\ send'[s].at # "recording"
    BY <1>1, WalkDoes DEF Walks, memory
  <2> QED
    BY <2>1, SetupsKeep
<1>2. ASSUME NEW s \in Sends, NEW w \in Workspaces, SendBegin(s, w) PROVE Setups'
  <2>1. /\ Only(s) /\ send[s].at # "recording" /\ send'[s].at # "recording"
        /\ OneGate(w) /\ gate'[w] = [gate[w] EXCEPT !.known = TRUE]
    BY <1>2, BeginDoes
  <2>2. gate[w] \in Gate
    BY DEF Types
  <2>3. gate'[w].setup = gate[w].setup
    BY <2>1, <2>2 DEF Gate
  <2>4. \A v \in Workspaces : gate'[v].setup = gate[v].setup
    BY <2>1, <2>3 DEF OneGate
  <2> QED
    BY <2>1, <2>4, SetupsKeep
<1>3. ASSUME NEW s \in Sends, SendReuse(s) PROVE Setups'
  <2>1. PICK w \in Workspaces, f \in Folders :
           /\ Only(s) /\ send[s].at # "recording" /\ send'[s].at # "recording"
           /\ OneGate(w) /\ gate'[w] = [gate[w] EXCEPT !.directory = f]
    BY <1>3, ReuseDoes DEF Reuses
  <2>2. gate[w] \in Gate
    BY DEF Types
  <2>3. gate'[w].setup = gate[w].setup
    BY <2>1, <2>2 DEF Gate
  <2>4. \A v \in Workspaces : gate'[v].setup = gate[v].setup
    BY <2>1, <2>3 DEF OneGate
  <2> QED
    BY <2>1, <2>4, SetupsKeep
<1>4. ASSUME NEW s \in Sends, NEW f \in Folders, SendCreate(s, f) PROVE Setups'
  <2>1. PICK w \in Workspaces : /\ w = send[s].ws /\ gate[w].setup = None /\ Only(s) /\ send'[s].ws = w /\ OneGate(w)
                                /\ \/ send'[s].at = "recording" /\ gate'[w] = [gate[w] EXCEPT !.directory = None, !.setup = s]
                                   \/ send'[s].at = "done" /\ gate'[w] = [gate[w] EXCEPT !.directory = None]
                                /\ send[s].at = "validated"
    BY <1>4, CreateDoes DEF Creates
  <2>2. \/ send'[s].at = "recording" /\ gate'[w].setup = s
        \/ send'[s].at = "done" /\ gate'[w].setup = None
    BY <2>1 DEF Types, Gate
  <2> QED
    BY <2>1, <2>2, NothingIsNone DEF Only, OneGate, Setups
<1>5. ASSUME NEW s \in Sends, SendRecord(s) PROVE Setups'
  <2>0. PICK w \in Workspaces, f \in Folders : Records(s, w, f)
    BY <1>5, RecordDoes
  <2>1. /\ w = send[s].ws /\ Only(s) /\ send'[s].ws = w /\ OneGate(w)
        /\ send'[s].at # "recording" /\ send[s].at = "recording"
        /\ \/ gate'[w] = [gate[w] EXCEPT !.association = f, !.directory = f, !.setup = None]
           \/ gate'[w] = [gate[w] EXCEPT !.setup = None]
    BY <2>0 DEF Records
  <2>3. gate[w] \in Gate
    BY DEF Types
  <2>4. gate'[w].setup = None
    BY <2>1, <2>3 DEF Gate
  <2>2. gate[w].setup = s
    BY <2>1 DEF Setups
  <2> SUFFICES ASSUME NEW v \in Workspaces, NEW r \in Sends
               PROVE  gate'[v].setup = r <=> send'[r].at = "recording" /\ send'[r].ws = v
    BY DEF Setups
  <2>5. gate[v].setup = r <=> send[r].at = "recording" /\ send[r].ws = v
    BY DEF Setups
  <2>6. CASE r = s
    BY <2>1, <2>2, <2>4, <2>5, <2>6, NothingIsNone DEF OneGate
  <2>7. CASE r # s
    BY <2>1, <2>2, <2>4, <2>5, <2>7, NothingIsNone DEF OneGate, Only
  <2> QED
    BY <2>6, <2>7
<1>6. ASSUME NEW s \in Sends, SendReserve(s) \/ SendRollback(s) \/ SendRelease(s) PROVE Setups'
  <2>1. UNCHANGED gate /\ Only(s) /\ send[s].at # "recording" /\ send'[s].at # "recording"
    <3>1. CASE SendReserve(s)
      BY <3>1, ReserveDoes DEF Reserves, memory
    <3>2. CASE SendRollback(s)
      BY <3>2, RollbackDoes DEF RollsBack, memory
    <3>3. CASE SendRelease(s)
      BY <3>3, ReleaseDoes DEF Releases
    <3> QED
      BY <1>6, <3>1, <3>2, <3>3
  <2> QED
    BY <2>1, SetupsKeep
<1>7. ASSUME NEW w \in Workspaces, Stops(w) PROVE Setups'
  BY <1>7 DEF Stops, OneGate, Setups
<1>8. CASE Ended
  <2>1. \A w \in Workspaces : gate'[w].setup = None
    BY <1>8, EndedDoes DEF NewGate
  <2>2. \A s \in Sends : send'[s].at # "recording"
    BY <1>8, EndedDoes
  <2> QED
    BY <2>1, <2>2, NothingIsNone DEF Setups
<1>9. CASE Open
  <2>1. \A w \in Workspaces : gate'[w].setup = None
    BY <1>9, OpenDoes DEF NewGate
  <2>2. \A s \in Sends : send'[s].at # "recording"
    BY <1>9, OpenDoes DEF Down
  <2> QED
    BY <2>1, <2>2, NothingIsNone DEF Setups
<1>10. ASSUME UNCHANGED send, \A w \in Workspaces : gate'[w].setup = gate[w].setup PROVE Setups'
  BY <1>10 DEF Setups
<1>11. ASSUME NEW c \in Cleaners, CleanupOpen(c) PROVE Setups'
  <2>1. UNCHANGED send /\ \A w \in Workspaces : gate'[w].setup = gate[w].setup
    BY <1>11, CleanupOpenDoes DEF Opens, OneGate
  <2> QED
    BY <2>1, <1>10
<1>12. ASSUME NEW c \in Cleaners, CleanupRemove(c) PROVE Setups'
  <2>1. UNCHANGED send /\ \A w \in Workspaces : gate'[w].setup = gate[w].setup
    BY <1>12, RemoveDoes DEF Removes, OneGate
  <2> QED
    BY <2>1, <1>10
<1>13. ASSUME NEW c \in Cleaners, CleanupClear(c) PROVE Setups'
  <2>1. UNCHANGED send /\ \A w \in Workspaces : gate'[w].setup = gate[w].setup
    BY <1>13, ClearDoes DEF Clears, OneGate
  <2> QED
    BY <2>1, <1>10
<1>14. ASSUME NEW w \in Workspaces, CloseLock(w) PROVE Setups'
  <2>1. UNCHANGED send /\ OneGate(w) /\ gate'[w] = [gate[w] EXCEPT !.directory = None]
    BY <1>14, CloseLockDoes
  <2>2. \A v \in Workspaces : gate'[v].setup = gate[v].setup
    BY <2>1 DEF OneGate, Types, Gate
  <2> QED
    BY <2>1, <2>2, <1>10
<1>15. ASSUME UNCHANGED <<send, gate>> PROVE Setups'
  BY <1>15 DEF Setups
<1>16. ASSUME NEW c \in Cleaners, CleanupStep(c) PROVE Setups'
  BY <1>7, <1>11, <1>12, <1>13, <1>15, <1>16, CleanupStopDoes DEF CleanupStep, CleanupAnnounce
<1>17. CASE CloseStep
  BY <1>7, <1>8, <1>14, <1>15, <1>17, CloseStopDoes DEF CloseStep, CloseGates, Exit
<1>18. ASSUME NEW s \in Sends, SendStep(s) PROVE Setups'
  BY <1>1, <1>3, <1>4, <1>5, <1>6, <1>18 DEF SendStep, Walk
<1> QED
  BY <1>2, <1>8, <1>9, <1>15, <1>16, <1>17, <1>18
     DEF Next, Crash, CloseBegin, Vanish, Publish, ObservePublishedSnapshot, vars, memory

\* Which steps leave the process as it is.
LEMMA ProcessKeeps ==
    /\ \A s \in Sends : SendStep(s) => process' = process
    /\ \A c \in Cleaners : CleanupStep(c) => process' = process
    /\ \A w \in Workspaces : CloseStop(w) \/ CloseLock(w) => process' = process
<1>1. ASSUME NEW s \in Sends, SendStep(s) PROVE process' = process
  BY <1>1 DEF SendStep, SendEnter, SendValidate, SendReuse, SendCreate, SendRecord, SendReserve, SendRead, SendForward,
              SendResult, SendRollback, SendRelease
<1>2. ASSUME NEW c \in Cleaners, CleanupStep(c) PROVE process' = process
  BY <1>2 DEF CleanupStep, CleanupStop, CleanupAnnounce, CleanupOpen, CleanupRemove, CleanupClear
<1> QED
  BY <1>1, <1>2 DEF CloseStop, CloseLock

\* A process that is down runs nothing.
LEMMA DownRunsNothing ==
    ASSUME Down, Closed, process = "down"
    PROVE  /\ \A s \in Sends : ~SendStep(s)
           /\ \A c \in Cleaners : ~CleanupStep(c)
           /\ ~CloseStep
<1>1. ASSUME NEW s \in Sends, SendStep(s) PROVE FALSE
  <2>1. send[s].at \in {"new", "done"}
    BY DEF Down
  <2> QED
    BY <1>1, <2>1 DEF SendStep, SendEnter, SendValidate, SendReuse, SendCreate, SendRecord, SendReserve, SendRead, SendForward,
                      SendResult, SendRollback, SendRelease
<1>2. ASSUME NEW c \in Cleaners, CleanupStep(c) PROVE FALSE
  <2>1. cleaner[c].at = "none"
    BY DEF Down, NoCleanup
  <2> QED
    BY <1>2, <2>1 DEF CleanupStep, CleanupStop, CleanupAnnounce, CleanupOpen, CleanupRemove, CleanupClear
<1>3. ~CloseStep
  <2>1. closing.stop = {} /\ closing.lock = {}
    BY DEF Closed, NotClosing
  <2> QED
    BY <2>1 DEF CloseStep, CloseGates, Exit, CloseStop, CloseLock
<1> QED
  BY <1>1, <1>2, <1>3

LEMMA DownNext == ASSUME Types, Down, Closed, [Next]_vars PROVE Down'
<1>1. CASE Ended
  <2>1. /\ home' = {} /\ ~observing' /\ watch' = [observed |-> FALSE, workspaces |-> {}]
        /\ \A w \in Workspaces : gate'[w] = NewGate(None) /\ records'[w] = None
        /\ \A c \in Cleaners : cleaner'[c] = NoCleanup
    BY <1>1, EndedDoes
  <2>2. \A s \in Sends : send'[s].at \in {"new", "done"}
    BY <1>1, EndedDoes
  <2> QED
    BY <2>1, <2>2 DEF Down
<1>2. CASE UNCHANGED <<process, memory, send>>
  BY <1>2 DEF Down, memory
<1>3. ASSUME process' # "down" PROVE Down'
  BY <1>3 DEF Down
<1>4. ASSUME NEW s \in Sends, SendStep(s) PROVE Down'
  BY <1>3, <1>4, ProcessKeeps, DownRunsNothing
<1>5. ASSUME NEW c \in Cleaners, CleanupStep(c) PROVE Down'
  BY <1>3, <1>5, ProcessKeeps, DownRunsNothing
<1>6. CASE CloseStep
  <2>1. CASE CloseGates
    BY <1>3, <2>1 DEF CloseGates
  <2>2. ASSUME NEW w \in Workspaces, CloseStop(w) \/ CloseLock(w) PROVE Down'
    BY <1>3, <1>6, <2>2, ProcessKeeps, DownRunsNothing
  <2> QED
    BY <1>1, <1>6, <2>1, <2>2 DEF CloseStep, Exit
<1>7. ASSUME NEW s \in Sends, NEW w \in Workspaces, SendBegin(s, w) PROVE Down'
  BY <1>3, <1>7 DEF SendBegin, Running
<1>8. ASSUME NEW W \in SUBSET Workspaces, Publish(W) PROVE Down'
  BY <1>3, <1>8 DEF Publish, Running
<1>9. CASE ObservePublishedSnapshot
  <2>1. process' = process /\ observing
    BY <1>9 DEF ObservePublishedSnapshot
  <2>2. process # "down"
    BY <2>1 DEF Down
  <2> QED
    BY <1>3, <2>1, <2>2
<1>10. CASE Open \/ CloseBegin
  BY <1>3, <1>10 DEF Open, CloseBegin
<1> QED
  BY <1>1, <1>2, <1>4, <1>5, <1>6, <1>7, <1>8, <1>9, <1>10 DEF Next, Crash, Vanish, vars

\* A step that changes one gate keeps the associations.
LEMMA OneAssociation ==
    ASSUME Associations, NEW w \in Workspaces, OneGate(w), gate'[w].association = records'[w],
           gate'[w].directory \in {None, records'[w]},
           \A v \in Workspaces : v # w => records'[v] = records[v]
    PROVE  Associations'
<1> SUFFICES ASSUME NEW v \in Workspaces
             PROVE  gate'[v].association = records'[v] /\ gate'[v].directory \in {None, records'[v]}
  BY DEF Associations
<1>1. CASE v = w
  BY <1>1
<1>2. CASE v # w
  BY <1>2 DEF Associations, OneGate
<1> QED
  BY <1>1, <1>2

\* The fields of a gate after one is changed.
LEMMA GateFields ==
    ASSUME Types, NEW w \in Workspaces
    PROVE  /\ gate[w] \in Gate
           /\ \A x : /\ [gate[w] EXCEPT !.directory = x].directory = x
                     /\ [gate[w] EXCEPT !.directory = x].association = gate[w].association
                     /\ [gate[w] EXCEPT !.directory = x].setup = gate[w].setup
                     /\ [gate[w] EXCEPT !.directory = x].open = gate[w].open
           /\ \A x, s : /\ [gate[w] EXCEPT !.directory = x, !.setup = s].directory = x
                        /\ [gate[w] EXCEPT !.directory = x, !.setup = s].association = gate[w].association
                        /\ [gate[w] EXCEPT !.directory = x, !.setup = s].setup = s
                        /\ [gate[w] EXCEPT !.directory = x, !.setup = s].open = gate[w].open
           /\ \A a, x, s : /\ [gate[w] EXCEPT !.association = a, !.directory = x, !.setup = s].directory = x
                           /\ [gate[w] EXCEPT !.association = a, !.directory = x, !.setup = s].association = a
                           /\ [gate[w] EXCEPT !.association = a, !.directory = x, !.setup = s].setup = s
                           /\ [gate[w] EXCEPT !.association = a, !.directory = x, !.setup = s].open = gate[w].open
           /\ \A s : /\ [gate[w] EXCEPT !.setup = s].directory = gate[w].directory
                     /\ [gate[w] EXCEPT !.setup = s].association = gate[w].association
                     /\ [gate[w] EXCEPT !.setup = s].open = gate[w].open
           /\ \A x : /\ [gate[w] EXCEPT !.known = x].directory = gate[w].directory
                     /\ [gate[w] EXCEPT !.known = x].association = gate[w].association
                     /\ [gate[w] EXCEPT !.known = x].setup = gate[w].setup
                     /\ [gate[w] EXCEPT !.known = x].open = gate[w].open
<1>1. gate[w] \in Gate
  BY DEF Types
<1> QED
  BY <1>1 DEF Gate

LEMMA NewGateFields ==
    ASSUME NEW f
    PROVE  /\ NewGate(f).association = f /\ NewGate(f).directory = None
           /\ NewGate(f).setup = None /\ NewGate(f).open = TRUE
BY DEF NewGate

LEMMA AssociationsNext == ASSUME Types, Phases, Down, Associations, Cleanups, [Next]_vars PROVE Associations'
<1>1. CASE UNCHANGED <<records, gate>>
  BY <1>1 DEF Associations
<1>0. ASSUME NEW w \in Workspaces
      PROVE  gate[w].association = records[w] /\ gate[w].directory \in {None, records[w]}
  BY DEF Associations
<1>2. ASSUME NEW s \in Sends, NEW w \in Workspaces, SendBegin(s, w) PROVE Associations'
  <2>1. OneGate(w) /\ gate'[w] = [gate[w] EXCEPT !.known = TRUE] /\ records' = records
    BY <1>2, BeginDoes
  <2>2. gate'[w].association = gate[w].association /\ gate'[w].directory = gate[w].directory
    BY <2>1, GateFields
  <2> QED
    BY <1>0, <2>1, <2>2, OneAssociation
<1>3. ASSUME NEW s \in Sends, SendReuse(s) PROVE Associations'
  <2>0. PICK w \in Workspaces, f \in Folders : Reuses(s, w, f)
    BY <1>3, ReuseDoes
  <2>1. OneGate(w) /\ gate'[w] = [gate[w] EXCEPT !.directory = f] /\ records' = records /\ f = Old(w)
    BY <2>0 DEF Reuses
  <2>2. gate'[w].association = gate[w].association /\ gate'[w].directory = f
    BY <2>1, GateFields
  <2>3. f = records[w]
    BY <1>0, <2>1, NothingIsNone DEF Old
  <2> QED
    BY <1>0, <2>1, <2>2, <2>3, OneAssociation
<1>4. ASSUME NEW s \in Sends, NEW f \in Folders, SendCreate(s, f) PROVE Associations'
  <2>0. PICK w \in Workspaces : Creates(s, f, w)
    BY <1>4, CreateDoes
  <2>1. /\ OneGate(w) /\ records' = records
        /\ \/ gate'[w] = [gate[w] EXCEPT !.directory = None, !.setup = s]
           \/ gate'[w] = [gate[w] EXCEPT !.directory = None]
    BY <2>0 DEF Creates
  <2>2. gate'[w].association = gate[w].association /\ gate'[w].directory = None
    <3>1. CASE gate'[w] = [gate[w] EXCEPT !.directory = None, !.setup = s]
      BY <3>1, GateFields
    <3>2. CASE gate'[w] = [gate[w] EXCEPT !.directory = None]
      BY <3>2, GateFields
    <3> QED
      BY <2>1, <3>1, <3>2
  <2> QED
    BY <1>0, <2>1, <2>2, OneAssociation
<1>5. ASSUME NEW s \in Sends, SendRecord(s) PROVE Associations'
  <2>0. PICK w \in Workspaces, f \in Folders : Records(s, w, f)
    BY <1>5, RecordDoes
  <2>1. /\ OneGate(w) /\ OneRecord(w)
        /\ \/ gate'[w] = [gate[w] EXCEPT !.association = f, !.directory = f, !.setup = None] /\ records'[w] = f
           \/ gate'[w] = [gate[w] EXCEPT !.setup = None] /\ records' = records
    BY <2>0 DEF Records
  <2>2. \A v \in Workspaces : v # w => records'[v] = records[v]
    BY <2>1 DEF OneRecord
  <2>3. CASE gate'[w] = [gate[w] EXCEPT !.association = f, !.directory = f, !.setup = None] /\ records'[w] = f
    <3>1. gate'[w].association = f /\ gate'[w].directory = f
      BY <2>3, GateFields
    <3> QED
      BY <2>1, <2>2, <2>3, <3>1, OneAssociation
  <2>4. CASE gate'[w] = [gate[w] EXCEPT !.setup = None] /\ records' = records
    <3>1. gate'[w].association = gate[w].association /\ gate'[w].directory = gate[w].directory
      BY <2>4, GateFields
    <3> QED
      BY <1>0, <2>1, <2>2, <2>4, <3>1, OneAssociation
  <2> QED
    BY <2>1, <2>3, <2>4
<1>6. ASSUME NEW w \in Workspaces, Stops(w) PROVE Associations'
  BY <1>0, <1>6, OneAssociation DEF Stops
<1>7. ASSUME NEW c \in Cleaners, CleanupOpen(c) PROVE Associations'
  <2>0. PICK w \in Workspaces : Opens(c, w)
    BY <1>7, CleanupOpenDoes
  <2>1. /\ OneGate(w) /\ records' = records /\ gate'[w].association = gate[w].association
        /\ gate'[w].directory \in {records[w], gate[w].directory}
    BY <2>0 DEF Opens
  <2> QED
    BY <1>0, <2>1, OneAssociation
<1>8. ASSUME NEW c \in Cleaners, CleanupRemove(c) PROVE Associations'
  <2>0. PICK w \in Workspaces, f \in Folders : Removes(c, w, f)
    BY <1>8, RemoveDoes
  <2>1. /\ OneGate(w) /\ records' = records /\ gate'[w].association = gate[w].association
        /\ gate'[w].directory \in {None, gate[w].directory}
    BY <2>0 DEF Removes
  <2> QED
    BY <1>0, <2>1, OneAssociation
<1>9. ASSUME NEW c \in Cleaners, CleanupClear(c) PROVE Associations'
  <2>0. PICK w \in Workspaces : Clears(c, w)
    BY <1>9, ClearDoes
  <2>1. /\ OneGate(w) /\ OneRecord(w) /\ w = cleaner[c].ws /\ cleaner[c].at = "clearing"
        /\ gate'[w].directory = gate[w].directory
        /\ \/ gate'[w].association = None /\ records'[w] = None
           \/ gate'[w].association = gate[w].association /\ records' = records
    BY <2>0 DEF Clears
  <2>2. gate[w].directory = None
    BY <2>1 DEF Cleanups
  <2>3. \A v \in Workspaces : v # w => records'[v] = records[v]
    BY <2>1 DEF OneRecord
  <2> QED
    BY <1>0, <2>1, <2>2, <2>3, OneAssociation
<1>10. ASSUME NEW w \in Workspaces, CloseLock(w) PROVE Associations'
  <2>1. OneGate(w) /\ gate'[w] = [gate[w] EXCEPT !.directory = None] /\ records' = records
    BY <1>10, CloseLockDoes
  <2>2. gate'[w].association = gate[w].association /\ gate'[w].directory = None
    BY <2>1, GateFields
  <2> QED
    BY <1>0, <2>1, <2>2, OneAssociation
<1>11. CASE Ended
  <2>1. \A w \in Workspaces : records'[w] = None /\ gate'[w] = NewGate(None)
    BY <1>11, EndedDoes
  <2> QED
    BY <2>1 DEF Associations, NewGate
<1>12. CASE Open
  <2>1. \A w \in Workspaces : records'[w] = disk.records[w] /\ gate'[w] = NewGate(disk.records[w])
    BY <1>12, OpenDoes
  <2>2. \A w \in Workspaces : gate'[w].association = disk.records[w] /\ gate'[w].directory = None
    <3> TAKE w \in Workspaces
    <3> DEFINE f == disk.records[w]
    <3>1. gate'[w] = NewGate(f)
      BY <2>1
    <3> HIDE DEF f
    <3>2. gate'[w].association = f /\ gate'[w].directory = None
      BY <3>1, NewGateFields
    <3> QED
      BY <3>2 DEF f
  <2> QED
    BY <2>1, <2>2 DEF Associations
<1>13. ASSUME NEW c \in Cleaners, CleanupStep(c) PROVE Associations'
  BY <1>1, <1>6, <1>7, <1>8, <1>9, <1>13, CleanupStopDoes DEF CleanupStep, CleanupAnnounce
<1>14. CASE CloseStep
  BY <1>1, <1>6, <1>10, <1>11, <1>14, CloseStopDoes DEF CloseStep, CloseGates, Exit
<1>15. ASSUME NEW s \in Sends, SendStep(s) PROVE Associations'
  <2>1. ASSUME Walk(s) PROVE Associations'
    BY <1>1, <2>1, WalkDoes DEF Walks, memory
  <2>2. ASSUME SendReserve(s) \/ SendRollback(s) \/ SendRelease(s) PROVE Associations'
    BY <1>1, <2>2 DEF SendReserve, SendRollback, SendRelease, memory
  <2> QED
    BY <1>3, <1>4, <1>5, <1>15, <2>1, <2>2 DEF SendStep, Walk
<1> QED
  BY <1>1, <1>2, <1>11, <1>12, <1>13, <1>14, <1>15
     DEF Next, Crash, CloseBegin, Vanish, Publish, ObservePublishedSnapshot, vars, memory

\* The folders lose at most entries, and no send finds, makes or records one.
Fades ==
    \A f \in Folders :
        /\ disk.folders[f] = Absent => disk'.folders[f] = Absent
        /\ disk'.folders[f].there => disk.folders[f].there
        /\ Marker \in disk'.folders[f].entries => Marker \in disk.folders[f].entries
Lasts ==
    /\ made' = made
    /\ \A w \in Workspaces : /\ records'[w] \in {None, records[w]}
                             /\ disk'.records[w] \in {None, records[w], disk.records[w]}
    /\ \A s \in Sends : /\ send'[s].dir \in {None, send[s].dir}
                        /\ send'[s].dir # None => send'[s].ws = send[s].ws
                        /\ send'[s].at = "recording" => send[s].at = "recording" /\ send'[s].dir = send[s].dir /\ send'[s].ws = send[s].ws
Settles == Fades /\ Lasts

\* One folder fades, and with it the disk.
LEMMA OneFades ==
    ASSUME NEW f \in Folders, OneFolder(f),
           disk.folders[f] = Absent => disk'.folders[f] = Absent,
           disk'.folders[f].there => disk.folders[f].there,
           Marker \in disk'.folders[f].entries => Marker \in disk.folders[f].entries
    PROVE  Fades
<1> SUFFICES ASSUME NEW g \in Folders
             PROVE  /\ disk.folders[g] = Absent => disk'.folders[g] = Absent
                    /\ disk'.folders[g].there => disk.folders[g].there
                    /\ Marker \in disk'.folders[g].entries => Marker \in disk.folders[g].entries
  BY DEF Fades
<1>1. CASE g = f
  BY <1>1
<1>2. CASE g # f
  BY <1>2 DEF OneFolder
<1> QED
  BY <1>1, <1>2

\* One send goes on with its folder or without it.
LEMMA OneLasts ==
    ASSUME NEW s \in Sends, Only(s), send'[s].dir \in {None, send[s].dir},
           send'[s].dir # None => send'[s].ws = send[s].ws, send'[s].at # "recording"
    PROVE  \A r \in Sends : /\ send'[r].dir \in {None, send[r].dir}
                            /\ send'[r].dir # None => send'[r].ws = send[r].ws
                            /\ send'[r].at = "recording" => send[r].at = "recording" /\ send'[r].dir = send[r].dir /\ send'[r].ws = send[r].ws
<1> TAKE r \in Sends
<1>1. CASE r = s
  BY <1>1
<1>2. CASE r # s
  BY <1>2 DEF Only
<1> QED
  BY <1>1, <1>2

LEMMA Settling ==
    ASSUME Types, Phases, Cleanups, Associations, [Next]_vars
    PROVE  \/ Settles
           \/ \E s \in Sends : SendReuse(s) \/ SendRecord(s) \/ \E f \in Folders : SendCreate(s, f)
           \/ Open
<1>1. ASSUME UNCHANGED <<records, disk, made>>,
             \A r \in Sends : /\ send'[r].dir \in {None, send[r].dir}
                              /\ send'[r].dir # None => send'[r].ws = send[r].ws
                              /\ send'[r].at = "recording" => send[r].at = "recording" /\ send'[r].dir = send[r].dir /\ send'[r].ws = send[r].ws
      PROVE  Settles
  BY <1>1 DEF Settles, Fades, Lasts
<1>2. ASSUME UNCHANGED <<send, records, disk, made>> PROVE Settles
  BY <1>1, <1>2
<1>3. ASSUME NEW s \in Sends, Walk(s) PROVE Settles
  <2>1. /\ UNCHANGED <<records, disk, made>> /\ Only(s) /\ send'[s].ws = send[s].ws /\ send'[s].dir = send[s].dir
        /\ send'[s].at # "recording"
    BY <1>3, WalkDoes DEF Walks, memory
  <2> QED
    BY <1>1, <2>1, OneLasts
<1>4. ASSUME NEW s \in Sends, NEW w \in Workspaces, SendBegin(s, w) PROVE Settles
  <2>1. /\ UNCHANGED <<records, disk, made>> /\ Only(s) /\ send[s].at = "new" /\ send'[s].dir = send[s].dir /\ send'[s].at # "recording"
    BY <1>4, BeginDoes
  <2>2. send[s].dir = None
    BY <2>1 DEF Phases, PhaseOK, Holding
  <2> QED
    BY <1>1, <2>1, <2>2, OneLasts
<1>5. ASSUME NEW s \in Sends, SendReserve(s) PROVE Settles
  <2>0. PICK f \in Folders : Reserves(s, f)
    BY <1>5, ReserveDoes
  <2>1. /\ UNCHANGED <<records, made>> /\ Only(s) /\ send'[s].ws = send[s].ws /\ send'[s].dir = send[s].dir
        /\ send'[s].at # "recording" /\ OneFolder(f) /\ disk'.records = disk.records
        /\ \/ Verified(f) /\ disk'.folders[f] = [disk.folders[f] EXCEPT !.entries = @ \cup {s}]
           \/ disk'.folders[f] = disk.folders[f]
    BY <2>0 DEF Reserves, memory
  <2>2. disk.folders[f] \in Folder
    BY DEF Types
  <2>3. Fades
    <3>1. CASE Verified(f) /\ disk'.folders[f] = [disk.folders[f] EXCEPT !.entries = @ \cup {s}]
      <4>1. disk.folders[f].there /\ Marker \in disk.folders[f].entries
        BY <3>1 DEF Verified, Exists
      <4>2. disk.folders[f] # Absent
        BY <4>1 DEF Absent, NoDir
      <4> QED
        BY <2>1, <4>1, <4>2, OneFades
    <3>2. CASE disk'.folders[f] = disk.folders[f]
      BY <2>1, <3>2, OneFades
    <3> QED
      BY <2>1, <3>1, <3>2
  <2>4. Lasts
    BY <2>1, OneLasts DEF Lasts
  <2> QED
    BY <2>3, <2>4 DEF Settles
<1>6. ASSUME NEW s \in Sends, SendRollback(s) PROVE Settles
  <2>0. PICK f \in Folders : RollsBack(s, f)
    BY <1>6, RollbackDoes
  <2>1. /\ UNCHANGED <<records, made>> /\ Only(s) /\ send'[s].ws = send[s].ws /\ send'[s].dir = send[s].dir
        /\ send'[s].at # "recording" /\ OneFolder(f) /\ disk'.records = disk.records
        /\ disk'.folders[f] \in Folder /\ disk'.folders[f].there = disk.folders[f].there
        /\ disk'.folders[f].entries \in {disk.folders[f].entries, disk.folders[f].entries \ {s}}
    BY <2>0 DEF RollsBack, memory
  <2>2. disk.folders[f] = Absent => disk'.folders[f] = Absent
    <3> HAVE disk.folders[f] = Absent
    <3>1. disk'.folders[f].there = FALSE /\ disk'.folders[f].entries = {}
      BY <2>1 DEF Absent, NoDir
    <3> QED
      BY <2>1, <3>1 DEF Absent, NoDir, Folder
  <2>3. Fades
    BY <2>1, <2>2, OneFades
  <2>4. Lasts
    BY <2>1, OneLasts DEF Lasts
  <2> QED
    BY <2>3, <2>4 DEF Settles
<1>7. ASSUME NEW s \in Sends, SendRelease(s) PROVE Settles
  <2>0. PICK w \in Workspaces, f \in Folders : Releases(s, w, f)
    BY <1>7, ReleaseDoes
  <2>1. /\ UNCHANGED <<records, disk, made>> /\ Only(s) /\ send'[s].dir = None /\ send'[s].at # "recording"
    BY <2>0 DEF Releases
  <2> QED
    BY <1>1, <2>1, OneLasts
<1>8. ASSUME NEW w \in Workspaces, Stops(w) PROVE Settles
  <2>1. /\ UNCHANGED <<records, disk, made>> /\ gate[w].setup = None /\ send' \in [Sends -> Send] /\ send \in [Sends -> Send]
    BY <1>8 DEF Stops, Types
  <2>2. \A r \in Sends : send'[r].dir = send[r].dir /\ send'[r].ws = send[r].ws /\ send'[r].at = send[r].at
    BY <1>8 DEF Stops
  <2> QED
    BY <2>1, <2>2 DEF Settles, Fades, Lasts
<1>9. ASSUME NEW c \in Cleaners, CleanupOpen(c) PROVE Settles
  BY <1>2, <1>9 DEF CleanupOpen
<1>10. ASSUME NEW c \in Cleaners, CleanupRemove(c) PROVE Settles
  <2>0. PICK w \in Workspaces, f \in Folders : Removes(c, w, f)
    BY <1>10, RemoveDoes
  <2>1. /\ UNCHANGED <<records, made, send>> /\ OneFolder(f) /\ disk'.records = disk.records
        /\ \/ /\ \E e \in disk.folders[f].entries : disk'.folders[f].entries = disk.folders[f].entries \ {e}
              /\ disk'.folders[f].there = disk.folders[f].there
           \/ disk'.folders[f] = Absent
           \/ disk' = disk
    BY <2>0 DEF Removes
  <2>2. Fades
    <3>1. CASE /\ \E e \in disk.folders[f].entries : disk'.folders[f].entries = disk.folders[f].entries \ {e}
               /\ disk'.folders[f].there = disk.folders[f].there
      <4>1. disk.folders[f] # Absent
        BY <3>1 DEF Absent, NoDir
      <4>2. Marker \in disk'.folders[f].entries => Marker \in disk.folders[f].entries
        BY <3>1
      <4> QED
        BY <2>1, <3>1, <4>1, <4>2, OneFades
    <3>2. CASE disk'.folders[f] = Absent
      <4>1. ~disk'.folders[f].there /\ Marker \notin disk'.folders[f].entries
        BY <3>2 DEF Absent, NoDir
      <4> QED
        BY <2>1, <3>2, <4>1, OneFades
    <3>3. CASE disk' = disk
      BY <3>3 DEF Fades
    <3> QED
      BY <2>1, <3>1, <3>2, <3>3
  <2>3. Lasts
    BY <2>1 DEF Lasts
  <2> QED
    BY <2>2, <2>3 DEF Settles
<1>11. ASSUME NEW c \in Cleaners, CleanupClear(c) PROVE Settles
  <2>0. PICK w \in Workspaces : Clears(c, w)
    BY <1>11, ClearDoes
  <2>1. /\ UNCHANGED <<made, send>> /\ OneRecord(w) /\ disk'.folders = disk.folders
        /\ \/ records'[w] = None /\ disk'.records = records'
           \/ /\ records' = records
              /\ disk'.records = disk.records \/ disk'.records = [records EXCEPT ![w] = None]
    BY <2>0 DEF Clears
  <2>2. \A v \in Workspaces : v # w => records'[v] = records[v] /\ disk'.records[v] \in {records[v], disk.records[v]}
    BY <2>1 DEF OneRecord
  <2>3. records'[w] \in {None, records[w]} /\ disk'.records[w] \in {None, records[w], disk.records[w]}
    BY <2>1 DEF Types
  <2>4. Lasts
    BY <2>1, <2>2, <2>3 DEF Lasts
  <2> QED
    BY <2>1, <2>4 DEF Settles, Fades
<1>12. CASE Ended /\ UNCHANGED <<disk, made>>
  <2>1. \A w \in Workspaces : records'[w] = None
    BY <1>12, EndedDoes
  <2>2. \A r \in Sends : /\ send'[r].at # "recording"
                         /\ send'[r].dir # None => send'[r] = send[r]
    BY <1>12, EndedDoes
  <2>3. Lasts
    BY <1>12, <2>1, <2>2 DEF Lasts
  <2> QED
    BY <1>12, <2>3 DEF Settles, Fades
<1>13. ASSUME NEW f \in Folders, Vanish(f) PROVE Settles
  <2>1. /\ UNCHANGED <<records, made, send>> /\ OneFolder(f) /\ disk'.records = disk.records /\ disk'.folders[f] = Absent
    BY <1>13, VanishDoes DEF memory
  <2>2. ~disk'.folders[f].there /\ Marker \notin disk'.folders[f].entries
    BY <2>1 DEF Absent, NoDir
  <2>3. Fades
    BY <2>1, <2>2, OneFades
  <2>4. Lasts
    BY <2>1 DEF Lasts
  <2> QED
    BY <2>3, <2>4 DEF Settles
<1>14. ASSUME NEW c \in Cleaners, CleanupStep(c) PROVE Settles
  BY <1>2, <1>8, <1>9, <1>10, <1>11, <1>14, CleanupStopDoes DEF CleanupStep, CleanupAnnounce
<1>15. CASE CloseStep
  <2>1. CASE CloseGates
    BY <1>2, <2>1 DEF CloseGates
  <2>2. ASSUME NEW w \in Workspaces, CloseStop(w) PROVE Settles
    BY <1>8, <2>2, CloseStopDoes
  <2>3. ASSUME NEW w \in Workspaces, CloseLock(w) PROVE Settles
    BY <1>2, <2>3 DEF CloseLock
  <2>4. CASE Exit
    BY <1>12, <2>4 DEF Exit
  <2> QED
    BY <1>15, <2>1, <2>2, <2>3, <2>4 DEF CloseStep
<1>16. CASE Crash
  BY <1>12, <1>16 DEF Crash
<1>17. CASE CloseBegin \/ ObservePublishedSnapshot \/ (\E W \in SUBSET Workspaces : Publish(W)) \/ UNCHANGED vars
  BY <1>2, <1>17 DEF CloseBegin, ObservePublishedSnapshot, Publish, vars, memory
<1>18. ASSUME NEW s \in Sends, SendStep(s)
       PROVE  Settles \/ SendReuse(s) \/ SendRecord(s) \/ \E f \in Folders : SendCreate(s, f)
  BY <1>3, <1>5, <1>6, <1>7, <1>18 DEF SendStep, Walk
<1> QED
  BY <1>4, <1>13, <1>14, <1>15, <1>16, <1>17, <1>18 DEF Next

\* Nobody owns what nobody owned, and no folder appears that was not made.
LEMMA OwnersKeep ==
    ASSUME Owners, made \subseteq made',
           \A v \in Workspaces, f \in Folders : Owns(v, f)' => Owns(v, f),
           \A f \in Folders : f \notin made' => disk'.folders[f] = Absent
    PROVE  Owners'
<1> SUFFICES ASSUME NEW f \in Folders
             PROVE  /\ \A v, w \in Workspaces : Owns(v, f)' /\ Owns(w, f)' => v = w
                    /\ \A w \in Workspaces : Owns(w, f)' => f \in made'
                    /\ f \notin made' => disk'.folders[f] = Absent
  BY DEF Owners
<1>1. \A v \in Workspaces : Owns(v, f)' => Owns(v, f)
  OBVIOUS
<1> HIDE DEF Owns
<1>2. /\ \A v, w \in Workspaces : Owns(v, f) /\ Owns(w, f) => v = w
      /\ \A w \in Workspaces : Owns(w, f) => f \in made
  BY DEF Owners
<1> QED
  BY <1>1, <1>2

\* What is owned in a step's effect is what these say.
LEMMA OwnsAfter ==
    ASSUME NEW w \in Workspaces, NEW f \in Folders
    PROVE  Owns(w, f)' <=> \/ records'[w] = f \/ disk'.records[w] = f
                           \/ \E s \in Sends : send'[s].ws = w /\ send'[s].dir = f
BY DEF Owns

\* A send with a folder is of a workspace, which owns it.
LEMMA HolderOwns ==
    ASSUME Types, Phases, Owners, NEW s \in Sends, send[s].dir # None
    PROVE  /\ send[s].dir \in Folders /\ send[s].ws \in Workspaces
           /\ Owns(send[s].ws, send[s].dir) /\ send[s].dir \in made
<1>1. send[s] \in Send /\ PhaseOK(send[s])
  BY DEF Types, Phases
<1>2. send[s].dir \in Folders /\ send[s].ws \in Workspaces
  BY <1>1 DEF Send, PhaseOK, Holding
<1>3. Owns(send[s].ws, send[s].dir)
  BY DEF Owns
<1> QED
  BY <1>2, <1>3 DEF Owners

\* A folder that was made gets no other owner.
LEMMA OwnsNext ==
    ASSUME Types, Phases, Cleanups, Associations, [Next]_vars
    PROVE  \A v \in Workspaces, g \in Folders : Owns(v, g)' => Owns(v, g) \/ (g \notin made /\ made' = made \cup {g})
<1> SUFFICES ASSUME NEW v \in Workspaces, NEW g \in Folders, Owns(v, g)'
             PROVE  Owns(v, g) \/ (g \notin made /\ made' = made \cup {g})
  OBVIOUS
<1>0. g # None
  BY NothingIsNone
<1>1. CASE Settles
  <2>1. CASE records'[v] = g \/ disk'.records[v] = g
    BY <1>0, <1>1, <2>1 DEF Settles, Lasts, Owns
  <2>2. ASSUME NEW s \in Sends, send'[s].ws = v, send'[s].dir = g PROVE Owns(v, g)
    BY <1>0, <1>1, <2>2 DEF Settles, Lasts, Owns
  <2> QED
    BY <2>1, <2>2, OwnsAfter
<1>2. ASSUME NEW s \in Sends, SendReuse(s) PROVE Owns(v, g)
  <2>0. PICK w \in Workspaces, f \in Folders : Reuses(s, w, f)
    BY <1>2, ReuseDoes
  <2>1. /\ UNCHANGED <<records, disk>> /\ Only(s) /\ send'[s].ws = w /\ send'[s].dir = f /\ f = Old(w)
    BY <2>0 DEF Reuses
  <2>2. f = records[w]
    BY <2>1, NothingIsNone DEF Old, Associations
  <2>3. CASE records'[v] = g \/ disk'.records[v] = g
    BY <2>1, <2>3 DEF Owns
  <2>4. ASSUME NEW r \in Sends, send'[r].ws = v, send'[r].dir = g PROVE Owns(v, g)
    BY <2>1, <2>2, <2>4 DEF Only, Owns
  <2> QED
    BY <2>3, <2>4, OwnsAfter
<1>3. ASSUME NEW s \in Sends, SendRecord(s) PROVE Owns(v, g)
  <2>0. PICK w \in Workspaces, f \in Folders : Records(s, w, f)
    BY <1>3, RecordDoes
  <2>1. /\ OneRecord(w) /\ Only(s) /\ send'[s].ws = w /\ send'[s].dir \in {f, None} /\ w = send[s].ws /\ f = send[s].dir
        /\ \/ records'[w] = f /\ disk'.records = records'
           \/ /\ records' = records
              /\ disk'.records = disk.records \/ disk'.records = [records EXCEPT ![w] = f]
    BY <2>0 DEF Records
  <2>2. /\ records'[w] \in {f, records[w]} /\ disk'.records[w] \in {f, records[w], disk.records[w]}
        /\ \A u \in Workspaces : u # w => records'[u] = records[u] /\ disk'.records[u] \in {records[u], disk.records[u]}
    BY <2>1 DEF OneRecord, Types
  <2>3. Owns(w, f)
    BY <2>1 DEF Owns
  <2>4. CASE records'[v] = g \/ disk'.records[v] = g
    <3>1. CASE v = w
      BY <2>2, <2>3, <2>4, <3>1 DEF Owns
    <3>2. CASE v # w
      BY <2>2, <2>4, <3>2 DEF Owns
    <3> QED
      BY <3>1, <3>2
  <2>5. ASSUME NEW r \in Sends, send'[r].ws = v, send'[r].dir = g PROVE Owns(v, g)
    <3>1. CASE r = s
      BY <1>0, <2>1, <2>3, <2>5, <3>1
    <3>2. CASE r # s
      BY <2>1, <2>5, <3>2 DEF Only, Owns
    <3> QED
      BY <3>1, <3>2
  <2> QED
    BY <2>4, <2>5, OwnsAfter
<1>4. ASSUME NEW s \in Sends, NEW f \in Folders, SendCreate(s, f)
      PROVE  Owns(v, g) \/ (g \notin made /\ made' = made \cup {g})
  <2>0. PICK w \in Workspaces : Creates(s, f, w)
    BY <1>4, CreateDoes
  <2>1. /\ UNCHANGED records /\ f \notin made /\ made' = made \cup {f} /\ w = send[s].ws
        /\ Only(s) /\ send'[s].ws = w /\ disk'.records = disk.records
        /\ send'[s].dir \in {f, send[s].dir}
    BY <2>0 DEF Creates
  <2>2. CASE records'[v] = g \/ disk'.records[v] = g
    BY <2>1, <2>2 DEF Owns
  <2>3. ASSUME NEW r \in Sends, send'[r].ws = v, send'[r].dir = g PROVE Owns(v, g) \/ g = f
    BY <2>1, <2>3 DEF Only, Owns
  <2> QED
    BY <2>1, <2>2, <2>3, OwnsAfter
<1>5. CASE Open
  <2>1. UNCHANGED <<send, disk, made>> /\ records' = disk.records
    BY <1>5, OpenDoes
  <2> QED
    BY <2>1, OwnsAfter DEF Owns
<1> QED
  BY <1>1, <1>2, <1>3, <1>4, <1>5, Settling

LEMMA OwnersNext == ASSUME Types, Phases, Setups, Cleanups, Associations, Owners, [Next]_vars PROVE Owners'
<1>0. ASSUME NEW f \in Folders, f \notin made PROVE disk.folders[f] = Absent
  BY <1>0 DEF Owners
<1>6. ASSUME made' = made, NEW v \in Workspaces, NEW g \in Folders, Owns(v, g)' PROVE Owns(v, g)
  BY <1>6, OwnsNext
<1>7. ASSUME made' = made, \A f \in Folders : f \notin made => disk'.folders[f] = Absent PROVE Owners'
  BY <1>6, <1>7, OwnersKeep
<1>1. CASE Settles
  BY <1>0, <1>1, <1>7 DEF Settles, Fades, Lasts
<1>2. ASSUME NEW s \in Sends, SendReuse(s) PROVE Owners'
  BY <1>0, <1>2, <1>7 DEF SendReuse
<1>3. ASSUME NEW s \in Sends, SendRecord(s) PROVE Owners'
  <2>0. PICK w \in Workspaces, f \in Folders : Records(s, w, f)
    BY <1>3, RecordDoes
  <2>1. /\ UNCHANGED made /\ OneFolder(f) /\ w = send[s].ws /\ f = send[s].dir
        /\ disk'.folders[f] = disk.folders[f] \/ disk'.folders[f] = Absent
    BY <2>0 DEF Records
  <2>2. \A g \in Folders : g \notin made => disk'.folders[g] = Absent
    BY <1>0, <2>1 DEF OneFolder
  <2> QED
    BY <1>7, <2>1, <2>2
<1>4. ASSUME NEW s \in Sends, NEW f \in Folders, SendCreate(s, f) PROVE Owners'
  <2>0. PICK w \in Workspaces : Creates(s, f, w)
    BY <1>4, CreateDoes
  <2>1. /\ UNCHANGED records /\ f \notin made /\ made' = made \cup {f} /\ w = send[s].ws
        /\ Only(s) /\ send'[s].ws = w /\ OneFolder(f) /\ disk'.records = disk.records
        /\ send'[s].dir \in {f, send[s].dir}
    BY <2>0 DEF Creates
  <2>2. \A v \in Workspaces, g \in Folders : Owns(v, g)' => Owns(v, g) \/ (v = w /\ g = f)
    <3> TAKE v \in Workspaces, g \in Folders
    <3>1. CASE records'[v] = g \/ disk'.records[v] = g
      BY <2>1, <3>1 DEF Owns
    <3>2. ASSUME NEW r \in Sends, send'[r].ws = v, send'[r].dir = g PROVE Owns(v, g) \/ (v = w /\ g = f)
      BY <2>1, <3>2 DEF Only, Owns
    <3> QED
      BY <3>1, <3>2, OwnsAfter
  <2>3. \A v \in Workspaces : ~Owns(v, f)
    BY <2>1 DEF Owners
  <2>4. \A g \in Folders : g \notin made' => disk'.folders[g] = Absent
    BY <1>0, <2>1 DEF OneFolder
  <2>5. ASSUME NEW g \in Folders
        PROVE  /\ \A u, v \in Workspaces : Owns(u, g) /\ Owns(v, g) => u = v
               /\ \A v \in Workspaces : Owns(v, g) => g \in made
    BY DEF Owners
  <2> SUFFICES ASSUME NEW g \in Folders
               PROVE  /\ \A u, v \in Workspaces : Owns(u, g)' /\ Owns(v, g)' => u = v
                      /\ \A v \in Workspaces : Owns(v, g)' => g \in made'
    BY <2>4 DEF Owners
  <2>6. CASE g = f
    BY <2>1, <2>2, <2>3, <2>6
  <2>7. CASE g # f
    BY <2>1, <2>2, <2>5, <2>7
  <2> QED
    BY <2>6, <2>7
<1>5. CASE Open
  BY <1>0, <1>5, <1>7 DEF Open
<1> QED
  BY <1>1, <1>2, <1>3, <1>4, <1>5, Settling

\* Two sends of one workspace do not record at once.
LEMMA OneRecords ==
    ASSUME Setups, NEW r \in Sends, NEW s \in Sends, send[r].at = "recording", send[s].at = "recording",
           send[r].ws = send[s].ws, send[s].ws \in Workspaces
    PROVE  r = s
BY DEF Setups

LEMMA FreshNext ==
    ASSUME Types, Phases, Setups, Cleanups, Associations, Owners, Fresh, Down, [Next]_vars PROVE Fresh'
<1>0. ASSUME NEW r \in Sends, send[r].at = "recording"
      PROVE  /\ \A w \in Workspaces : records[w] # send[r].dir /\ disk.records[w] # send[r].dir
             /\ \A q \in Sends : q # r => send[q].dir # send[r].dir
             /\ ~Verified(records[send[r].ws])
             /\ send[r].dir \in Folders /\ send[r].dir # None /\ send[r].ws \in Workspaces
  <2>1. send[r].dir \in Folders /\ send[r].ws \in Workspaces
    BY <1>0, SendHasFolder, SendHasGate DEF Holding
  <2> QED
    BY <1>0, <2>1, NothingIsNone DEF Fresh
<1>1. CASE Settles
  <2> SUFFICES ASSUME NEW r \in Sends, send'[r].at = "recording"
               PROVE  /\ \A w \in Workspaces : records'[w] # send'[r].dir /\ disk'.records[w] # send'[r].dir
                      /\ \A q \in Sends : q # r => send'[q].dir # send'[r].dir
                      /\ ~Verified(records[send[r].ws])'
    BY DEF Fresh
  <2>1. send[r].at = "recording" /\ send'[r].dir = send[r].dir /\ send'[r].ws = send[r].ws
    BY <1>1 DEF Settles, Lasts
  <2>2. \A w \in Workspaces : records'[w] # send'[r].dir /\ disk'.records[w] # send'[r].dir
    BY <1>0, <1>1, <2>1 DEF Settles, Lasts
  <2>3. \A q \in Sends : q # r => send'[q].dir # send'[r].dir
    BY <1>0, <1>1, <2>1 DEF Settles, Lasts
  <2>4. records'[send[r].ws] \in {None, records[send[r].ws]}
    BY <1>0, <1>1, <2>1 DEF Settles, Lasts
  <2>5. records[send[r].ws] \in Folders \cup {None}
    BY <1>0, <2>1 DEF Types
  <2>6. ~Verified(records[send[r].ws])'
    <3>1. ~Verified(records[send[r].ws])
      BY <1>0, <2>1
    <3> QED
      BY <1>1, <2>1, <2>4, <2>5, <3>1 DEF Verified, Exists, Settles, Fades
  <2> QED
    BY <2>2, <2>3, <2>6
<1>2. ASSUME NEW s \in Sends, SendReuse(s) PROVE Fresh'
  <2>0. PICK w \in Workspaces, f \in Folders : Reuses(s, w, f)
    BY <1>2, ReuseDoes
  <2>1. /\ UNCHANGED <<records, disk, made>> /\ Only(s) /\ send'[s].ws = w /\ send'[s].dir = f /\ f = Old(w)
        /\ send'[s].at = "ensured" /\ send[s].at = "validated"
    BY <2>0 DEF Reuses
  <2>2. f = records[w]
    BY <2>1, NothingIsNone DEF Old, Associations
  <2> SUFFICES ASSUME NEW r \in Sends, send'[r].at = "recording"
               PROVE  /\ \A v \in Workspaces : records'[v] # send'[r].dir /\ disk'.records[v] # send'[r].dir
                      /\ \A q \in Sends : q # r => send'[q].dir # send'[r].dir
                      /\ ~Verified(records[send[r].ws])'
    BY DEF Fresh
  <2>3. r # s /\ send'[r] = send[r] /\ send[r].at = "recording"
    BY <2>1 DEF Only
  <2>4. \A q \in Sends : q # r => send'[q].dir # send'[r].dir
    <3> TAKE q \in Sends
    <3>1. CASE q = s
      BY <1>0, <2>1, <2>2, <2>3, <3>1
    <3>2. CASE q # s
      BY <1>0, <2>1, <2>3, <3>2 DEF Only
    <3> QED
      BY <3>1, <3>2
  <2>5. ~Verified(records[send[r].ws])'
    BY <1>0, <2>1, <2>3 DEF Verified, Exists
  <2> QED
    BY <1>0, <2>1, <2>3, <2>4, <2>5
<1>3. ASSUME NEW s \in Sends, SendRecord(s) PROVE Fresh'
  <2>0. PICK w \in Workspaces, f \in Folders : Records(s, w, f)
    BY <1>3, RecordDoes
  <2>1. /\ OneRecord(w) /\ OneFolder(f) /\ send[s].at = "recording" /\ send'[s].at # "recording"
        /\ Only(s) /\ send'[s].ws = w /\ send'[s].dir \in {f, None} /\ w = send[s].ws /\ f = send[s].dir
        /\ \/ records'[w] = f /\ disk'.records = records' /\ disk'.folders[f] = disk.folders[f]
           \/ /\ records' = records /\ disk'.folders[f] = Absent
              /\ disk'.records = disk.records \/ disk'.records = [records EXCEPT ![w] = f]
    BY <2>0 DEF Records
  <2>2. /\ records'[w] \in {f, records[w]} /\ disk'.records[w] \in {f, records[w], disk.records[w]}
        /\ \A v \in Workspaces : v # w => records'[v] = records[v] /\ disk'.records[v] \in {records[v], disk.records[v]}
    BY <2>1 DEF OneRecord, Types
  <2>3. disk'.folders[f] = disk.folders[f] \/ disk'.folders[f] = Absent
    BY <2>1
  <2> SUFFICES ASSUME NEW r \in Sends, send'[r].at = "recording"
               PROVE  /\ \A v \in Workspaces : records'[v] # send'[r].dir /\ disk'.records[v] # send'[r].dir
                      /\ \A q \in Sends : q # r => send'[q].dir # send'[r].dir
                      /\ ~Verified(records[send[r].ws])'
    BY DEF Fresh
  <2>4. r # s /\ send'[r] = send[r] /\ send[r].at = "recording"
    BY <2>1 DEF Only
  <2>5. send[r].dir # f /\ send[r].ws # w
    BY <1>0, <2>1, <2>4, OneRecords
  <2>6. \A v \in Workspaces : records'[v] # send'[r].dir /\ disk'.records[v] # send'[r].dir
    <3> TAKE v \in Workspaces
    <3>1. CASE v = w
      BY <1>0, <2>2, <2>4, <2>5, <3>1
    <3>2. CASE v # w
      BY <1>0, <2>2, <2>4, <3>2
    <3> QED
      BY <3>1, <3>2
  <2>7. \A q \in Sends : q # r => send'[q].dir # send'[r].dir
    <3> TAKE q \in Sends
    <3>1. CASE q = s
      BY <1>0, <2>1, <2>4, <2>5, <3>1
    <3>2. CASE q # s
      BY <1>0, <2>1, <2>4, <3>2 DEF Only
    <3> QED
      BY <3>1, <3>2
  <2>8. ~Verified(records[send[r].ws])'
    <3> DEFINE g == records[send[r].ws]
    <3>1. records'[send'[r].ws] = g /\ g \in Folders \cup {None} /\ ~Verified(g)
      BY <1>0, <2>2, <2>4, <2>5 DEF Types
    <3>2. g # None => disk'.folders[g] = disk.folders[g] \/ disk'.folders[g] = Absent
      BY <2>1, <2>3, <3>1 DEF OneFolder
    <3> QED
      BY <3>1, <3>2 DEF Verified, Exists, Absent, NoDir
  <2> QED
    BY <2>6, <2>7, <2>8
<1>4. ASSUME NEW s \in Sends, NEW f \in Folders, SendCreate(s, f) PROVE Fresh'
  <2>0. PICK w \in Workspaces : Creates(s, f, w)
    BY <1>4, CreateDoes
  <2>1. /\ UNCHANGED records /\ f \notin made /\ w = send[s].ws /\ ~Verified(Old(w)) /\ send[s].at = "validated"
        /\ Only(s) /\ send'[s].ws = w /\ OneFolder(f) /\ disk'.records = disk.records
        /\ \/ send'[s].at = "recording" /\ send'[s].dir = f
           \/ send'[s].at = "done" /\ send'[s].dir = send[s].dir
    BY <2>0 DEF Creates
  <2>2. \A v \in Workspaces : ~Owns(v, f)
    BY <2>1 DEF Owners
  <2>3. \A v \in Workspaces : records[v] # f /\ disk.records[v] # f
    BY <2>2 DEF Owns
  <2>4. \A q \in Sends : send[q].dir # f
    BY <2>1, HolderOwns, NothingIsNone
  <2>5. ASSUME NEW v \in Workspaces, ~Verified(records[v]) PROVE ~Verified(records[v])'
    <3>1. records'[v] = records[v] /\ records[v] \in Folders \cup {None} /\ records[v] # f
      BY <2>1, <2>3 DEF Types
    <3>2. records[v] # None => disk'.folders[records[v]] = disk.folders[records[v]]
      BY <2>1, <3>1 DEF OneFolder
    <3> QED
      BY <2>5, <3>1, <3>2 DEF Verified, Exists
  <2>6. send[s].dir = None
    BY <2>1 DEF Phases, PhaseOK, Holding
  <2> SUFFICES ASSUME NEW r \in Sends, send'[r].at = "recording"
               PROVE  /\ \A v \in Workspaces : records'[v] # send'[r].dir /\ disk'.records[v] # send'[r].dir
                      /\ \A q \in Sends : q # r => send'[q].dir # send'[r].dir
                      /\ ~Verified(records[send[r].ws])'
    BY DEF Fresh
  <2>7. CASE r = s
    <3>1. send'[r].dir = f /\ send'[r].ws = w
      BY <2>1, <2>7
    <3>2. ~Verified(records[w])
      BY <2>1, NothingIsNone DEF Old, Associations
    <3>3. ~Verified(records[send[r].ws])'
      BY <2>5, <3>1, <3>2
    <3>4. \A q \in Sends : q # r => send'[q].dir # send'[r].dir
      BY <2>1, <2>4, <2>7, <3>1 DEF Only
    <3> QED
      BY <2>1, <2>3, <3>1, <3>3, <3>4
  <2>8. CASE r # s
    <3>1. send'[r] = send[r] /\ send[r].at = "recording"
      BY <2>1, <2>8 DEF Only
    <3>2. send[r].dir # f /\ send[r].dir # None /\ send[r].ws \in Workspaces
      BY <1>0, <2>4, <3>1
    <3>3. ~Verified(records[send[r].ws])'
      BY <1>0, <2>5, <3>1, <3>2
    <3>4. \A q \in Sends : q # r => send'[q].dir # send'[r].dir
      <4> TAKE q \in Sends
      <4>1. CASE q = s
        BY <2>1, <2>6, <3>1, <3>2, <4>1
      <4>2. CASE q # s
        BY <1>0, <2>1, <3>1, <4>2 DEF Only
      <4> QED
        BY <4>1, <4>2
    <3> QED
      BY <1>0, <2>1, <3>1, <3>3, <3>4
  <2> QED
    BY <2>7, <2>8
<1>5. CASE Open
  <2>1. \A r \in Sends : send'[r].at # "recording"
    BY <1>5, OpenDoes DEF Down
  <2> QED
    BY <2>1 DEF Fresh
<1> QED
  BY <1>1, <1>2, <1>3, <1>4, <1>5, Settling

\* What Cleanups says of one cleanup, and of two.
Exclusive == {"announced", "removing", "clearing"}
CleanupOK(k) ==
    /\ k.at = "none" <=> k.ws = None
    /\ k.at \in {"removing", "clearing"} => Inside(k.ws) = {}
    /\ k.at = "removing" => gate[k.ws].directory # None
    /\ k.at = "clearing" => gate[k.ws].directory = None /\ records[k.ws] # None /\ ~Exists(records[k.ws])
Alone == \A c, d \in Cleaners : c # d /\ cleaner[c].at \in Exclusive /\ cleaner[d].at \in Exclusive
                                   => cleaner[c].ws # cleaner[d].ws

LEMMA CleanupsAre == Cleanups <=> (\A c \in Cleaners : CleanupOK(cleaner[c])) /\ Alone
BY DEF Cleanups, CleanupOK, Alone, Exclusive, Excluding

LEMMA CleanupsWillBe ==
    ASSUME \A c \in Cleaners : CleanupOK(cleaner[c])', Alone' PROVE Cleanups'
BY DEF Cleanups, CleanupOK, Alone, Exclusive, Excluding

\* A workspace that no step disturbs.
Undisturbed(w) ==
    /\ Inside(w)' \subseteq Inside(w)
    /\ gate'[w].directory = gate[w].directory /\ records'[w] = records[w]
    /\ Exists(records[w])' => Exists(records[w])

LEMMA CleanupStays ==
    ASSUME NEW c \in Cleaners, CleanupOK(cleaner[c]), cleaner'[c] = cleaner[c],
           cleaner[c].at \in {"removing", "clearing"} => Undisturbed(cleaner[c].ws)
    PROVE  CleanupOK(cleaner[c])'
<1>1. CASE cleaner[c].at \notin {"removing", "clearing"}
  BY <1>1 DEF CleanupOK
<1>2. CASE cleaner[c].at \in {"removing", "clearing"}
  <2>1. Undisturbed(cleaner[c].ws)
    BY <1>2
  <2>2. Inside(cleaner[c].ws)' = {}
    BY <1>2, <2>1 DEF CleanupOK, Undisturbed
  <2>3. /\ gate'[cleaner[c].ws].directory = gate[cleaner[c].ws].directory /\ records'[cleaner[c].ws] = records[cleaner[c].ws]
        /\ Exists(records[cleaner[c].ws])' => Exists(records[cleaner[c].ws])
    BY <2>1 DEF Undisturbed
  <2> QED
    BY <1>2, <2>2, <2>3 DEF CleanupOK
<1> QED
  BY <1>1, <1>2

LEMMA CleanupsKeep ==
    ASSUME Cleanups, cleaner' = cleaner,
           \A c \in Cleaners : cleaner[c].at \in {"removing", "clearing"} => Undisturbed(cleaner[c].ws)
    PROVE  Cleanups'
<1>1. \A c \in Cleaners : CleanupOK(cleaner[c])'
  BY CleanupsAre, CleanupStays
<1>2. Alone'
  BY CleanupsAre DEF Alone
<1> QED
  BY <1>1, <1>2, CleanupsWillBe

LEMMA OneCleanupNext ==
    ASSUME Cleanups, NEW c \in Cleaners, OneCleanup(c), CleanupOK(cleaner[c])',
           \A d \in Cleaners : d # c /\ cleaner[d].at \in {"removing", "clearing"} => Undisturbed(cleaner[d].ws),
           \A d \in Cleaners : d # c /\ cleaner[d].at \in Exclusive /\ cleaner'[c].at \in Exclusive
                                  => cleaner[d].ws # cleaner'[c].ws
    PROVE  Cleanups'
<1>1. \A d \in Cleaners : CleanupOK(cleaner[d])'
  <2> TAKE d \in Cleaners
  <2>1. CASE d = c
    BY <2>1
  <2>2. CASE d # c
    BY <2>2, CleanupsAre, CleanupStays DEF OneCleanup
  <2> QED
    BY <2>1, <2>2
<1>2. Alone'
  <2> SUFFICES ASSUME NEW b \in Cleaners, NEW d \in Cleaners, b # d, cleaner'[b].at \in Exclusive, cleaner'[d].at \in Exclusive
               PROVE  cleaner'[b].ws # cleaner'[d].ws
    BY DEF Alone, Exclusive
  <2>1. CASE b = c
    BY <2>1 DEF OneCleanup
  <2>2. CASE d = c
    BY <2>2 DEF OneCleanup
  <2>3. CASE b # c /\ d # c
    BY <2>3, CleanupsAre DEF OneCleanup, Alone
  <2> QED
    BY <2>1, <2>2, <2>3
<1> QED
  BY <1>1, <1>2, CleanupsWillBe

\* A send of another workspace does not disturb it.
LEMMA InsideElsewhere ==
    ASSUME NEW s \in Sends, Only(s), NEW w \in Workspaces, send'[s].ws # w
    PROVE  Inside(w)' \subseteq Inside(w)
BY DEF Inside, Only

\* A cleanup that removes has no send inside its gate.
LEMMA NobodyInside ==
    ASSUME Types, Cleanups, NEW c \in Cleaners, cleaner[c].at \in {"removing", "clearing"},
           NEW s \in Sends, send[s].at \notin {"new", "gate", "done"}
    PROVE  send[s].ws # cleaner[c].ws
<1>1. Inside(cleaner[c].ws) = {}
  BY DEF Cleanups
<1> QED
  BY <1>1 DEF Inside

LEMMA CleanupsNext ==
    ASSUME Types, Phases, Setups, Cleanups, Associations, Owners, Down, Closed, [Next]_vars PROVE Cleanups'
<1>0. ASSUME NEW c \in Cleaners, cleaner[c].at # "none" PROVE cleaner[c].ws \in Workspaces
  BY <1>0, CleanupHasGate
<1>1. ASSUME cleaner' = cleaner, gate' = gate, records' = records, Fades,
             \A w \in Workspaces : Inside(w)' \subseteq Inside(w)
      PROVE  Cleanups'
  <2>1. ASSUME NEW w \in Workspaces PROVE Undisturbed(w)
    BY <1>1 DEF Undisturbed, Exists, Fades, Types
  <2> QED
    BY <1>0, <1>1, <2>1, CleanupsKeep
<1>2. ASSUME NEW s \in Sends, Only(s), cleaner' = cleaner, send'[s].ws = send[s].ws,
             \A c \in Cleaners : cleaner[c].at \in {"removing", "clearing"} => cleaner[c].ws # send[s].ws,
             \A v \in Workspaces : v # send[s].ws => /\ gate'[v] = gate[v] /\ records'[v] = records[v]
                                                     /\ Exists(records[v])' => Exists(records[v])
      PROVE  Cleanups'
  <2>1. ASSUME NEW c \in Cleaners, cleaner[c].at \in {"removing", "clearing"} PROVE Undisturbed(cleaner[c].ws)
    <3>1. cleaner[c].ws \in Workspaces /\ cleaner[c].ws # send[s].ws
      BY <1>0, <1>2, <2>1
    <3>2. Inside(cleaner[c].ws)' \subseteq Inside(cleaner[c].ws)
      BY <1>2, <3>1, InsideElsewhere
    <3> QED
      BY <1>2, <3>1, <3>2 DEF Undisturbed
  <2> QED
    BY <1>2, <2>1, CleanupsKeep
<1>3. ASSUME NEW w \in Workspaces, records' = records, Fades PROVE Exists(records[w])' => Exists(records[w])
  BY <1>3 DEF Exists, Fades, Types
<1>4. ASSUME NEW s \in Sends, Walk(s) PROVE Cleanups'
  <2>1. /\ UNCHANGED <<gate, records, disk, cleaner>> /\ Only(s) /\ send'[s].ws = send[s].ws
    BY <1>4, WalkDoes DEF Walks, memory
  <2>2. Fades
    BY <2>1 DEF Fades
  <2>3. ASSUME NEW c \in Cleaners, cleaner[c].at \in {"removing", "clearing"} PROVE cleaner[c].ws # send[s].ws
    <3>1. CASE SendEnter(s)
      BY <2>3, <3>1, EnterDoes DEF Excluding
    <3>2. CASE ~SendEnter(s)
      <4>1. send[s].at \notin {"new", "gate", "done"}
        BY <1>4, <3>2 DEF Walk, SendValidate, SendRead, SendForward, SendResult
      <4> QED
        BY <2>3, <4>1, NobodyInside
    <3> QED
      BY <3>1, <3>2
  <2> QED
    BY <1>2, <1>3, <2>1, <2>2, <2>3
<1>5. ASSUME NEW s \in Sends, SendReserve(s) \/ SendRollback(s) \/ SendRelease(s), Settles PROVE Cleanups'
  <2>1. /\ UNCHANGED <<gate, records, cleaner>> /\ Only(s) /\ send'[s].ws = send[s].ws
        /\ send[s].at \notin {"new", "gate", "done"}
    <3>1. CASE SendReserve(s)
      BY <3>1, ReserveDoes DEF Reserves, memory
    <3>2. CASE SendRollback(s)
      BY <3>2, RollbackDoes DEF RollsBack, memory
    <3>3. CASE SendRelease(s)
      BY <3>3, ReleaseDoes DEF Releases
    <3> QED
      BY <1>5, <3>1, <3>2, <3>3
  <2> QED
    BY <1>2, <1>3, <1>5, <2>1, NobodyInside DEF Settles
<1>6. ASSUME NEW s \in Sends, SendReuse(s) PROVE Cleanups'
  <2>0. PICK w \in Workspaces, f \in Folders : Reuses(s, w, f)
    BY <1>6, ReuseDoes
  <2>1. /\ UNCHANGED <<records, disk, cleaner>> /\ Only(s) /\ send'[s].ws = w /\ w = send[s].ws /\ OneGate(w)
        /\ send[s].at \notin {"new", "gate", "done"}
    BY <2>0 DEF Reuses
  <2>2. Fades
    BY <2>1 DEF Fades
  <2> QED
    BY <1>2, <1>3, <2>1, <2>2, NobodyInside DEF OneGate
<1>7. ASSUME NEW s \in Sends, SendRecord(s) PROVE Cleanups'
  <2>0. PICK w \in Workspaces, f \in Folders : Records(s, w, f)
    BY <1>7, RecordDoes
  <2>1. /\ UNCHANGED cleaner /\ Only(s) /\ send'[s].ws = w /\ w = send[s].ws /\ OneGate(w) /\ OneRecord(w) /\ OneFolder(f)
        /\ send[s].at \notin {"new", "gate", "done"}
        /\ disk'.folders[f] = disk.folders[f] \/ disk'.folders[f] = Absent
    BY <2>0 DEF Records
  <2>2. ASSUME NEW v \in Workspaces, v # w
        PROVE  gate'[v] = gate[v] /\ records'[v] = records[v] /\ (Exists(records[v])' => Exists(records[v]))
    <3>1. gate'[v] = gate[v] /\ records'[v] = records[v] /\ records[v] \in Folders \cup {None}
      BY <2>1, <2>2 DEF OneGate, OneRecord, Types
    <3>2. \A g \in Folders : disk'.folders[g] = disk.folders[g] \/ disk'.folders[g] = Absent
      BY <2>1 DEF OneFolder
    <3> QED
      BY <3>1, <3>2 DEF Exists, Absent
  <2> QED
    BY <1>2, <2>1, <2>2, NobodyInside
<1>8. ASSUME NEW s \in Sends, NEW f \in Folders, SendCreate(s, f) PROVE Cleanups'
  <2>0. PICK w \in Workspaces : Creates(s, f, w)
    BY <1>8, CreateDoes
  <2>1. /\ UNCHANGED <<records, cleaner>> /\ Only(s) /\ send'[s].ws = w /\ w = send[s].ws /\ OneGate(w) /\ OneFolder(f)
        /\ send[s].at \notin {"new", "gate", "done"} /\ f \notin made
    BY <2>0 DEF Creates
  <2>2. ASSUME NEW v \in Workspaces, v # w
        PROVE  gate'[v] = gate[v] /\ records'[v] = records[v] /\ (Exists(records[v])' => Exists(records[v]))
    <3>1. gate'[v] = gate[v] /\ records'[v] = records[v] /\ records[v] \in Folders \cup {None}
      BY <2>1, <2>2 DEF OneGate, Types
    <3>2. records[v] # f
      BY <2>1 DEF Owners, Owns
    <3> QED
      BY <2>1, <3>1, <3>2 DEF Exists, OneFolder
  <2> QED
    BY <1>2, <2>1, <2>2, NobodyInside
<1>9. ASSUME NEW s \in Sends, NEW w \in Workspaces, SendBegin(s, w) PROVE Cleanups'
  <2>1. /\ UNCHANGED <<records, disk, cleaner>> /\ Only(s) /\ send'[s].at = "gate" /\ OneGate(w)
        /\ gate'[w] = [gate[w] EXCEPT !.known = TRUE]
    BY <1>9, BeginDoes
  <2>2. gate'[w].directory = gate[w].directory
    BY <2>1, GateFields
  <2>3. \A v \in Workspaces : Inside(v)' \subseteq Inside(v) /\ gate'[v].directory = gate[v].directory
    BY <2>1, <2>2 DEF Inside, Only, OneGate
  <2>4. ASSUME NEW v \in Workspaces PROVE Undisturbed(v)
    BY <2>1, <2>3 DEF Undisturbed, Exists
  <2> QED
    BY <1>0, <2>1, <2>4, CleanupsKeep
<1>10. ASSUME NEW w \in Workspaces, Stops(w), NEW v \in Workspaces PROVE Undisturbed(v)
  <2>1. Inside(v)' = Inside(v) /\ UNCHANGED <<records, disk>>
    BY <1>10 DEF Stops, Inside
  <2>2. gate'[v].directory = gate[v].directory
    BY <1>10 DEF Stops, OneGate
  <2> QED
    BY <2>1, <2>2 DEF Undisturbed, Exists
<1>11. ASSUME NEW c \in Cleaners, CleanupStop(c) PROVE Cleanups'
  <2>1. PICK w \in Workspaces : /\ w = cleaner[c].ws /\ cleaner[c].at = "begun" /\ Stops(w) /\ UNCHANGED closing
                                /\ OneCleanup(c) /\ cleaner'[c].at = "stopped" /\ cleaner'[c].ws = w
    BY <1>11, CleanupStopDoes
  <2>2. CleanupOK(cleaner[c])'
    BY <2>1, NothingIsNone DEF CleanupOK
  <2> QED
    BY <1>0, <1>10, <2>1, <2>2, OneCleanupNext DEF Exclusive
<1>12. ASSUME NEW c \in Cleaners, CleanupAnnounce(c) PROVE Cleanups'
  <2>1. /\ UNCHANGED <<records, gate, send, disk>> /\ cleaner[c].at = "stopped" /\ Excluding(cleaner[c].ws) = {}
        /\ OneCleanup(c) /\ cleaner'[c].at = "announced" /\ cleaner'[c].ws = cleaner[c].ws
    BY <1>12, AnnounceDoes
  <2>2. CleanupOK(cleaner[c])'
    BY <1>0, <2>1, NothingIsNone DEF CleanupOK
  <2>3. ASSUME NEW v \in Workspaces PROVE Undisturbed(v)
    BY <2>1 DEF Undisturbed, Exists, Inside
  <2>4. \A d \in Cleaners : cleaner[d].at \in Exclusive => cleaner[d].ws # cleaner[c].ws
    BY <2>1 DEF Excluding, Exclusive
  <2> QED
    BY <1>0, <2>1, <2>2, <2>3, <2>4, OneCleanupNext
\* A cleanup that is alone in its gate disturbs no other.
<1>13. ASSUME NEW c \in Cleaners, NEW w \in Workspaces, w = cleaner[c].ws, cleaner[c].at \in Exclusive, OneGate(w), OneCleanup(c),
              UNCHANGED send, \A v \in Workspaces : v # w => records'[v] = records[v], Fades, CleanupOK(cleaner[c])',
              cleaner'[c].at \in Exclusive => cleaner'[c].ws = w
       PROVE  Cleanups'
  <2>1. \A d \in Cleaners : d # c /\ cleaner[d].at \in Exclusive => cleaner[d].ws # w
    BY <1>13, CleanupsAre DEF Alone
  <2>2. ASSUME NEW v \in Workspaces, v # w PROVE Undisturbed(v)
    <3>1. records'[v] = records[v] /\ records[v] \in Folders \cup {None} /\ gate'[v] = gate[v]
      BY <1>13, <2>2 DEF Types, OneGate
    <3>2. Exists(records[v])' => Exists(records[v])
      BY <1>13, <3>1 DEF Exists, Fades
    <3> QED
      BY <1>13, <3>1, <3>2 DEF Undisturbed, Inside
  <2>3. \A d \in Cleaners : d # c /\ cleaner[d].at \in {"removing", "clearing"} => Undisturbed(cleaner[d].ws)
    BY <1>0, <2>1, <2>2 DEF Exclusive
  <2> QED
    BY <1>13, <2>1, <2>3, OneCleanupNext
<1>14. ASSUME NEW c \in Cleaners, CleanupOpen(c) PROVE Cleanups'
  <2>0. PICK w \in Workspaces : Opens(c, w)
    BY <1>14, CleanupOpenDoes
  <2>1. /\ UNCHANGED <<records, send, disk>> /\ w = cleaner[c].ws /\ cleaner[c].at = "announced" /\ Inside(w) = {}
        /\ OneGate(w) /\ OneCleanup(c)
        /\ \/ /\ records[w] \in Folders /\ gate'[w].directory = records[w]
              /\ cleaner'[c].at = "removing" /\ cleaner'[c].ws = w
           \/ /\ records[w] \in Folders /\ ~Exists(records[w]) /\ gate[w].directory = None /\ gate' = gate
              /\ cleaner'[c].at = "clearing" /\ cleaner'[c].ws = w
           \/ cleaner'[c].at = "none" /\ cleaner'[c].ws = None
    BY <2>0 DEF Opens
  <2>2. Inside(w)' = {} /\ Fades /\ (Exists(records[w])' <=> Exists(records[w]))
    BY <2>1 DEF Inside, Fades, Exists
  <2>3. CleanupOK(cleaner[c])'
    <3>1. CASE /\ records[w] \in Folders /\ gate'[w].directory = records[w]
               /\ cleaner'[c].at = "removing" /\ cleaner'[c].ws = w
      BY <2>1, <2>2, <3>1, NothingIsNone DEF CleanupOK
    <3>2. CASE /\ records[w] \in Folders /\ ~Exists(records[w]) /\ gate[w].directory = None /\ gate' = gate
               /\ cleaner'[c].at = "clearing" /\ cleaner'[c].ws = w
      BY <2>1, <2>2, <3>2, NothingIsNone DEF CleanupOK
    <3>3. CASE cleaner'[c].at = "none" /\ cleaner'[c].ws = None
      BY <3>3 DEF CleanupOK
    <3> QED
      BY <2>1, <3>1, <3>2, <3>3
  <2> QED
    BY <1>13, <2>1, <2>2, <2>3 DEF Exclusive
<1>15. ASSUME NEW c \in Cleaners, CleanupRemove(c), Settles PROVE Cleanups'
  <2>0. PICK w \in Workspaces, f \in Folders : Removes(c, w, f)
    BY <1>15, RemoveDoes
  <2>1. /\ UNCHANGED <<records, send>> /\ w = cleaner[c].ws /\ cleaner[c].at = "removing" /\ f = gate[w].directory
        /\ OneGate(w) /\ OneCleanup(c)
        /\ \/ gate' = gate /\ cleaner' = cleaner
           \/ /\ disk'.folders[f] = Absent /\ gate'[w].directory = None
              /\ cleaner'[c].at = "clearing" /\ cleaner'[c].ws = w
           \/ cleaner'[c].at = "none" /\ cleaner'[c].ws = None
    BY <2>0 DEF Removes
  <2>2. Inside(w) = {} /\ gate[w].directory # None /\ CleanupOK(cleaner[c]) /\ f = records[w]
    BY <2>1, CleanupsAre DEF CleanupOK, Associations
  <2>3. Inside(w)' = {}
    BY <2>1, <2>2 DEF Inside
  <2>4. CleanupOK(cleaner[c])'
    <3>1. CASE gate' = gate /\ cleaner' = cleaner
      BY <2>1, <2>2, <2>3, <3>1, NothingIsNone DEF CleanupOK
    <3>2. CASE /\ disk'.folders[f] = Absent /\ gate'[w].directory = None
               /\ cleaner'[c].at = "clearing" /\ cleaner'[c].ws = w
      <4>1. ~Exists(records[w])' /\ records'[w] # None
        BY <2>1, <2>2, <3>2 DEF Exists, Absent
      <4> QED
        BY <2>3, <3>2, <4>1, NothingIsNone DEF CleanupOK
    <3>3. CASE cleaner'[c].at = "none" /\ cleaner'[c].ws = None
      BY <3>3 DEF CleanupOK
    <3> QED
      BY <2>1, <3>1, <3>2, <3>3
  <2>5. cleaner'[c].at \in Exclusive => cleaner'[c].ws = w
    BY <2>1 DEF Exclusive
  <2> QED
    BY <1>13, <1>15, <2>1, <2>4, <2>5 DEF Exclusive, Settles
<1>16. ASSUME NEW c \in Cleaners, CleanupClear(c) PROVE Cleanups'
  <2>0. PICK w \in Workspaces : Clears(c, w)
    BY <1>16, ClearDoes
  <2>1. /\ UNCHANGED send /\ w = cleaner[c].ws /\ cleaner[c].at = "clearing" /\ OneRecord(w) /\ disk'.folders = disk.folders
        /\ OneGate(w) /\ OneCleanup(c) /\ cleaner'[c].at = "none" /\ cleaner'[c].ws = None
    BY <2>0 DEF Clears
  <2>2. CleanupOK(cleaner[c])' /\ Fades
    BY <2>1 DEF CleanupOK, Fades
  <2> QED
    BY <1>13, <2>1, <2>2 DEF Exclusive, OneRecord
<1>17. CASE ObservePublishedSnapshot
  <2>1. /\ UNCHANGED <<records, gate, send, disk>>
        /\ \A c \in Cleaners :
              \/ cleaner'[c] = cleaner[c]
              \/ cleaner[c].at = "none" /\ cleaner'[c].at = "begun" /\ cleaner'[c].ws \in Started
    BY <1>17, ObserveDoes
  <2>2. Started \subseteq Workspaces
    BY DEF Started, missing, Types
  <2>3. ASSUME NEW v \in Workspaces PROVE Undisturbed(v)
    BY <2>1 DEF Undisturbed, Exists, Inside
  <2>4. \A c \in Cleaners : CleanupOK(cleaner[c])'
    <3> TAKE c \in Cleaners
    <3>1. CASE cleaner'[c] = cleaner[c]
      BY <1>0, <2>3, <3>1, CleanupsAre, CleanupStays
    <3>2. CASE cleaner'[c].at = "begun" /\ cleaner'[c].ws \in Started
      BY <2>2, <3>2, NothingIsNone DEF CleanupOK
    <3> QED
      BY <2>1, <3>1, <3>2
  <2>5. \A c \in Cleaners : cleaner'[c].at \in Exclusive => cleaner'[c] = cleaner[c]
    BY <2>1 DEF Exclusive
  <2>6. Alone'
    BY <2>5, CleanupsAre DEF Alone, Exclusive
  <2> QED
    BY <2>4, <2>6, CleanupsWillBe
<1>18. ASSUME NEW w \in Workspaces, CloseLock(w) PROVE Cleanups'
  <2>1. cleaner' = cleaner /\ w \in closing.lock
    BY <1>18, CloseLockDoes
  <2>2. \A c \in Cleaners : cleaner[c].at = "none"
    BY <2>1 DEF Closed, NotClosing
  <2> QED
    BY <2>1, <2>2, CleanupsKeep
<1>19. ASSUME \A c \in Cleaners : cleaner'[c] = NoCleanup PROVE Cleanups'
  BY <1>19, CleanupsWillBe DEF CleanupOK, Alone, Exclusive, NoCleanup
<1>20. CASE Ended
  BY <1>19, <1>20, EndedDoes
<1>21. CASE Open
  BY <1>19, <1>21, OpenDoes DEF Down
<1>22. ASSUME NEW f \in Folders, Vanish(f), Settles PROVE Cleanups'
  BY <1>1, <1>22 DEF Vanish, memory, Settles, Inside
<1>23. CASE UNCHANGED <<records, gate, send, disk, cleaner>>
  <2>1. Fades /\ \A w \in Workspaces : Inside(w)' \subseteq Inside(w)
    BY <1>23 DEF Fades, Inside
  <2> QED
    BY <1>1, <1>23, <2>1
<1>24. ASSUME NEW w \in Workspaces, CloseStop(w) PROVE Cleanups'
  BY <1>0, <1>10, <1>24, CloseStopDoes, CleanupsKeep
<1>25. CASE CloseStep
  BY <1>18, <1>20, <1>23, <1>24, <1>25 DEF CloseStep, CloseGates, Exit
<1>26. CASE Settles
  <2>1. ASSUME NEW c \in Cleaners, CleanupStep(c) PROVE Cleanups'
    BY <1>11, <1>12, <1>14, <1>15, <1>16, <1>26, <2>1 DEF CleanupStep
  <2>2. ASSUME NEW s \in Sends, SendStep(s) PROVE Cleanups'
    BY <1>4, <1>5, <1>6, <1>7, <1>8, <1>26, <2>2 DEF SendStep, Walk
  <2> QED
    BY <1>9, <1>17, <1>20, <1>21, <1>22, <1>23, <1>25, <1>26, <2>1, <2>2
       DEF Next, Crash, CloseBegin, Publish, vars, memory
<1> QED
  BY <1>6, <1>7, <1>8, <1>21, <1>26, Settling

\* Before Close has its gates, nothing is stopped or locked.
LEMMA NotClosingKeeps ==
    ASSUME process' # "stopping", closing' = NotClosing PROVE Closed'
BY DEF Closed, NotClosing

LEMMA ClosedKeeps ==
    ASSUME Closed, process' = process, closing' = closing,
           process = "stopping" => \A c \in Cleaners : cleaner'[c] = cleaner[c],
           closing.lock \cup closing.done \subseteq Workspaces,
           \A w \in Workspaces : gate'[w].open = gate[w].open,
           \A w \in closing.done : Inside(w)' \subseteq Inside(w) /\ gate'[w].directory = gate[w].directory
    PROVE  Closed'
<1>1. process' # "stopping" => closing' = NotClosing
  BY DEF Closed
<1>2. process' = "stopping" => \A c \in Cleaners : cleaner'[c].at = "none"
  BY DEF Closed
<1>3. \A w \in (closing.lock \ closing.stop) \cup closing.done : ~gate'[w].open
  BY DEF Closed
<1>4. \A w \in closing.done : Inside(w)' = {} /\ gate'[w].directory = None
  BY DEF Closed
<1> QED
  BY <1>1, <1>2, <1>3, <1>4 DEF Closed

LEMMA ClosedNext ==
    ASSUME Types, Phases, Cleanups, Associations, Closed, Down, [Next]_vars PROVE Closed'
<1>0. closing.stop \subseteq Workspaces /\ closing.lock \subseteq Workspaces /\ closing.done \subseteq Workspaces
  BY DEF Types
<1>1. ASSUME process' = process, closing' = closing, cleaner' = cleaner,
             \A w \in Workspaces : gate'[w].open = gate[w].open,
             \A w \in closing.done : Inside(w)' \subseteq Inside(w) /\ gate'[w].directory = gate[w].directory
      PROVE  Closed'
  BY <1>0, <1>1, ClosedKeeps
<1>2. CASE UNCHANGED <<process, closing, cleaner, gate, send>>
  BY <1>1, <1>2 DEF Inside
\* A send that is inside a gate is in none that Close has locked.
<1>3. ASSUME NEW s \in Sends, NEW w \in Workspaces, w = send[s].ws, Only(s), send'[s].ws = w, OneGate(w),
             send[s].at \notin {"new", "gate", "done"}, gate'[w].open = gate[w].open,
             UNCHANGED <<process, closing, cleaner>>
      PROVE  Closed'
  <2>1. w \notin closing.done
    BY <1>3 DEF Closed, Inside
  <2>2. ASSUME NEW v \in closing.done PROVE Inside(v)' \subseteq Inside(v) /\ gate'[v].directory = gate[v].directory
    BY <1>0, <1>3, <2>1, <2>2, InsideElsewhere DEF OneGate
  <2> QED
    BY <1>1, <1>3, <2>2 DEF OneGate
<1>4. ASSUME NEW s \in Sends, SendEnter(s) PROVE Closed'
  <2>1. /\ UNCHANGED <<process, closing, cleaner, gate>> /\ Only(s) /\ send'[s].ws = send[s].ws
        /\ gate[send[s].ws].open \/ send'[s].at = "done"
    BY <1>4, EnterDoes DEF Walks, memory
  <2>2. ASSUME NEW v \in closing.done PROVE Inside(v)' \subseteq Inside(v)
    <3>1. ~gate[v].open /\ v \in Workspaces
      BY <1>0 DEF Closed
    <3> QED
      BY <2>1, <3>1 DEF Inside, Only
  <2> QED
    BY <1>1, <2>1, <2>2
<1>5. ASSUME NEW s \in Sends, Walk(s), ~SendEnter(s) PROVE Closed'
  <2>1. /\ UNCHANGED <<process, closing, cleaner, gate>> /\ Only(s) /\ send'[s].ws = send[s].ws
        /\ send[s].at \notin {"new", "gate", "done"}
    <3>1. send[s].at \notin {"new", "gate", "done"}
      BY <1>5 DEF Walk, SendValidate, SendRead, SendForward, SendResult
    <3> QED
      BY <1>5, <3>1, WalkDoes DEF Walks, memory
  <2>2. send[s].ws \in Workspaces
    BY <2>1, SendHasGate
  <2> QED
    BY <1>3, <2>1, <2>2 DEF OneGate, Types
<1>6. ASSUME NEW s \in Sends, SendReserve(s) \/ SendRollback(s) \/ SendRelease(s) PROVE Closed'
  <2>1. /\ UNCHANGED <<process, closing, cleaner, gate>> /\ Only(s) /\ send'[s].ws = send[s].ws
        /\ send[s].at \notin {"new", "gate", "done"}
    <3>1. CASE SendReserve(s)
      BY <3>1, ReserveDoes DEF Reserves, memory
    <3>2. CASE SendRollback(s)
      BY <3>2, RollbackDoes DEF RollsBack, memory
    <3>3. CASE SendRelease(s)
      BY <3>3, ReleaseDoes DEF Releases
    <3> QED
      BY <1>6, <3>1, <3>2, <3>3
  <2>2. send[s].ws \in Workspaces
    BY <2>1, SendHasGate
  <2> QED
    BY <1>3, <2>1, <2>2 DEF OneGate, Types
<1>7. ASSUME NEW s \in Sends, SendReuse(s) PROVE Closed'
  <2>0. PICK w \in Workspaces, f \in Folders : Reuses(s, w, f)
    BY <1>7, ReuseDoes
  <2>1. /\ UNCHANGED <<process, closing, cleaner>> /\ Only(s) /\ send'[s].ws = w /\ w = send[s].ws /\ OneGate(w)
        /\ send[s].at \notin {"new", "gate", "done"} /\ gate'[w] = [gate[w] EXCEPT !.directory = f]
    BY <2>0 DEF Reuses
  <2>2. gate'[w].open = gate[w].open
    BY <2>1, GateFields
  <2> QED
    BY <1>3, <2>1, <2>2
<1>8. ASSUME NEW s \in Sends, SendRecord(s) PROVE Closed'
  <2>0. PICK w \in Workspaces, f \in Folders : Records(s, w, f)
    BY <1>8, RecordDoes
  <2>1. /\ UNCHANGED <<process, closing, cleaner>> /\ Only(s) /\ send'[s].ws = w /\ w = send[s].ws /\ OneGate(w)
        /\ send[s].at \notin {"new", "gate", "done"}
        /\ \/ gate'[w] = [gate[w] EXCEPT !.association = f, !.directory = f, !.setup = None]
           \/ gate'[w] = [gate[w] EXCEPT !.setup = None]
    BY <2>0 DEF Records
  <2>2. gate'[w].open = gate[w].open
    <3>1. CASE gate'[w] = [gate[w] EXCEPT !.association = f, !.directory = f, !.setup = None]
      BY <3>1, GateFields
    <3>2. CASE gate'[w] = [gate[w] EXCEPT !.setup = None]
      BY <3>2, GateFields
    <3> QED
      BY <2>1, <3>1, <3>2
  <2> QED
    BY <1>3, <2>1, <2>2
<1>9. ASSUME NEW s \in Sends, NEW f \in Folders, SendCreate(s, f) PROVE Closed'
  <2>0. PICK w \in Workspaces : Creates(s, f, w)
    BY <1>9, CreateDoes
  <2>1. /\ UNCHANGED <<process, closing, cleaner>> /\ Only(s) /\ send'[s].ws = w /\ w = send[s].ws /\ OneGate(w)
        /\ send[s].at \notin {"new", "gate", "done"}
        /\ \/ gate'[w] = [gate[w] EXCEPT !.directory = None, !.setup = s]
           \/ gate'[w] = [gate[w] EXCEPT !.directory = None]
    BY <2>0 DEF Creates
  <2>2. gate'[w].open = gate[w].open
    <3>1. CASE gate'[w] = [gate[w] EXCEPT !.directory = None, !.setup = s]
      BY <3>1, GateFields
    <3>2. CASE gate'[w] = [gate[w] EXCEPT !.directory = None]
      BY <3>2, GateFields
    <3> QED
      BY <2>1, <3>1, <3>2
  <2> QED
    BY <1>3, <2>1, <2>2
<1>10. ASSUME NEW s \in Sends, NEW w \in Workspaces, SendBegin(s, w) PROVE Closed'
  <2>1. /\ UNCHANGED <<process, closing, cleaner>> /\ Only(s) /\ send'[s].at = "gate" /\ OneGate(w)
        /\ gate'[w] = [gate[w] EXCEPT !.known = TRUE]
    BY <1>10, BeginDoes
  <2>2. gate'[w].directory = gate[w].directory /\ gate'[w].open = gate[w].open
    BY <2>1, GateFields
  <2>3. \A v \in Workspaces : /\ Inside(v)' \subseteq Inside(v) /\ gate'[v].directory = gate[v].directory
                              /\ gate'[v].open = gate[v].open
    BY <2>1, <2>2 DEF Inside, Only, OneGate
  <2> QED
    BY <1>0, <1>1, <2>1, <2>3
<1>11. ASSUME NEW c \in Cleaners, CleanupStep(c) PROVE Closed'
  <2>1. process' = process /\ closing' = closing
    BY <1>11, ProcessKeeps DEF CleanupStep, CleanupStop, CleanupAnnounce, CleanupOpen, CleanupRemove, CleanupClear
  <2>2. cleaner[c].at # "none"
    BY <1>11 DEF CleanupStep, CleanupStop, CleanupAnnounce, CleanupOpen, CleanupRemove, CleanupClear
  <2>3. process # "stopping" /\ closing = NotClosing
    BY <2>2 DEF Closed
  <2> QED
    BY <2>1, <2>3, NotClosingKeeps
<1>12. CASE CloseGates
  <2>1. /\ UNCHANGED <<cleaner, gate, send>> /\ \A c \in Cleaners : cleaner[c].at = "none"
        /\ process' = "stopping" /\ closing'.lock = closing'.stop /\ closing'.done = {}
    BY <1>12, CloseGatesDoes
  <2> QED
    BY <2>1 DEF Closed
<1>13. ASSUME NEW w \in Workspaces, CloseStop(w) PROVE Closed'
  <2>1. /\ Stops(w) /\ UNCHANGED cleaner /\ w \in closing.stop
        /\ closing'.stop = closing.stop \ {w} /\ closing'.lock = closing.lock /\ closing'.done = closing.done
    BY <1>13, CloseStopDoes
  <2>2. process = "stopping" /\ process' = process
    BY <2>1 DEF Closed, NotClosing, Stops
  <2>3. gate'[w].open = FALSE /\ gate'[w].directory = gate[w].directory /\ \A v \in Workspaces : v # w => gate'[v] = gate[v]
    BY <2>1 DEF Stops, OneGate
  <2>4. \A v \in Workspaces : Inside(v)' = Inside(v)
    BY <2>1 DEF Stops, Inside
  <2>5. \A v \in (closing'.lock \ closing'.stop) \cup closing'.done : ~gate'[v].open
    BY <1>0, <2>1, <2>3 DEF Closed
  <2>6. \A v \in closing'.done : Inside(v)' = {} /\ gate'[v].directory = None
    BY <1>0, <2>1, <2>3, <2>4 DEF Closed
  <2> QED
    BY <2>1, <2>2, <2>5, <2>6 DEF Closed
<1>14. ASSUME NEW w \in Workspaces, CloseLock(w) PROVE Closed'
  <2>1. /\ UNCHANGED <<process, send, cleaner>> /\ closing.stop = {} /\ w \in closing.lock /\ Inside(w) = {}
        /\ closing'.stop = {} /\ closing'.lock = closing.lock \ {w} /\ closing'.done = closing.done \cup {w}
        /\ OneGate(w) /\ gate'[w] = [gate[w] EXCEPT !.directory = None]
    BY <1>14, CloseLockDoes
  <2>2. process = "stopping"
    BY <2>1 DEF Closed, NotClosing
  <2>3. gate'[w].open = gate[w].open /\ gate'[w].directory = None /\ \A v \in Workspaces : v # w => gate'[v] = gate[v]
    BY <2>1, GateFields DEF OneGate
  <2>4. \A v \in Workspaces : Inside(v)' = Inside(v)
    BY <2>1 DEF Inside
  <2>5. \A v \in (closing'.lock \ closing'.stop) \cup closing'.done : ~gate'[v].open
    BY <1>0, <2>1, <2>3 DEF Closed
  <2>6. \A v \in closing'.done : Inside(v)' = {} /\ gate'[v].directory = None
    BY <1>0, <2>1, <2>3, <2>4 DEF Closed
  <2> QED
    BY <2>1, <2>2, <2>5, <2>6 DEF Closed
<1>15. CASE ObservePublishedSnapshot
  <2>1. /\ UNCHANGED <<process, closing, gate, send>>
        /\ \A c \in Cleaners :
              \/ cleaner'[c] = cleaner[c]
              \/ cleaner[c].at = "none" /\ cleaner'[c].at = "begun" /\ cleaner'[c].ws \in Started
    BY <1>15, ObserveDoes
  <2>2. process = "stopping" => \A c \in Cleaners : cleaner'[c] = cleaner[c]
    BY <2>1 DEF Started
  <2> QED
    BY <1>0, <2>1, <2>2, ClosedKeeps DEF Inside
<1>16. CASE Open \/ CloseBegin
  <2>1. process # "stopping" /\ process' # "stopping" /\ closing' = closing
    BY <1>16 DEF Open, CloseBegin, memory
  <2> QED
    BY <2>1, NotClosingKeeps DEF Closed
<1>17. CASE Crash \/ Exit
  BY <1>17, NotClosingKeeps DEF Crash, Exit, Ended
<1>18. ASSUME NEW s \in Sends, SendStep(s) PROVE Closed'
  BY <1>4, <1>5, <1>6, <1>7, <1>8, <1>9, <1>18 DEF SendStep, Walk
<1> QED
  BY <1>2, <1>10, <1>11, <1>12, <1>13, <1>14, <1>15, <1>16, <1>17, <1>18
     DEF Next, CloseStep, Vanish, Publish, vars, memory

\* Nobody begins to record, and the gates where somebody does open no folder.
LEMMA BareKeeps ==
    ASSUME Bare,
           \A s \in Sends : send'[s].at = "recording" =>
               /\ send[s].at = "recording" /\ send'[s].ws = send[s].ws
               /\ gate'[send[s].ws].directory \in {None, gate[send[s].ws].directory}
    PROVE  Bare'
BY DEF Bare

LEMMA BareNext ==
    ASSUME Types, Phases, Setups, Cleanups, Associations, Bare, Down, [Next]_vars PROVE Bare'
<1>0. ASSUME NEW s \in Sends, send[s].at = "recording"
      PROVE  /\ send[s].ws \in Workspaces /\ gate[send[s].ws].setup = s /\ s \in Inside(send[s].ws)
             /\ gate[send[s].ws].directory = None
  <2>1. send[s].ws \in Workspaces
    BY <1>0, SendHasGate
  <2> QED
    BY <1>0, <2>1 DEF Setups, Inside, Bare
\* Any step but three leaves those gates alone.
<1>1. ASSUME Settles, \A w \in Workspaces, s \in Sends : gate[w].setup = s => gate'[w].directory \in {None, gate[w].directory}
      PROVE  Bare'
  BY <1>0, <1>1, BareKeeps DEF Settles, Lasts
<1>2. ASSUME Settles, gate' = gate PROVE Bare'
  BY <1>1, <1>2
<1>3. ASSUME NEW s \in Sends, SendReuse(s) PROVE Bare'
  <2>0. PICK w \in Workspaces, f \in Folders : Reuses(s, w, f)
    BY <1>3, ReuseDoes
  <2>1. /\ Only(s) /\ send'[s].at = "ensured" /\ OneGate(w) /\ gate[w].setup = None
    BY <2>0 DEF Reuses
  <2>2. \A r \in Sends : send'[r].at = "recording" => send'[r] = send[r] /\ send[r].at = "recording"
    BY <2>1 DEF Only
  <2>3. \A r \in Sends : send[r].at = "recording" => gate'[send[r].ws].directory = gate[send[r].ws].directory
    BY <1>0, <2>1, NothingIsNone DEF OneGate
  <2> QED
    BY <2>2, <2>3, BareKeeps
<1>4. ASSUME NEW s \in Sends, NEW f \in Folders, SendCreate(s, f) PROVE Bare'
  <2>0. PICK w \in Workspaces : Creates(s, f, w)
    BY <1>4, CreateDoes
  <2>1. /\ Only(s) /\ OneGate(w) /\ gate[w].setup = None /\ send'[s].ws = w
        /\ \/ gate'[w] = [gate[w] EXCEPT !.directory = None, !.setup = s]
           \/ gate'[w] = [gate[w] EXCEPT !.directory = None]
    BY <2>0 DEF Creates
  <2>2. gate'[w].directory = None
    <3>1. CASE gate'[w] = [gate[w] EXCEPT !.directory = None, !.setup = s]
      BY <3>1, GateFields
    <3>2. CASE gate'[w] = [gate[w] EXCEPT !.directory = None]
      BY <3>2, GateFields
    <3> QED
      BY <2>1, <3>1, <3>2
  <2> SUFFICES ASSUME NEW r \in Sends, send'[r].at = "recording" PROVE gate'[send'[r].ws].directory = None
    BY DEF Bare
  <2>3. CASE r = s
    BY <2>1, <2>2, <2>3
  <2>4. CASE r # s
    BY <1>0, <2>1, <2>2, <2>4 DEF Only, OneGate
  <2> QED
    BY <2>3, <2>4
<1>5. ASSUME NEW s \in Sends, SendRecord(s) PROVE Bare'
  <2>0. PICK w \in Workspaces, f \in Folders : Records(s, w, f)
    BY <1>5, RecordDoes
  <2>1. /\ Only(s) /\ OneGate(w) /\ w = send[s].ws /\ send'[s].at # "recording" /\ send[s].at = "recording"
    BY <2>0 DEF Records
  <2>2. \A r \in Sends : send'[r].at = "recording" => r # s /\ send'[r] = send[r] /\ send[r].at = "recording"
    BY <2>1 DEF Only
  <2>3. \A r \in Sends : r # s /\ send[r].at = "recording" => gate'[send[r].ws] = gate[send[r].ws]
    BY <1>0, <2>1, OneRecords DEF OneGate
  <2> QED
    BY <2>2, <2>3, BareKeeps
<1>6. ASSUME Settles, NEW w \in Workspaces, OneGate(w), gate'[w].directory \in {None, gate[w].directory} PROVE Bare'
  BY <1>1, <1>6 DEF OneGate
<1>7. ASSUME Settles, NEW w \in Workspaces, OneGate(w), Inside(w) = {} PROVE Bare'
  <2>1. \A s \in Sends : send'[s].at = "recording" => send[s].at = "recording" /\ send'[s].ws = send[s].ws
    BY <1>7 DEF Settles, Lasts
  <2>2. \A s \in Sends : send[s].at = "recording" => gate'[send[s].ws] = gate[send[s].ws]
    BY <1>0, <1>7 DEF OneGate
  <2> QED
    BY <2>1, <2>2, BareKeeps
<1>8. ASSUME NEW s \in Sends, NEW w \in Workspaces, SendBegin(s, w), Settles PROVE Bare'
  <2>1. OneGate(w) /\ gate'[w] = [gate[w] EXCEPT !.known = TRUE]
    BY <1>8, BeginDoes
  <2>2. gate'[w].directory = gate[w].directory
    BY <2>1, GateFields
  <2> QED
    BY <1>6, <1>8, <2>1, <2>2
<1>9. ASSUME NEW w \in Workspaces, Stops(w), Settles PROVE Bare'
  BY <1>6, <1>9 DEF Stops
<1>10. ASSUME NEW c \in Cleaners, CleanupOpen(c), Settles PROVE Bare'
  <2>0. PICK w \in Workspaces : Opens(c, w)
    BY <1>10, CleanupOpenDoes
  <2> QED
    BY <1>7, <1>10, <2>0 DEF Opens
<1>11. ASSUME NEW c \in Cleaners, CleanupRemove(c), Settles PROVE Bare'
  <2>0. PICK w \in Workspaces, f \in Folders : Removes(c, w, f)
    BY <1>11, RemoveDoes
  <2>1. OneGate(w) /\ gate'[w].directory \in {None, gate[w].directory}
    BY <2>0 DEF Removes
  <2> QED
    BY <1>6, <1>11, <2>1
<1>12. ASSUME NEW c \in Cleaners, CleanupClear(c), Settles PROVE Bare'
  <2>0. PICK w \in Workspaces : Clears(c, w)
    BY <1>12, ClearDoes
  <2>1. OneGate(w) /\ gate'[w].directory = gate[w].directory
    BY <2>0 DEF Clears
  <2> QED
    BY <1>6, <1>12, <2>1
<1>13. ASSUME NEW w \in Workspaces, CloseLock(w), Settles PROVE Bare'
  <2>1. OneGate(w) /\ gate'[w] = [gate[w] EXCEPT !.directory = None]
    BY <1>13, CloseLockDoes
  <2>2. gate'[w].directory = None
    BY <2>1, GateFields
  <2> QED
    BY <1>6, <1>13, <2>1, <2>2
<1>14. CASE Ended
  <2>1. \A s \in Sends : send'[s].at # "recording"
    BY <1>14, EndedDoes
  <2> QED
    BY <2>1 DEF Bare
<1>15. CASE Open
  <2>1. \A s \in Sends : send'[s].at # "recording"
    BY <1>15, OpenDoes DEF Down
  <2> QED
    BY <2>1 DEF Bare
<1>16. CASE Settles
  <2>1. ASSUME NEW c \in Cleaners, CleanupStep(c) PROVE Bare'
    BY <1>2, <1>9, <1>10, <1>11, <1>12, <1>16, <2>1, CleanupStopDoes DEF CleanupStep, CleanupAnnounce
  <2>2. CASE CloseStep
    BY <1>2, <1>9, <1>13, <1>14, <1>16, <2>2, CloseStopDoes DEF CloseStep, CloseGates, Exit
  <2>3. ASSUME NEW s \in Sends, SendStep(s) PROVE Bare'
    <3>1. ASSUME Walk(s) PROVE Bare'
      BY <1>2, <1>16, <3>1, WalkDoes DEF Walks, memory
    <3>2. ASSUME SendReserve(s) \/ SendRollback(s) \/ SendRelease(s) PROVE Bare'
      BY <1>2, <1>16, <3>2 DEF SendReserve, SendRollback, SendRelease, memory
    <3> QED
      BY <1>3, <1>4, <1>5, <2>3, <3>1, <3>2 DEF SendStep, Walk
  <2> QED
    BY <1>2, <1>8, <1>14, <1>15, <1>16, <2>1, <2>2, <2>3
       DEF Next, Crash, CloseBegin, Vanish, Publish, ObservePublishedSnapshot, vars, memory
<1> QED
  BY <1>3, <1>4, <1>5, <1>15, <1>16, Settling

\* The sends that a handle counts.
Users(f) == {s \in Sends : send[s].dir = f /\ send[s].at # "recording"}
HandleOK(f) ==
    /\ handle[f].users = Cardinality(Users(f))
    /\ handle[f].open <=> \/ \E s \in Sends : send[s].dir = f
                          \/ \E w \in Workspaces : gate[w].directory = f

LEMMA HandlesAre == HandlesAreHeld <=> \A f \in Folders : HandleOK(f)
<1>1. ASSUME NEW f \in Folders PROVE {s \in Using(f) : send[s].at # "recording"} = Users(f)
  BY DEF Using, Users
<1>2. ASSUME NEW f \in Folders PROVE Using(f) # {} <=> \E s \in Sends : send[s].dir = f
  BY DEF Using
<1> QED
  BY <1>1, <1>2 DEF HandlesAreHeld, HandleOK

LEMMA HandlesWillBe == ASSUME \A f \in Folders : HandleOK(f)' PROVE HandlesAreHeld'
<1>1. ASSUME NEW f \in Folders PROVE {s \in Using(f) : send[s].at # "recording"}' = Users(f)'
  BY DEF Using, Users
<1>2. ASSUME NEW f \in Folders PROVE Using(f)' # {} <=> \E s \in Sends : send'[s].dir = f
  BY DEF Using
<1> QED
  BY <1>1, <1>2 DEF HandlesAreHeld, HandleOK

LEMMA UsersAreFinite == ASSUME NEW f PROVE IsFiniteSet(Users(f)) /\ Cardinality(Users(f)) \in Nat
<1>1. Users(f) \subseteq Sends
  BY DEF Users
<1> HIDE DEF Users
<1>2. IsFiniteSet(Users(f))
  BY <1>1, SendsAreFinite, FS_Subset
<1> QED
  BY <1>2, FS_CardinalityType

\* A handle whose sends and gate stay, with one that closes.
LEMMA HandleStays ==
    ASSUME NEW f \in Folders, HandleOK(f), handle'[f] = handle[f],
           \A s \in Sends : (send'[s].dir = f <=> send[s].dir = f)
                            /\ (send[s].dir = f => (send'[s].at = "recording" <=> send[s].at = "recording")),
           \A w \in Workspaces : gate'[w].directory = f <=> gate[w].directory = f
    PROVE  HandleOK(f)'
<1>1. Users(f)' = Users(f)
  BY DEF Users
<1> HIDE DEF Users
<1>2. handle'[f].users = Cardinality(Users(f)')
  BY <1>1 DEF HandleOK
<1> QED
  BY <1>2 DEF HandleOK

LEMMA HandleCloses ==
    ASSUME NEW f \in Folders, handle'[f] = NoHandle, \A s \in Sends : send'[s].dir # f,
           \A w \in Workspaces : gate'[w].directory # f
    PROVE  HandleOK(f)'
<1>1. Users(f)' = {}
  BY DEF Users
<1> HIDE DEF Users
<1>2. Cardinality(Users(f)') = 0
  BY <1>1, FS_EmptySet
<1> QED
  BY <1>2 DEF HandleOK, NoHandle

\* A send joins those of a handle.
LEMMA HandleGains ==
    ASSUME NEW f \in Folders, HandleOK(f), NEW s \in Sends, s \notin Users(f), Only(s),
           send'[s].dir = f, send'[s].at # "recording",
           handle'[f].open, handle'[f].users = handle[f].users + 1
    PROVE  HandleOK(f)'
<1>1. Users(f)' = Users(f) \cup {s}
  BY DEF Users, Only
<1> HIDE DEF Users
<1>2. Cardinality(Users(f)') = Cardinality(Users(f)) + 1
  <2> DEFINE U == Users(f)
  <2>1. IsFiniteSet(U) /\ s \notin U /\ Users(f)' = U \cup {s}
    BY <1>1, UsersAreFinite
  <2> HIDE DEF U
  <2>2. Cardinality(U \cup {s}) = Cardinality(U) + 1
    BY <2>1, FS_AddElement
  <2> QED
    BY <2>1, <2>2 DEF U
<1> QED
  BY <1>2 DEF HandleOK

\* Every handle stays.
LEMMA HandlesKeep ==
    ASSUME HandlesAreHeld, handle' = handle,
           \A s \in Sends : send'[s].dir = send[s].dir /\ (send'[s].at = "recording" <=> send[s].at = "recording"),
           \A w \in Workspaces : gate'[w].directory = gate[w].directory
    PROVE  HandlesAreHeld'
BY HandlesAre, HandlesWillBe, HandleStays

\* A folder is open in the gate of the workspace that owns it, and used there.
LEMMA OneGateOpens ==
    ASSUME Associations, Owners, NEW f \in Folders, NEW v \in Workspaces, NEW w \in Workspaces,
           gate[v].directory = f, Owns(w, f)
    PROVE  v = w
<1>1. records[v] = f
  BY NothingIsNone DEF Associations
<1>2. Owns(v, f)
  BY <1>1 DEF Owns
<1> QED
  BY <1>2 DEF Owners

LEMMA NobodyUses ==
    ASSUME Types, Phases, Owners, NEW w \in Workspaces, NEW f \in Folders, Owns(w, f), Inside(w) = {},
           NEW s \in Sends
    PROVE  send[s].dir # f
<1> SUFFICES ASSUME send[s].dir = f PROVE FALSE
  OBVIOUS
<1>1. send[s].dir # None
  BY NothingIsNone
<1>2. send[s].ws = w
  BY <1>1, HolderOwns DEF Owners
<1>3. send[s].at \notin {"new", "gate", "done"}
  BY <1>1 DEF Phases, PhaseOK, Holding
<1> QED
  BY <1>2, <1>3 DEF Inside

LEMMA HandlesNext ==
    ASSUME Types, Phases, Setups, Down, Associations, Owners, Fresh, Bare, Cleanups, HandlesAreHeld, [Next]_vars
    PROVE  HandlesAreHeld'
<1>0. ASSUME NEW f \in Folders PROVE HandleOK(f) /\ f # None
  BY HandlesAre, NothingIsNone
<1>1. CASE UNCHANGED <<handle, send, gate>>
  BY <1>1, HandlesKeep
<1>2. ASSUME UNCHANGED <<handle, gate>>, NEW s \in Sends, Only(s), send'[s].dir = send[s].dir,
             send[s].at # "recording", send'[s].at # "recording"
      PROVE  HandlesAreHeld'
  <2>1. \A r \in Sends : send'[r].dir = send[r].dir /\ (send'[r].at = "recording" <=> send[r].at = "recording")
    BY <1>2 DEF Only
  <2> QED
    BY <1>2, <2>1, HandlesKeep
<1>3. ASSUME NEW s \in Sends, Walk(s) PROVE HandlesAreHeld'
  <2>1. /\ UNCHANGED <<handle, gate>> /\ Only(s) /\ send'[s].dir = send[s].dir
        /\ send[s].at # "recording" /\ send'[s].at # "recording"
    BY <1>3, WalkDoes DEF Walks, memory
  <2> QED
    BY <1>2, <2>1
<1>4. ASSUME NEW s \in Sends, SendReserve(s) \/ SendRollback(s) PROVE HandlesAreHeld'
  <2>1. /\ UNCHANGED <<handle, gate>> /\ Only(s) /\ send'[s].dir = send[s].dir
        /\ send[s].at # "recording" /\ send'[s].at # "recording"
    <3>1. CASE SendReserve(s)
      BY <3>1, ReserveDoes DEF Reserves, memory
    <3>2. CASE SendRollback(s)
      BY <3>2, RollbackDoes DEF RollsBack, memory
    <3> QED
      BY <1>4, <3>1, <3>2
  <2> QED
    BY <1>2, <2>1
<1>5. ASSUME NEW s \in Sends, NEW w \in Workspaces, SendBegin(s, w) PROVE HandlesAreHeld'
  <2>1. /\ UNCHANGED handle /\ Only(s) /\ send'[s].dir = send[s].dir /\ send[s].at = "new" /\ send'[s].at = "gate"
        /\ OneGate(w) /\ gate'[w] = [gate[w] EXCEPT !.known = TRUE]
    BY <1>5, BeginDoes
  <2>2. gate'[w].directory = gate[w].directory
    BY <2>1, GateFields
  <2>3. \A r \in Sends : send'[r].dir = send[r].dir /\ (send'[r].at = "recording" <=> send[r].at = "recording")
    BY <2>1 DEF Only
  <2>4. \A v \in Workspaces : gate'[v].directory = gate[v].directory
    BY <2>1, <2>2 DEF OneGate
  <2> QED
    BY <2>1, <2>3, <2>4, HandlesKeep
<1>6. ASSUME NEW s \in Sends, SendReuse(s) PROVE HandlesAreHeld'
  <2>0. PICK w \in Workspaces, f \in Folders : Reuses(s, w, f)
    BY <1>6, ReuseDoes
  <2>1. /\ Only(s) /\ send'[s].dir = f /\ send[s].at = "validated" /\ send'[s].at = "ensured" /\ f = Old(w)
        /\ OneGate(w) /\ gate'[w] = [gate[w] EXCEPT !.directory = f]
        /\ OneHandle(f) /\ handle'[f].open /\ handle'[f].users = handle[f].users + 1
    BY <2>0 DEF Reuses
  <2>2. gate'[w].directory = f /\ gate[w].directory \in {None, f} /\ send[s].dir = None
    BY <2>1, GateFields DEF Old, Phases, PhaseOK, Holding
  <2>3. ASSUME NEW g \in Folders PROVE HandleOK(g)'
    <3>1. CASE g = f
      <4>1. s \notin Users(f)
        BY <1>0, <2>2 DEF Users
      <4> QED
        BY <1>0, <2>1, <3>1, <4>1, HandleGains
    <3>2. CASE g # f
      <4>1. handle'[g] = handle[g] /\ \A v \in Workspaces : gate'[v].directory = g <=> gate[v].directory = g
        BY <1>0, <2>1, <2>2, <3>2 DEF OneHandle, OneGate
      <4>2. \A r \in Sends : (send'[r].dir = g <=> send[r].dir = g)
                             /\ (send[r].dir = g => (send'[r].at = "recording" <=> send[r].at = "recording"))
        BY <1>0, <2>1, <2>2, <3>2 DEF Only
      <4> QED
        BY <1>0, <4>1, <4>2, HandleStays
    <3> QED
      BY <3>1, <3>2
  <2> QED
    BY <2>3, HandlesWillBe
\* A gate gives up a folder that nobody records.
<1>7. ASSUME NEW w \in Workspaces, NEW g \in Folders,
             IF g = gate[w].directory /\ handle[g].users = 0 THEN handle'[g] = NoHandle ELSE handle'[g] = handle[g],
             OneGate(w), gate'[w].directory = None, \A r \in Sends : (send'[r].dir = g <=> send[r].dir = g)
                             /\ (send[r].dir = g => (send'[r].at = "recording" <=> send[r].at = "recording"))
      PROVE  HandleOK(g)'
  <2>1. CASE g # gate[w].directory
    <3>1. \A v \in Workspaces : gate'[v].directory = g <=> gate[v].directory = g
      BY <1>0, <1>7, <2>1 DEF OneGate
    <3> QED
      BY <1>0, <1>7, <2>1, <3>1, HandleStays
  <2>2. CASE g = gate[w].directory
    <3>1. records[w] = g /\ Owns(w, g)
      BY <1>0, <2>2 DEF Associations, Owns
    <3>2. \A v \in Workspaces : gate'[v].directory # g
      BY <1>0, <1>7, <3>1, OneGateOpens DEF OneGate
    <3>3. \A r \in Sends : send[r].dir = g => send[r].at # "recording"
      BY <3>1 DEF Fresh
    <3>4. HandleOK(g)
      BY <1>0
    <3>5. CASE handle[g].users = 0
      <4>1. Cardinality(Users(g)) = 0
        BY <3>4, <3>5 DEF HandleOK
      <4>2. Users(g) = {}
        BY <4>1, UsersAreFinite, FS_EmptySet
      <4>3. \A r \in Sends : send'[r].dir # g
        BY <1>7, <3>3, <4>2 DEF Users
      <4> QED
        BY <1>7, <2>2, <3>2, <3>5, <4>3, HandleCloses
    <3>6. CASE handle[g].users # 0
      <4>1. Cardinality(Users(g)) # 0
        BY <3>4, <3>6 DEF HandleOK
      <4>2. Users(g) # {}
        BY <4>1, FS_EmptySet
      <4>3. \E r \in Sends : send'[r].dir = g
        BY <1>7, <4>2 DEF Users
      <4>4. Users(g)' = Users(g)
        BY <1>7 DEF Users
      <4>5. handle'[g] = handle[g] /\ handle[g].open
        BY <1>7, <2>2, <3>4, <3>6 DEF HandleOK
      <4>6. handle'[g].users = Cardinality(Users(g)')
        BY <3>4, <4>4, <4>5 DEF HandleOK
      <4> HIDE DEF Users
      <4> QED
        BY <4>3, <4>5, <4>6 DEF HandleOK
    <3> QED
      BY <3>5, <3>6
  <2> QED
    BY <2>1, <2>2
<1>8. ASSUME NEW s \in Sends, NEW f \in Folders, SendCreate(s, f) PROVE HandlesAreHeld'
  <2>0. PICK w \in Workspaces : Creates(s, f, w)
    BY <1>8, CreateDoes
  <2>1. /\ Only(s) /\ OneGate(w) /\ send[s].at = "validated" /\ f \notin made
        /\ \A g \in Folders : g # f =>
              IF g = gate[w].directory /\ handle[g].users = 0 THEN handle'[g] = NoHandle ELSE handle'[g] = handle[g]
        /\ \/ /\ send'[s].at = "recording" /\ send'[s].dir = f /\ gate'[w] = [gate[w] EXCEPT !.directory = None, !.setup = s]
              /\ handle'[f] = [open |-> TRUE, users |-> 0]
           \/ /\ send'[s].at = "done" /\ send'[s].dir = send[s].dir /\ gate'[w] = [gate[w] EXCEPT !.directory = None] /\ Drops(w)
    BY <2>0 DEF Creates
  <2>2. gate'[w].directory = None
    <3>1. CASE gate'[w] = [gate[w] EXCEPT !.directory = None, !.setup = s]
      BY <3>1, GateFields
    <3>2. CASE gate'[w] = [gate[w] EXCEPT !.directory = None]
      BY <3>2, GateFields
    <3> QED
      BY <2>1, <3>1, <3>2
  <2>3. send[s].dir = None
    BY <2>1 DEF Phases, PhaseOK, Holding
  <2>4. ASSUME NEW g \in Folders, g # f PROVE HandleOK(g)'
    <3>1. \A r \in Sends : (send'[r].dir = g <=> send[r].dir = g)
                           /\ (send[r].dir = g => (send'[r].at = "recording" <=> send[r].at = "recording"))
      BY <1>0, <2>1, <2>3, <2>4 DEF Only
    <3> QED
      BY <1>7, <2>1, <2>2, <2>4, <3>1
  <2>5. HandleOK(f)'
    <3>1. CASE send'[s].at = "recording" /\ send'[s].dir = f /\ handle'[f] = [open |-> TRUE, users |-> 0]
      <4>1. \A r \in Sends : r # s => send'[r].dir # f
        BY <2>1, HolderOwns, NothingIsNone DEF Only
      <4>2. Users(f)' = {}
        BY <3>1, <4>1 DEF Users
      <4>3. Cardinality(Users(f)') = 0
        BY <4>2, FS_EmptySet
      <4>4. handle'[f].open = TRUE /\ handle'[f].users = 0
        BY <3>1
      <4> HIDE DEF Users
      <4> QED
        BY <3>1, <4>3, <4>4 DEF HandleOK
    <3>2. CASE send'[s].at = "done" /\ send'[s].dir = send[s].dir /\ Drops(w)
      <4>1. \A r \in Sends : (send'[r].dir = f <=> send[r].dir = f)
                             /\ (send[r].dir = f => (send'[r].at = "recording" <=> send[r].at = "recording"))
        BY <1>0, <2>1, <2>3, <3>2 DEF Only
      <4> QED
        BY <1>7, <2>1, <2>2, <3>2, <4>1 DEF Drops
    <3> QED
      BY <2>1, <3>1, <3>2
  <2> QED
    BY <2>4, <2>5, HandlesWillBe
<1>9. ASSUME NEW s \in Sends, SendRecord(s) PROVE HandlesAreHeld'
  <2>0. PICK w \in Workspaces, f \in Folders : Records(s, w, f)
    BY <1>9, RecordDoes
  <2>1. /\ Only(s) /\ OneGate(w) /\ OneHandle(f) /\ send[s].at = "recording" /\ w = send[s].ws /\ f = send[s].dir
        /\ \/ /\ send'[s].at = "ensured" /\ send'[s].dir = f
              /\ gate'[w] = [gate[w] EXCEPT !.association = f, !.directory = f, !.setup = None]
              /\ handle'[f] = [open |-> handle[f].open, users |-> handle[f].users + 1]
           \/ /\ send'[s].at = "done" /\ send'[s].dir = None /\ gate'[w] = [gate[w] EXCEPT !.setup = None]
              /\ handle'[f] = NoHandle
    BY <2>0 DEF Records
  <2>2. /\ gate[w].directory = None /\ \A r \in Sends : r # s => send[r].dir # f
        /\ \A v \in Workspaces : gate[v].directory # f
    BY <1>0, <2>1 DEF Bare, Fresh, Associations
  <2>3. gate'[w].directory \in {None, f}
    <3>1. CASE gate'[w] = [gate[w] EXCEPT !.association = f, !.directory = f, !.setup = None]
      BY <3>1, GateFields
    <3>2. CASE gate'[w] = [gate[w] EXCEPT !.setup = None]
      BY <2>2, <3>2, GateFields
    <3> QED
      BY <2>1, <3>1, <3>2
  <2>4. ASSUME NEW g \in Folders, g # f PROVE HandleOK(g)'
    <3>1. handle'[g] = handle[g] /\ \A v \in Workspaces : gate'[v].directory = g <=> gate[v].directory = g
      BY <1>0, <2>1, <2>2, <2>3, <2>4 DEF OneHandle, OneGate
    <3>2. \A r \in Sends : (send'[r].dir = g <=> send[r].dir = g)
                           /\ (send[r].dir = g => (send'[r].at = "recording" <=> send[r].at = "recording"))
      BY <1>0, <2>1, <2>4 DEF Only
    <3> QED
      BY <1>0, <3>1, <3>2, HandleStays
  <2>5. CASE /\ send'[s].at = "ensured" /\ send'[s].dir = f
             /\ handle'[f] = [open |-> handle[f].open, users |-> handle[f].users + 1]
    <3>1. handle'[f].open = handle[f].open /\ handle'[f].users = handle[f].users + 1
      BY <2>5
    <3>2. handle[f].open /\ s \notin Users(f)
      BY <1>0, <2>1 DEF HandleOK, Users
    <3>3. HandleOK(f)'
      BY <1>0, <2>1, <2>5, <3>1, <3>2, HandleGains
    <3> QED
      BY <2>4, <3>3, HandlesWillBe
  <2>6. CASE /\ send'[s].dir = None /\ gate'[w] = [gate[w] EXCEPT !.setup = None] /\ handle'[f] = NoHandle
    <3>1. gate'[w].directory = None
      BY <2>2, <2>6, GateFields
    <3>2. \A r \in Sends : send'[r].dir # f
      BY <1>0, <2>1, <2>2, <2>6 DEF Only
    <3>4. \A v \in Workspaces : gate'[v].directory # f
      BY <1>0, <2>1, <2>2, <3>1 DEF OneGate
    <3>3. HandleOK(f)'
      BY <2>6, <3>2, <3>4, HandleCloses
    <3> QED
      BY <2>4, <3>3, HandlesWillBe
  <2> QED
    BY <2>1, <2>5, <2>6
<1>10. ASSUME NEW s \in Sends, SendRelease(s) PROVE HandlesAreHeld'
  <2>0. PICK w \in Workspaces, f \in Folders : Releases(s, w, f)
    BY <1>10, ReleaseDoes
  <2>1. /\ UNCHANGED gate /\ w = send[s].ws /\ f = send[s].dir /\ send[s].at = "release"
        /\ Only(s) /\ send'[s].at = "done" /\ send'[s].dir = None
        /\ OneHandle(f)
        /\ IF handle[f].users = 1 /\ gate[w].directory # f THEN handle'[f] = NoHandle
           ELSE handle'[f] = [open |-> handle[f].open, users |-> handle[f].users - 1]
    BY <2>0 DEF Releases
  <2>2. ASSUME NEW g \in Folders, g # f PROVE HandleOK(g)'
    <3>1. handle'[g] = handle[g] /\ \A v \in Workspaces : gate'[v].directory = g <=> gate[v].directory = g
      BY <2>1, <2>2 DEF OneHandle
    <3>2. \A r \in Sends : (send'[r].dir = g <=> send[r].dir = g)
                           /\ (send[r].dir = g => (send'[r].at = "recording" <=> send[r].at = "recording"))
      BY <1>0, <2>1, <2>2 DEF Only
    <3> QED
      BY <1>0, <3>1, <3>2, HandleStays
  <2>3. s \in Users(f) /\ HandleOK(f)
    BY <1>0, <2>1 DEF Users
  <2>4. Users(f)' = Users(f) \ {s}
    BY <1>0, <2>1 DEF Users, Only
  <2>5. IsFiniteSet(Users(f)) /\ Cardinality(Users(f)') = Cardinality(Users(f)) - 1
    <3> HIDE DEF Users
    <3>1. IsFiniteSet(Users(f))
      BY UsersAreFinite
    <3> QED
      BY <2>3, <2>4, <3>1, FS_RemoveElement
  <2>6. Owns(w, f)
    BY <1>0, <2>1, HolderOwns
  <2>7. \A v \in Workspaces : gate[v].directory = f => v = w
    BY <2>6, OneGateOpens
  <2>8. CASE handle[f].users = 1 /\ gate[w].directory # f
    <3>1. Cardinality(Users(f)') = 0
      BY <2>3, <2>5, <2>8 DEF HandleOK
    <3>2. IsFiniteSet(Users(f)')
      BY <2>4, <2>5, FS_RemoveElement
    <3>3. Users(f)' = {}
      BY <3>1, <3>2, FS_EmptySet
    <3>4. \A r \in Sends : send'[r].dir = f => r # s /\ send'[r] = send[r] /\ send[r].dir = f
      BY <1>0, <2>1 DEF Only
    <3>5. \A r \in Sends : send'[r].dir = f => send'[r].at # "recording"
      BY <2>1, <3>4 DEF Fresh
    <3>6. \A r \in Sends : send'[r].dir # f
      BY <3>3, <3>5 DEF Users
    <3>7. HandleOK(f)'
      BY <2>1, <2>7, <2>8, <3>6, HandleCloses
    <3> QED
      BY <2>2, <3>7, HandlesWillBe
  <2>9. CASE ~(handle[f].users = 1 /\ gate[w].directory # f)
    <3>1. handle'[f] = [open |-> handle[f].open, users |-> handle[f].users - 1]
      BY <2>1, <2>9
    <3>2. handle'[f].open = handle[f].open /\ handle'[f].users = handle[f].users - 1
      BY <3>1
    <3>3. handle[f].open
      BY <2>1, <2>3 DEF HandleOK
    <3>4. handle'[f].users = Cardinality(Users(f)')
      BY <2>3, <2>5, <3>2 DEF HandleOK
    <3>5. \/ \E r \in Sends : send'[r].dir = f
          \/ \E v \in Workspaces : gate'[v].directory = f
      <4>1. CASE gate[w].directory = f
        BY <2>1, <4>1
      <4>2. CASE handle[f].users # 1
        <5>1. Cardinality(Users(f)) # 1 /\ Cardinality(Users(f)) \in Nat
          BY <2>3, <4>2, UsersAreFinite DEF HandleOK
        <5>2. Cardinality(Users(f)') # 0
          BY <2>5, <5>1
        <5>3. Users(f)' # {}
          BY <5>2, FS_EmptySet
        <5> QED
          BY <5>3 DEF Users
      <4> QED
        BY <2>9, <4>1, <4>2
    <3> HIDE DEF Users
    <3>6. HandleOK(f)'
      BY <3>2, <3>3, <3>4, <3>5 DEF HandleOK
    <3> QED
      BY <2>2, <3>6, HandlesWillBe
  <2> QED
    BY <2>8, <2>9
<1>11. ASSUME NEW w \in Workspaces, Stops(w) PROVE HandlesAreHeld'
  <2>1. /\ handle' = handle /\ \A v \in Workspaces : gate'[v].directory = gate[v].directory
        /\ \A r \in Sends : send'[r].dir = send[r].dir /\ send'[r].at = send[r].at
    BY <1>11 DEF Stops, OneGate
  <2> QED
    BY <2>1, HandlesKeep
<1>12. ASSUME NEW c \in Cleaners, CleanupOpen(c) PROVE HandlesAreHeld'
  <2>0. PICK w \in Workspaces : Opens(c, w)
    BY <1>12, CleanupOpenDoes
  <2>1. /\ UNCHANGED send /\ OneGate(w)
        /\ \/ /\ records[w] \in Folders /\ gate'[w].directory = records[w] /\ OneHandle(records[w])
              /\ handle'[records[w]].open = TRUE /\ handle'[records[w]].users = handle[records[w]].users
           \/ gate'[w].directory = gate[w].directory /\ handle' = handle
    BY <2>0 DEF Opens
  <2>2. CASE /\ records[w] \in Folders /\ gate'[w].directory = records[w] /\ OneHandle(records[w])
             /\ handle'[records[w]].open = TRUE /\ handle'[records[w]].users = handle[records[w]].users
    <3>1. gate[w].directory \in {None, records[w]}
      BY DEF Associations
    <3>2. ASSUME NEW g \in Folders PROVE HandleOK(g)'
      <4>1. CASE g = records[w]
        <5>1. Users(g)' = Users(g)
          BY <2>1 DEF Users
        <5> HIDE DEF Users
        <5>2. handle'[g].users = Cardinality(Users(g)') /\ handle'[g].open = TRUE
          BY <1>0, <2>2, <4>1, <5>1 DEF HandleOK
        <5> QED
          BY <2>2, <4>1, <5>2 DEF HandleOK
      <4>2. CASE g # records[w]
        <5>1. handle'[g] = handle[g] /\ \A v \in Workspaces : gate'[v].directory = g <=> gate[v].directory = g
          BY <1>0, <2>1, <2>2, <3>1, <4>2 DEF OneHandle, OneGate
        <5> QED
          BY <1>0, <2>1, <5>1, HandleStays
      <4> QED
        BY <4>1, <4>2
    <3> QED
      BY <3>2, HandlesWillBe
  <2>3. CASE gate'[w].directory = gate[w].directory /\ handle' = handle
    <3>1. \A v \in Workspaces : gate'[v].directory = gate[v].directory
      BY <2>1, <2>3 DEF OneGate
    <3> QED
      BY <2>1, <2>3, <3>1, HandlesKeep
  <2> QED
    BY <2>1, <2>2, <2>3
\* A gate with no send inside closes its folder.
<1>13. ASSUME NEW w \in Workspaces, NEW f \in Folders, f = gate[w].directory, Inside(w) = {}, UNCHANGED send,
              OneGate(w), gate'[w].directory = None, handle'[f] = NoHandle,
              \A g \in Folders : g # f => handle'[g] = handle[g]
       PROVE  HandlesAreHeld'
  <2>1. records[w] = f /\ Owns(w, f)
    BY <1>0, <1>13 DEF Associations, Owns
  <2>2. \A r \in Sends : send'[r].dir # f
    BY <1>13, <2>1, NobodyUses
  <2>3. \A v \in Workspaces : gate'[v].directory # f
    BY <1>0, <1>13, <2>1, OneGateOpens DEF OneGate
  <2>4. HandleOK(f)'
    BY <1>13, <2>2, <2>3, HandleCloses
  <2>5. ASSUME NEW g \in Folders, g # f PROVE HandleOK(g)'
    <3>1. \A v \in Workspaces : gate'[v].directory = g <=> gate[v].directory = g
      BY <1>0, <1>13, <2>5 DEF OneGate
    <3> QED
      BY <1>0, <1>13, <2>5, <3>1, HandleStays
  <2> QED
    BY <2>4, <2>5, HandlesWillBe
<1>14. ASSUME NEW c \in Cleaners, CleanupRemove(c) PROVE HandlesAreHeld'
  <2>0. PICK w \in Workspaces, f \in Folders : Removes(c, w, f)
    BY <1>14, RemoveDoes
  <2>1. /\ UNCHANGED send /\ w = cleaner[c].ws /\ f = gate[w].directory /\ cleaner[c].at = "removing" /\ OneGate(w)
        /\ \/ OneHandle(f) /\ handle'[f] = NoHandle /\ gate'[w].directory = None
           \/ handle' = handle /\ gate'[w].directory = f
           \/ handle' = handle /\ gate' = gate
    BY <2>0 DEF Removes
  <2>2. Inside(w) = {}
    BY <2>1 DEF Cleanups
  <2>3. CASE OneHandle(f) /\ handle'[f] = NoHandle /\ gate'[w].directory = None
    BY <1>13, <2>1, <2>2, <2>3 DEF OneHandle
  <2>4. CASE handle' = handle /\ gate'[w].directory = f
    <3>1. \A v \in Workspaces : gate'[v].directory = gate[v].directory
      BY <2>1, <2>4 DEF OneGate
    <3> QED
      BY <2>1, <2>4, <3>1, HandlesKeep
  <2>5. CASE handle' = handle /\ gate' = gate
    BY <1>1, <2>1, <2>5
  <2> QED
    BY <2>1, <2>3, <2>4, <2>5
<1>15. ASSUME NEW c \in Cleaners, CleanupClear(c) PROVE HandlesAreHeld'
  <2>0. PICK w \in Workspaces : Clears(c, w)
    BY <1>15, ClearDoes
  <2>1. UNCHANGED <<send, handle>> /\ OneGate(w) /\ gate'[w].directory = gate[w].directory
    BY <2>0 DEF Clears
  <2>2. \A v \in Workspaces : gate'[v].directory = gate[v].directory
    BY <2>1 DEF OneGate
  <2> QED
    BY <2>1, <2>2, HandlesKeep
<1>16. ASSUME NEW w \in Workspaces, CloseLock(w) PROVE HandlesAreHeld'
  <2>1. /\ UNCHANGED send /\ Inside(w) = {} /\ OneGate(w) /\ gate'[w] = [gate[w] EXCEPT !.directory = None]
        /\ handle' \in [Folders -> Handle] /\ handle \in [Folders -> Handle]
        /\ \A f \in Folders : handle'[f] = IF f = gate[w].directory THEN NoHandle ELSE handle[f]
    BY <1>16, CloseLockDoes DEF Types, Handle
  <2>2. gate'[w].directory = None
    BY <2>1, GateFields
  <2>3. CASE gate[w].directory = None
    <3>1. handle' = handle
      BY <1>0, <2>1, <2>3
    <3>2. \A v \in Workspaces : gate'[v].directory = gate[v].directory
      BY <2>1, <2>2, <2>3 DEF OneGate
    <3> QED
      BY <2>1, <3>1, <3>2, HandlesKeep
  <2>4. CASE gate[w].directory # None
    <3>1. gate[w].directory \in Folders
      BY <2>4 DEF Types, Gate
    <3> QED
      BY <1>13, <2>1, <2>2, <3>1
  <2> QED
    BY <2>3, <2>4
<1>17. CASE Ended
  <2>1. \A f \in Folders : handle'[f] = NoHandle
    BY <1>17, EndedDoes
  <2>2. \A s \in Sends : send'[s].dir = None
    BY <1>17, EndedDoes DEF Phases, PhaseOK, Holding
  <2>3. \A w \in Workspaces : gate'[w].directory = None
    BY <1>17, EndedDoes, NewGateFields
  <2> QED
    BY <1>0, <2>1, <2>2, <2>3, HandleCloses, HandlesWillBe
<1>18. CASE Open
  <2>1. /\ UNCHANGED <<send, handle>> /\ \A w \in Workspaces : gate[w] = NewGate(None)
        /\ \A w \in Workspaces : gate'[w] = NewGate(disk.records[w])
    BY <1>18, OpenDoes DEF Down
  <2>2. ASSUME NEW w \in Workspaces PROVE gate'[w].directory = None
    <3> DEFINE f == disk.records[w]
    <3>1. gate'[w] = NewGate(f)
      BY <2>1
    <3> HIDE DEF f
    <3> QED
      BY <3>1, NewGateFields
  <2>3. \A w \in Workspaces : gate[w].directory = None
    BY <2>1, NewGateFields
  <2> QED
    BY <2>1, <2>2, <2>3, HandlesKeep
<1>19. ASSUME NEW c \in Cleaners, CleanupStep(c) PROVE HandlesAreHeld'
  BY <1>1, <1>11, <1>12, <1>14, <1>15, <1>19, CleanupStopDoes DEF CleanupStep, CleanupAnnounce
<1>20. CASE CloseStep
  BY <1>1, <1>11, <1>16, <1>17, <1>20, CloseStopDoes DEF CloseStep, CloseGates, Exit
<1>21. ASSUME NEW s \in Sends, SendStep(s) PROVE HandlesAreHeld'
  BY <1>3, <1>4, <1>6, <1>8, <1>9, <1>10, <1>21 DEF SendStep, Walk
<1> QED
  BY <1>1, <1>5, <1>17, <1>18, <1>19, <1>20, <1>21
     DEF Next, Crash, CloseBegin, Vanish, Publish, ObservePublishedSnapshot, vars, memory

\* The sends that may have a file, and what a file of such a send is.
Filing == {"reading", "staged", "forwarding", "rollback", "release"}
FileOK(f, s) ==
    /\ (send[s].at \in Filing /\ send[s].dir = f) \/ send[s].at = "done"
    /\ faults = 0 /\ send[s].at \in {"release", "done"} => send[s].result \notin Failed

LEMMA NotFiled ==
    ASSUME Files, NEW s \in Sends, send[s].at \notin Filing \cup {"done"}
    PROVE  \A f \in Folders : s \notin disk.folders[f].entries
BY DEF Files, Filing

LEMMA FilesKeep ==
    ASSUME Types, Phases, Cleanups, Associations, Owners, Files, [Next]_vars,
           \A f \in Folders : ~disk'.folders[f].there => disk'.folders[f].entries = {},
           \A f \in Folders, s \in Sends : s \in disk'.folders[f].entries =>
               /\ s \in disk.folders[f].entries \/ send[s].dir = f
               /\ send'[s].ws = send[s].ws /\ FileOK(f, s)'
    PROVE  Files'
<1> SUFFICES ASSUME NEW f \in Folders, NEW s \in Sends, s \in disk'.folders[f].entries
             PROVE  FileOK(f, s)' /\ \A w \in Workspaces : Owns(w, f)' => send'[s].ws = w
  BY DEF Files, FileOK, Filing
<1>1. f # None
  BY NothingIsNone
<1>2. f \in made
  <2>1. CASE s \in disk.folders[f].entries
    BY <2>1 DEF Owners, Absent, NoDir
  <2>2. CASE send[s].dir = f
    BY <1>1, <2>2, HolderOwns
  <2> QED
    BY <2>1, <2>2
<1>3. ASSUME NEW w \in Workspaces, Owns(w, f)' PROVE send'[s].ws = w
  <2>1. Owns(w, f)
    BY <1>2, <1>3, OwnsNext
  <2>2. CASE s \in disk.folders[f].entries
    BY <2>1, <2>2 DEF Files
  <2>3. CASE send[s].dir = f
    BY <1>1, <2>1, <2>3, HolderOwns DEF Owners
  <2> QED
    BY <2>2, <2>3
<1> QED
  BY <1>3

\* A step that adds no file, and moves at most one send.
LEMMA OneFiles ==
    ASSUME Types, Phases, Cleanups, Associations, Owners, Files, [Next]_vars,
           NEW s \in Sends, Only(s), faults' = 0 => faults = 0,
           \A f \in Folders : disk'.folders[f].entries \subseteq disk.folders[f].entries \cup {Marker},
           \A f \in Folders : ~disk'.folders[f].there => disk'.folders[f].entries = {},
           \A f \in Folders : s \in disk'.folders[f].entries => send'[s].ws = send[s].ws /\ FileOK(f, s)'
    PROVE  Files'
<1> SUFFICES ASSUME NEW f \in Folders, NEW r \in Sends, r \in disk'.folders[f].entries
             PROVE  r \in disk.folders[f].entries /\ send'[r].ws = send[r].ws /\ FileOK(f, r)'
  BY FilesKeep
<1>1. r \in disk.folders[f].entries
  BY MarkerIsNoFile
<1>2. CASE r = s
  BY <1>1, <1>2
<1>3. CASE r # s
  <2>1. send'[r] = send[r]
    BY <1>3 DEF Only
  <2>2. FileOK(f, r)
    BY <1>1 DEF Files, FileOK, Filing
  <2> QED
    BY <1>1, <2>1, <2>2 DEF FileOK
<1> QED
  BY <1>2, <1>3

\* A step that adds no file, and moves no send.
LEMMA NoFiles ==
    ASSUME Types, Phases, Cleanups, Associations, Owners, Files, [Next]_vars,
           \A s \in Sends : /\ send'[s].at = send[s].at /\ send'[s].ws = send[s].ws /\ send'[s].dir = send[s].dir
                            /\ send'[s].result = send[s].result,
           faults' = 0 => faults = 0,
           \A f \in Folders : disk'.folders[f].entries \subseteq disk.folders[f].entries,
           \A f \in Folders : ~disk'.folders[f].there => disk'.folders[f].entries = {}
    PROVE  Files'
<1> SUFFICES ASSUME NEW f \in Folders, NEW r \in Sends, r \in disk'.folders[f].entries
             PROVE  r \in disk.folders[f].entries /\ send'[r].ws = send[r].ws /\ FileOK(f, r)'
  BY FilesKeep
<1>1. r \in disk.folders[f].entries
  OBVIOUS
<1>2. FileOK(f, r)
  BY <1>1 DEF Files, FileOK, Filing
<1> QED
  BY <1>1, <1>2 DEF FileOK

LEMMA FilesNext ==
    ASSUME Types, Phases, Setups, Down, Associations, Owners, Cleanups, HandlesAreHeld, Files, [Next]_vars
    PROVE  Files'
<1>0. \A f \in Folders : ~disk.folders[f].there => disk.folders[f].entries = {}
  BY DEF Files
<1>1. ASSUME UNCHANGED <<send, disk>>, faults' = 0 => faults = 0 PROVE Files'
  BY <1>0, <1>1, NoFiles
<1>2. ASSUME NEW s \in Sends, UNCHANGED <<disk, faults>>, Only(s), send[s].at \notin Filing \cup {"done"} PROVE Files'
  <2>1. \A f \in Folders : s \notin disk'.folders[f].entries
    BY <1>2, NotFiled
  <2> QED
    BY <1>0, <1>2, <2>1, OneFiles
<1>3. ASSUME NEW s \in Sends, UNCHANGED <<disk, faults>>, Only(s), send[s].at \in Filing,
             send'[s].at \in Filing, send'[s].ws = send[s].ws, send'[s].dir = send[s].dir,
             send'[s].at = "release" => send'[s].result \notin Failed
      PROVE  Files'
  <2>1. ASSUME NEW f \in Folders, s \in disk'.folders[f].entries PROVE FileOK(f, s)'
    BY <1>3, <2>1 DEF Files, FileOK, Filing
  <2> QED
    BY <1>0, <1>3, <2>1, OneFiles
<1>4. ASSUME NEW s \in Sends, Walk(s) \/ \E result \in {"forwarded", "unknown", "occupied", "not_sent"} : SendResult(s, result)
      PROVE  Files'
  <2>1. CASE SendEnter(s)
    BY <1>2, <2>1, EnterDoes DEF Walks, bounds, Filing
  <2>2. CASE SendValidate(s)
    BY <1>2, <2>2, ValidateDoes DEF Walks, bounds, Filing
  <2>3. CASE SendRead(s)
    BY <1>3, <2>3, ReadDoes DEF Walks, bounds, Filing
  <2>4. CASE SendForward(s)
    BY <1>3, <2>4, ForwardDoes DEF Walks, bounds, Filing
  <2>5. ASSUME NEW result \in {"forwarded", "unknown", "occupied", "not_sent"}, SendResult(s, result) PROVE Files'
    BY <1>3, <2>5, ResultDoes DEF Walks, bounds, Filing
  <2> QED
    BY <1>4, <2>1, <2>2, <2>3, <2>4, <2>5 DEF Walk
<1>5. ASSUME NEW s \in Sends, NEW w \in Workspaces, SendBegin(s, w) PROVE Files'
  BY <1>2, <1>5, BeginDoes DEF bounds, Filing
<1>6. ASSUME NEW s \in Sends, SendReuse(s) PROVE Files'
  <2>0. PICK w \in Workspaces, f \in Folders : Reuses(s, w, f)
    BY <1>6, ReuseDoes
  <2> QED
    BY <1>2, <2>0 DEF Reuses, bounds, Filing
<1>7. ASSUME NEW s \in Sends, NEW f \in Folders, SendCreate(s, f) PROVE Files'
  <2>0. PICK w \in Workspaces : Creates(s, f, w)
    BY <1>7, CreateDoes
  <2>1. /\ Only(s) /\ send[s].at = "validated" /\ OneFolder(f) /\ faults' \in {faults, faults + 1}
        /\ disk'.folders[f] = [there |-> TRUE, entries |-> {Marker}] \/ disk' = disk
    BY <2>0 DEF Creates
  <2>2. \A g \in Folders : /\ disk'.folders[g].entries \subseteq disk.folders[g].entries \cup {Marker}
                           /\ ~disk'.folders[g].there => disk'.folders[g].entries = {}
    BY <1>0, <2>1 DEF OneFolder
  <2>3. faults' = 0 => faults = 0
    BY <2>1 DEF Types
  <2>4. \A g \in Folders : s \notin disk'.folders[g].entries
    BY <2>1, <2>2, NotFiled, MarkerIsNoFile DEF Filing
  <2> QED
    BY <2>1, <2>2, <2>3, <2>4, OneFiles
<1>8. ASSUME NEW s \in Sends, SendRecord(s) PROVE Files'
  <2>0. PICK w \in Workspaces, f \in Folders : Records(s, w, f)
    BY <1>8, RecordDoes
  <2>1. /\ Only(s) /\ send[s].at = "recording" /\ OneFolder(f) /\ faults' \in {faults, faults + 1}
        /\ disk'.folders[f] = disk.folders[f] \/ disk'.folders[f] = Absent
    BY <2>0 DEF Records
  <2>2. \A g \in Folders : /\ disk'.folders[g].entries \subseteq disk.folders[g].entries
                           /\ ~disk'.folders[g].there => disk'.folders[g].entries = {}
    BY <1>0, <2>1 DEF OneFolder, Absent, NoDir
  <2>3. faults' = 0 => faults = 0
    BY <2>1 DEF Types
  <2>4. \A g \in Folders : s \notin disk'.folders[g].entries
    BY <2>1, <2>2, NotFiled DEF Filing
  <2> QED
    BY <2>1, <2>2, <2>3, <2>4, OneFiles
<1>9. ASSUME NEW s \in Sends, SendReserve(s) PROVE Files'
  <2>0. PICK f \in Folders : Reserves(s, f)
    BY <1>9, ReserveDoes
  <2>1. /\ Only(s) /\ send[s].at = "ensured" /\ f = send[s].dir /\ OneFolder(f) /\ faults' = faults
        /\ send'[s].ws = send[s].ws /\ send'[s].dir = f
    BY <2>0 DEF Reserves, bounds
  <2>2. CASE disk'.folders[f] = disk.folders[f]
    <3>1. \A g \in Folders : disk'.folders[g] = disk.folders[g] /\ s \notin disk.folders[g].entries
      BY <2>1, <2>2, NotFiled DEF OneFolder, Filing
    <3> QED
      BY <1>0, <2>1, <3>1, OneFiles
  <2>3. CASE /\ Verified(f) /\ send'[s].at = "reading"
             /\ disk'.folders[f] = [disk.folders[f] EXCEPT !.entries = @ \cup {s}]
    <3>1. /\ disk'.folders[f].there = disk.folders[f].there
          /\ disk'.folders[f].entries = disk.folders[f].entries \cup {s}
          /\ disk.folders[f].there
      <4> DEFINE d == disk.folders[f]
      <4>1. d \in Folder /\ disk'.folders[f] = [d EXCEPT !.entries = @ \cup {s}]
        BY <2>3 DEF Types
      <4>2. disk.folders[f].there
        BY <2>3 DEF Verified, Exists
      <4>3. [d EXCEPT !.entries = @ \cup {s}].there = d.there /\ [d EXCEPT !.entries = @ \cup {s}].entries = d.entries \cup {s}
        <5> HIDE DEF d
        <5> QED
          BY <4>1 DEF Folder
      <4> QED
        BY <4>1, <4>2, <4>3
    <3>2. ASSUME NEW g \in Folders PROVE ~disk'.folders[g].there => disk'.folders[g].entries = {}
      BY <1>0, <2>1, <3>1 DEF OneFolder
    <3>3. ASSUME NEW g \in Folders, NEW r \in Sends, r \in disk'.folders[g].entries
          PROVE  /\ r \in disk.folders[g].entries \/ send[r].dir = g
                 /\ send'[r].ws = send[r].ws /\ FileOK(g, r)'
      <4>1. CASE r = s
        <5>1. g = f
          BY <2>1, <3>3, <4>1, NotFiled DEF OneFolder, Filing
        <5>2. FileOK(g, r)'
          BY <2>1, <2>3, <4>1, <5>1 DEF FileOK, Filing
        <5> QED
          BY <2>1, <4>1, <5>1, <5>2
      <4>2. CASE r # s
        <5>1. send'[r] = send[r] /\ r \in disk.folders[g].entries
          BY <2>1, <3>1, <3>3, <4>2 DEF OneFolder, Only
        <5>2. FileOK(g, r)
          BY <5>1 DEF Files, FileOK, Filing
        <5> QED
          BY <2>1, <5>1, <5>2 DEF FileOK
      <4> QED
        BY <4>1, <4>2
    <3> QED
      BY <3>2, <3>3, FilesKeep
  <2> QED
    BY <2>0, <2>2, <2>3 DEF Reserves
<1>10. ASSUME NEW s \in Sends, SendRollback(s) PROVE Files'
  <2>0. PICK f \in Folders : RollsBack(s, f)
    BY <1>10, RollbackDoes
  <2>1. /\ Only(s) /\ send[s].at = "rollback" /\ f = send[s].dir /\ OneFolder(f)
        /\ send'[s].ws = send[s].ws /\ send'[s].dir = f /\ send'[s].at = "release"
        /\ disk'.folders[f].there = disk.folders[f].there
        /\ disk'.folders[f].entries \in {disk.folders[f].entries, disk.folders[f].entries \ {s}}
        /\ \/ faults' = faults /\ (handle[f].open => disk'.folders[f].entries = disk.folders[f].entries \ {s})
           \/ faults' = faults + 1
    BY <2>0 DEF RollsBack
  <2>2. \A g \in Folders : /\ disk'.folders[g].entries \subseteq disk.folders[g].entries
                           /\ ~disk'.folders[g].there => disk'.folders[g].entries = {}
    BY <1>0, <2>1 DEF OneFolder
  <2>3. faults' = 0 => faults' = faults
    BY <2>1 DEF Types
  <2>4. handle[f].open
    BY <2>1 DEF HandlesAreHeld, Using
  <2>5. ASSUME NEW g \in Folders, s \in disk'.folders[g].entries PROVE FileOK(g, s)'
    <3>1. g = f
      BY <2>1, <2>2, <2>5 DEF Files
    <3>2. faults' # 0
      BY <2>1, <2>3, <2>4, <2>5, <3>1 DEF Types
    <3> QED
      BY <2>1, <3>1, <3>2 DEF FileOK, Filing
  <2> QED
    BY <2>1, <2>2, <2>3, <2>5, OneFiles
<1>11. ASSUME NEW s \in Sends, SendRelease(s) PROVE Files'
  <2>0. PICK w \in Workspaces, f \in Folders : Releases(s, w, f)
    BY <1>11, ReleaseDoes
  <2>1. /\ UNCHANGED <<disk, faults>> /\ Only(s) /\ send[s].at = "release"
        /\ send'[s].at = "done" /\ send'[s].ws = send[s].ws /\ send'[s].result = send[s].result
    BY <2>0 DEF Releases, bounds
  <2>2. ASSUME NEW g \in Folders, s \in disk'.folders[g].entries PROVE FileOK(g, s)'
    BY <2>1, <2>2 DEF Files, FileOK
  <2> QED
    BY <1>0, <2>1, <2>2, OneFiles
<1>12. ASSUME NEW w \in Workspaces, Stops(w) PROVE Files'
  <2>1. /\ UNCHANGED <<disk, faults>>
        /\ \A s \in Sends : /\ send'[s].at = send[s].at /\ send'[s].ws = send[s].ws /\ send'[s].dir = send[s].dir
                            /\ send'[s].result = send[s].result
    BY <1>12 DEF Stops, bounds
  <2> QED
    BY <1>0, <2>1, NoFiles
<1>13. ASSUME NEW c \in Cleaners, CleanupOpen(c) PROVE Files'
  <2>0. PICK w \in Workspaces : Opens(c, w)
    BY <1>13, CleanupOpenDoes
  <2>1. UNCHANGED <<send, disk>> /\ faults' \in {faults, faults + 1}
    BY <2>0 DEF Opens
  <2> QED
    BY <1>1, <2>1 DEF Types
<1>14. ASSUME NEW c \in Cleaners, CleanupRemove(c) PROVE Files'
  <2>0. PICK w \in Workspaces, f \in Folders : Removes(c, w, f)
    BY <1>14, RemoveDoes
  <2>1. /\ UNCHANGED send /\ OneFolder(f) /\ faults' \in {faults, faults + 1}
        /\ \/ /\ \E e \in disk.folders[f].entries : disk'.folders[f].entries = disk.folders[f].entries \ {e}
              /\ disk'.folders[f].there = disk.folders[f].there
           \/ disk'.folders[f] = Absent
           \/ disk' = disk
    BY <2>0 DEF Removes
  <2>2. /\ disk'.folders[f].entries \subseteq disk.folders[f].entries
        /\ ~disk'.folders[f].there => disk'.folders[f].entries = {}
    BY <1>0, <2>1 DEF Absent, NoDir
  <2>3. \A g \in Folders : /\ disk'.folders[g].entries \subseteq disk.folders[g].entries
                           /\ ~disk'.folders[g].there => disk'.folders[g].entries = {}
    BY <1>0, <2>1, <2>2 DEF OneFolder
  <2>4. faults' = 0 => faults = 0
    BY <2>1 DEF Types
  <2> QED
    BY <2>1, <2>3, <2>4, NoFiles
<1>15. ASSUME NEW c \in Cleaners, CleanupClear(c) PROVE Files'
  <2>0. PICK w \in Workspaces : Clears(c, w)
    BY <1>15, ClearDoes
  <2>1. UNCHANGED send /\ disk'.folders = disk.folders /\ faults' \in {faults, faults + 1}
    BY <2>0 DEF Clears
  <2>2. faults' = 0 => faults = 0
    BY <2>1 DEF Types
  <2> QED
    BY <1>0, <2>1, <2>2, NoFiles
<1>16. ASSUME NEW f \in Folders, Vanish(f) PROVE Files'
  <2>1. UNCHANGED <<send, faults>> /\ OneFolder(f) /\ disk'.folders[f] = Absent
    BY <1>16, VanishDoes
  <2>2. \A g \in Folders : /\ disk'.folders[g].entries \subseteq disk.folders[g].entries
                           /\ ~disk'.folders[g].there => disk'.folders[g].entries = {}
    BY <1>0, <2>1 DEF OneFolder, Absent, NoDir
  <2> QED
    BY <2>1, <2>2, NoFiles
<1>17. ASSUME Ended, UNCHANGED <<disk, faults>> PROVE Files'
  <2>1. ASSUME NEW f \in Folders, NEW s \in Sends, s \in disk'.folders[f].entries
        PROVE  s \in disk.folders[f].entries /\ send'[s].ws = send[s].ws /\ FileOK(f, s)'
    <3>1. s \in disk.folders[f].entries
      BY <1>17, <2>1
    <3>2. FileOK(f, s) /\ send[s].at # "new"
      BY <3>1 DEF Files, FileOK, Filing
    <3>3. CASE send[s].at = "done"
      <4>1. send'[s] = send[s]
        BY <1>17, <3>3, EndedDoes
      <4> QED
        BY <1>17, <3>1, <3>2, <4>1 DEF FileOK
    <3>4. CASE send[s].at # "done"
      <4>1. /\ send'[s].at = "done" /\ send'[s].ws = send[s].ws
            /\ send'[s].result = IF send[s].result \in Kept THEN send[s].result ELSE "lost"
        BY <1>17, <3>2, <3>4, EndedDoes
      <4>2. send'[s].result \notin Failed
        BY <4>1 DEF Kept, Failed
      <4> QED
        BY <3>1, <4>1, <4>2 DEF FileOK
    <3> QED
      BY <3>3, <3>4
  <2> QED
    BY <1>0, <1>17, <2>1, FilesKeep
<1>18. CASE Crash \/ CloseStep
  <2>1. ASSUME NEW w \in Workspaces, CloseLock(w) PROVE Files'
    BY <1>1, <2>1, CloseLockDoes DEF bounds
  <2> QED
    BY <1>1, <1>12, <1>17, <1>18, <2>1, CloseStopDoes DEF Crash, CloseStep, CloseGates, Exit, bounds
<1>19. ASSUME NEW c \in Cleaners, CleanupStep(c) PROVE Files'
  BY <1>1, <1>12, <1>13, <1>14, <1>15, <1>19, CleanupStopDoes DEF CleanupStep, CleanupAnnounce, bounds
<1>20. ASSUME NEW s \in Sends, SendStep(s) PROVE Files'
  BY <1>4, <1>6, <1>7, <1>8, <1>9, <1>10, <1>11, <1>20 DEF SendStep, Walk
<1> QED
  BY <1>1, <1>5, <1>16, <1>18, <1>19, <1>20
     DEF Next, Open, CloseBegin, Publish, ObservePublishedSnapshot, vars, memory, bounds

\* The sends whose file is in their folder.
Staging == {"reading", "staged", "forwarding"}

\* A step that changes no folder.
LEMMA PresentKeeps ==
    ASSUME Types, Phases, Present, vanished' = vanished, disk'.folders = disk.folders,
           vanished = 0 => \A s \in Sends :
               /\ send'[s].dir \in {None, send[s].dir} \/ Verified(send'[s].dir)
               /\ send'[s].at \in Staging => send[s].at \in Staging /\ send'[s].dir = send[s].dir,
           vanished = 0 => \A w \in Workspaces :
               gate'[w].directory \in {None, gate[w].directory} \/ Exists(gate'[w].directory)
    PROVE  Present'
BY DEF Present, Staging, Verified, Exists

\* A step that changes one folder.
LEMMA PresentMoves ==
    ASSUME Types, Phases, Present, vanished' = vanished, NEW f \in Folders, OneFolder(f),
           vanished = 0 => \A s \in Sends :
               /\ send'[s].dir # f => send'[s].dir \in {None, send[s].dir}
               /\ send'[s].dir = f => disk'.folders[f].there /\ Marker \in disk'.folders[f].entries
               /\ send'[s].at \in Staging =>
                     \/ send[s].at \in Staging /\ send'[s].dir = send[s].dir /\ send[s].dir # f
                     \/ send'[s].dir = f /\ s \in disk'.folders[f].entries,
           vanished = 0 => \A w \in Workspaces :
               /\ gate'[w].directory # f => gate'[w].directory \in {None, gate[w].directory}
               /\ gate'[w].directory = f => disk'.folders[f].there
    PROVE  Present'
<1> SUFFICES ASSUME vanished = 0
             PROVE  /\ \A s \in Sends :
                          /\ send'[s].dir # None => /\ disk'.folders[send'[s].dir].there
                                                    /\ Marker \in disk'.folders[send'[s].dir].entries
                          /\ send'[s].at \in Staging => s \in disk'.folders[send'[s].dir].entries
                    /\ \A w \in Workspaces : gate'[w].directory # None => disk'.folders[gate'[w].directory].there
  BY DEF Present, Staging, Verified, Exists
<1>1. \A s \in Sends : /\ send[s].dir \in Folders \cup {None}
                       /\ send[s].at \in Staging => send[s].dir \in Folders
  BY SendHasFolder DEF Types, Send, Staging, Holding
<1>2. \A w \in Workspaces : gate[w].directory \in Folders \cup {None}
  BY DEF Types, Gate
<1>3. \A g \in Folders : g # f => disk'.folders[g] = disk.folders[g]
  BY DEF OneFolder
<1>4. /\ \A s \in Sends : /\ send[s].dir # None => disk.folders[send[s].dir].there /\ Marker \in disk.folders[send[s].dir].entries
                          /\ send[s].at \in Staging => s \in disk.folders[send[s].dir].entries
      /\ \A w \in Workspaces : gate[w].directory # None => disk.folders[gate[w].directory].there
  BY DEF Present, Staging, Verified, Exists
<1>5. ASSUME NEW s \in Sends
      PROVE  /\ send'[s].dir # None => /\ disk'.folders[send'[s].dir].there
                                       /\ Marker \in disk'.folders[send'[s].dir].entries
             /\ send'[s].at \in Staging => s \in disk'.folders[send'[s].dir].entries
  <2>1. CASE send'[s].dir = f
    BY <2>1
  <2>2. CASE send'[s].dir # f
    BY <1>1, <1>3, <1>4, <2>2
  <2> QED
    BY <2>1, <2>2
<1>6. ASSUME NEW w \in Workspaces, gate'[w].directory # None PROVE disk'.folders[gate'[w].directory].there
  <2>1. CASE gate'[w].directory = f
    BY <2>1
  <2>2. CASE gate'[w].directory # f
    BY <1>2, <1>3, <1>4, <1>6, <2>2
  <2> QED
    BY <2>1, <2>2
<1> QED
  BY <1>5, <1>6

LEMMA PresentNext ==
    ASSUME Types, Phases, Setups, Down, Associations, Owners, Fresh, Bare, Cleanups, Present, [Next]_vars
    PROVE  Present'
<1>0. /\ None \notin Folders
      /\ \A s \in Sends : vanished = 0 /\ send[s].at \in Staging => s \in disk.folders[send[s].dir].entries
  BY NothingIsNone DEF Present, Staging
\* A step that leaves the folders and the sends that stage alone.
<1>1. ASSUME UNCHANGED <<vanished, disk>>,
             \A s \in Sends : /\ send'[s].dir \in {None, send[s].dir}
                              /\ send'[s].at \in Staging => send[s].at \in Staging /\ send'[s].dir = send[s].dir,
             \A w \in Workspaces : gate'[w].directory \in {None, gate[w].directory}
      PROVE  Present'
  BY <1>1, PresentKeeps
<1>2. ASSUME UNCHANGED <<vanished, disk, gate>>, NEW s \in Sends, Only(s), send'[s].dir \in {None, send[s].dir},
             send'[s].at \in Staging => send[s].at \in Staging /\ send'[s].dir = send[s].dir
      PROVE  Present'
  <2>1. \A r \in Sends : r # s => send'[r] = send[r]
    BY <1>2 DEF Only
  <2> QED
    BY <1>1, <1>2, <2>1
<1>3. CASE UNCHANGED <<vanished, disk, send, gate>>
  BY <1>1, <1>3
<1>4. ASSUME NEW s \in Sends, Walk(s) PROVE Present'
  <2>1. UNCHANGED <<vanished, disk, gate>> /\ Only(s) /\ send'[s].dir = send[s].dir
    BY <1>4, WalkDoes DEF Walks, memory, bounds
  <2>2. send'[s].at \in Staging => send[s].at \in Staging
    <3>1. CASE SendEnter(s)
      BY <3>1, EnterDoes DEF Staging
    <3>2. CASE SendValidate(s)
      BY <3>2, ValidateDoes DEF Staging
    <3>3. CASE SendRead(s)
      BY <3>3, ReadDoes DEF Staging
    <3>4. CASE SendForward(s)
      BY <3>4, ForwardDoes DEF Staging
    <3>5. ASSUME NEW result \in {"forwarded", "unknown", "occupied", "not_sent"}, SendResult(s, result)
          PROVE  send'[s].at \notin Staging
      BY <3>5, ResultDoes DEF Staging
    <3> QED
      BY <1>4, <3>1, <3>2, <3>3, <3>4, <3>5 DEF Walk
  <2> QED
    BY <1>2, <2>1, <2>2
<1>5. ASSUME NEW s \in Sends, NEW w \in Workspaces, SendBegin(s, w) PROVE Present'
  <2>1. /\ UNCHANGED <<vanished, disk>> /\ Only(s) /\ send'[s].dir = send[s].dir /\ send'[s].at = "gate"
        /\ OneGate(w) /\ gate'[w] = [gate[w] EXCEPT !.known = TRUE]
    BY <1>5, BeginDoes DEF bounds
  <2>2. gate'[w].directory = gate[w].directory
    BY <2>1, GateFields
  <2>3. \A v \in Workspaces : gate'[v].directory \in {None, gate[v].directory}
    BY <2>1, <2>2 DEF OneGate
  <2>4. \A r \in Sends : /\ send'[r].dir \in {None, send[r].dir}
                         /\ send'[r].at \in Staging => send[r].at \in Staging /\ send'[r].dir = send[r].dir
    BY <2>1 DEF Only, Staging
  <2> QED
    BY <1>1, <2>1, <2>3, <2>4
<1>6. ASSUME NEW s \in Sends, SendReuse(s) PROVE Present'
  <2>0. PICK w \in Workspaces, f \in Folders : Reuses(s, w, f)
    BY <1>6, ReuseDoes
  <2>1. /\ UNCHANGED <<vanished, disk>> /\ Verified(f) /\ Only(s) /\ send'[s].dir = f /\ send'[s].at = "ensured"
        /\ OneGate(w) /\ gate'[w] = [gate[w] EXCEPT !.directory = f]
    BY <2>0 DEF Reuses, bounds
  <2>2. gate'[w].directory = f /\ Exists(f)
    BY <2>1, GateFields DEF Verified
  <2>3. \A v \in Workspaces : gate'[v].directory \in {None, gate[v].directory} \/ Exists(gate'[v].directory)
    BY <2>1, <2>2 DEF OneGate
  <2>4. \A r \in Sends : /\ send'[r].dir \in {None, send[r].dir} \/ Verified(send'[r].dir)
                         /\ send'[r].at \in Staging => send[r].at \in Staging /\ send'[r].dir = send[r].dir
    BY <2>1 DEF Only, Staging
  <2> QED
    BY <2>1, <2>3, <2>4, PresentKeeps
<1>7. ASSUME NEW s \in Sends, NEW f \in Folders, SendCreate(s, f) PROVE Present'
  <2>0. PICK w \in Workspaces : Creates(s, f, w)
    BY <1>7, CreateDoes
  <2>1. /\ vanished' = vanished /\ Only(s) /\ OneGate(w) /\ OneFolder(f) /\ f \notin made /\ send'[s].at \notin Staging
        /\ \/ /\ send'[s].dir = f /\ gate'[w] = [gate[w] EXCEPT !.directory = None, !.setup = s]
              /\ disk'.folders[f] = [there |-> TRUE, entries |-> {Marker}]
           \/ /\ send'[s].dir = send[s].dir /\ gate'[w] = [gate[w] EXCEPT !.directory = None] /\ disk' = disk
    BY <2>0 DEF Creates, Staging
  <2>2. gate'[w].directory = None
    <3>1. CASE gate'[w] = [gate[w] EXCEPT !.directory = None, !.setup = s]
      BY <3>1, GateFields
    <3>2. CASE gate'[w] = [gate[w] EXCEPT !.directory = None]
      BY <3>2, GateFields
    <3> QED
      BY <2>1, <3>1, <3>2
  <2>3. \A v \in Workspaces : gate'[v].directory \in {None, gate[v].directory}
    BY <2>1, <2>2 DEF OneGate
  <2>4. CASE /\ send'[s].dir = f /\ disk'.folders[f] = [there |-> TRUE, entries |-> {Marker}]
    <3>1. \A v \in Workspaces : gate[v].directory # f
      BY <1>0, <2>1 DEF Associations, Owners, Owns
    <3>2. \A r \in Sends : send[r].dir # f
      BY <1>0, <2>1, HolderOwns
    <3>3. disk'.folders[f].there /\ Marker \in disk'.folders[f].entries
      BY <2>4
    <3>4. \A r \in Sends : /\ send'[r].dir # f => send'[r].dir \in {None, send[r].dir}
                           /\ send'[r].at \in Staging => send[r].at \in Staging /\ send'[r].dir = send[r].dir /\ send[r].dir # f
      BY <2>1, <2>4, <3>2 DEF Only
    <3> QED
      BY <2>1, <2>3, <3>1, <3>3, <3>4, PresentMoves
  <2>5. CASE send'[s].dir = send[s].dir /\ disk' = disk
    <3>1. \A r \in Sends : /\ send'[r].dir \in {None, send[r].dir}
                           /\ send'[r].at \in Staging => send[r].at \in Staging /\ send'[r].dir = send[r].dir
      BY <2>1, <2>5 DEF Only
    <3> QED
      BY <1>1, <2>1, <2>3, <2>5, <3>1
  <2> QED
    BY <2>1, <2>4, <2>5
<1>8. ASSUME NEW s \in Sends, SendRecord(s) PROVE Present'
  <2>0. PICK w \in Workspaces, f \in Folders : Records(s, w, f)
    BY <1>8, RecordDoes
  <2>1. /\ vanished' = vanished /\ Only(s) /\ OneGate(w) /\ OneFolder(f) /\ send[s].at = "recording" /\ f = send[s].dir
        /\ send'[s].at \notin Staging
        /\ \/ /\ send'[s].dir = f /\ gate'[w] = [gate[w] EXCEPT !.association = f, !.directory = f, !.setup = None]
              /\ disk'.folders[f] = disk.folders[f]
           \/ send'[s].dir = None /\ gate'[w] = [gate[w] EXCEPT !.setup = None]
    BY <2>0 DEF Records, Staging
  <2>2. /\ \A v \in Workspaces : gate[v].directory # f
        /\ \A r \in Sends : r # s => send[r].dir # f
    BY <1>0, <2>1 DEF Fresh, Associations
  <2>3. \A r \in Sends : /\ send'[r].dir # f => send'[r].dir \in {None, send[r].dir}
                         /\ send'[r].dir = f => r = s
                         /\ send'[r].at \in Staging => send[r].at \in Staging /\ send'[r].dir = send[r].dir /\ send[r].dir # f
    BY <2>1, <2>2 DEF Only
  <2>4. CASE /\ send'[s].dir = f /\ disk'.folders[f] = disk.folders[f]
             /\ gate'[w] = [gate[w] EXCEPT !.association = f, !.directory = f, !.setup = None]
    <3>1. gate'[w].directory = f
      BY <2>4, GateFields
    <3>2. \A v \in Workspaces : gate'[v].directory # f => gate'[v].directory = gate[v].directory
      BY <2>1, <3>1 DEF OneGate
    <3>3. vanished = 0 => disk'.folders[f].there /\ Marker \in disk'.folders[f].entries
      BY <1>0, <2>1, <2>4 DEF Present, Verified, Exists
    <3> QED
      BY <2>1, <2>3, <3>2, <3>3, PresentMoves
  <2>5. CASE send'[s].dir = None /\ gate'[w] = [gate[w] EXCEPT !.setup = None]
    <3>1. gate'[w].directory = gate[w].directory
      BY <2>5, GateFields
    <3>2. \A v \in Workspaces : gate'[v].directory = gate[v].directory /\ gate'[v].directory # f
      BY <2>1, <2>2, <3>1 DEF OneGate
    <3>3. \A r \in Sends : send'[r].dir # f
      BY <1>0, <2>3, <2>5
    <3> QED
      BY <2>1, <2>3, <3>2, <3>3, PresentMoves
  <2> QED
    BY <2>1, <2>4, <2>5
<1>9. ASSUME NEW s \in Sends, SendReserve(s) PROVE Present'
  <2>0. PICK f \in Folders : Reserves(s, f)
    BY <1>9, ReserveDoes
  <2>1. /\ UNCHANGED <<gate, vanished>> /\ Only(s) /\ f = send[s].dir /\ send'[s].dir = f /\ OneFolder(f)
        /\ \/ /\ Verified(f) /\ send'[s].at = "reading"
              /\ disk'.folders[f] = [disk.folders[f] EXCEPT !.entries = @ \cup {s}]
           \/ send'[s].at = "release" /\ disk'.folders[f] = disk.folders[f]
    BY <2>0 DEF Reserves, memory, bounds
  <2>2. /\ disk'.folders[f].there = disk.folders[f].there
        /\ disk.folders[f].entries \subseteq disk'.folders[f].entries
        /\ send'[s].at \in Staging => s \in disk'.folders[f].entries
    <3>1. CASE disk'.folders[f] = [disk.folders[f] EXCEPT !.entries = @ \cup {s}]
      <4> DEFINE d == disk.folders[f]
      <4>1. d \in Folder /\ disk'.folders[f] = [d EXCEPT !.entries = @ \cup {s}]
        BY <3>1 DEF Types
      <4>2. [d EXCEPT !.entries = @ \cup {s}].there = d.there /\ [d EXCEPT !.entries = @ \cup {s}].entries = d.entries \cup {s}
        <5> HIDE DEF d
        <5> QED
          BY <4>1 DEF Folder
      <4> QED
        BY <4>1, <4>2
    <3>2. CASE send'[s].at = "release" /\ disk'.folders[f] = disk.folders[f]
      BY <3>2 DEF Staging
    <3> QED
      BY <2>1, <3>1, <3>2
  <2>3. vanished = 0 => disk.folders[f].there /\ Marker \in disk.folders[f].entries
    BY <1>0, <2>1 DEF Present, Verified, Exists
  <2>4. \A r \in Sends : r # s => send'[r] = send[r]
    BY <2>1 DEF Only
  <2> QED
    BY <1>0, <2>1, <2>2, <2>3, <2>4, PresentMoves
<1>10. ASSUME NEW s \in Sends, SendRollback(s) PROVE Present'
  <2>0. PICK f \in Folders : RollsBack(s, f)
    BY <1>10, RollbackDoes
  <2>1. /\ UNCHANGED <<gate, vanished>> /\ Only(s) /\ f = send[s].dir /\ send'[s].dir = f /\ OneFolder(f)
        /\ send'[s].at \notin Staging /\ disk'.folders[f].there = disk.folders[f].there
        /\ disk'.folders[f].entries \in {disk.folders[f].entries, disk.folders[f].entries \ {s}}
    BY <2>0 DEF RollsBack, memory, Staging
  <2>2. \A e : e \in disk.folders[f].entries /\ e # s => e \in disk'.folders[f].entries
    BY <2>1
  <2>3. Marker # s
    BY MarkerIsNoFile
  <2>4. vanished = 0 => disk.folders[f].there /\ Marker \in disk.folders[f].entries
    BY <1>0, <2>1 DEF Present, Verified, Exists
  <2>5. \A r \in Sends : r # s => send'[r] = send[r]
    BY <2>1 DEF Only
  <2> QED
    BY <1>0, <2>1, <2>2, <2>3, <2>4, <2>5, PresentMoves
<1>11. ASSUME NEW s \in Sends, SendRelease(s) PROVE Present'
  <2>0. PICK w \in Workspaces, f \in Folders : Releases(s, w, f)
    BY <1>11, ReleaseDoes
  <2>1. UNCHANGED <<vanished, disk, gate>> /\ Only(s) /\ send'[s].dir = None /\ send'[s].at \notin Staging
    BY <2>0 DEF Releases, bounds, Staging
  <2> QED
    BY <1>2, <2>1
<1>12. ASSUME NEW w \in Workspaces, Stops(w) PROVE Present'
  <2>1. /\ UNCHANGED <<vanished, disk>> /\ \A v \in Workspaces : gate'[v].directory = gate[v].directory
        /\ \A s \in Sends : send'[s].at = send[s].at /\ send'[s].dir = send[s].dir
    BY <1>12 DEF Stops, OneGate, bounds
  <2> QED
    BY <1>1, <2>1
<1>13. ASSUME NEW c \in Cleaners, CleanupOpen(c) PROVE Present'
  <2>0. PICK w \in Workspaces : Opens(c, w)
    BY <1>13, CleanupOpenDoes
  <2>1. /\ UNCHANGED <<vanished, send, disk>> /\ OneGate(w)
        /\ \/ Verified(records[w]) /\ gate'[w].directory = records[w]
           \/ gate'[w].directory = gate[w].directory
    BY <2>0 DEF Opens
  <2>2. \A v \in Workspaces : gate'[v].directory \in {None, gate[v].directory} \/ Exists(gate'[v].directory)
    BY <2>1 DEF OneGate, Verified
  <2> QED
    BY <2>1, <2>2, PresentKeeps
<1>14. ASSUME NEW c \in Cleaners, CleanupRemove(c) PROVE Present'
  <2>0. PICK w \in Workspaces, f \in Folders : Removes(c, w, f)
    BY <1>14, RemoveDoes
  <2>1. /\ UNCHANGED <<vanished, send>> /\ w = cleaner[c].ws /\ f = gate[w].directory /\ cleaner[c].at = "removing"
        /\ OneGate(w) /\ OneFolder(f)
        /\ \/ disk'.folders[f].there = disk.folders[f].there /\ gate' = gate
           \/ gate'[w].directory = None
           \/ disk' = disk /\ gate'[w].directory = f
    BY <2>0 DEF Removes
  <2>2. Owns(w, f) /\ Inside(w) = {}
    BY <1>0, <2>1 DEF Cleanups, Associations, Owns
  <2>3. \A s \in Sends : send[s].dir # f
    BY <2>2, NobodyUses
  <2>4. CASE disk'.folders[f].there = disk.folders[f].there /\ gate' = gate
    <3>1. vanished = 0 => disk.folders[f].there
      BY <1>0, <2>1 DEF Present, Exists
    <3> QED
      BY <2>1, <2>3, <2>4, <3>1, PresentMoves
  <2>5. CASE gate'[w].directory = None
    <3>1. \A v \in Workspaces : gate'[v].directory # f /\ gate'[v].directory \in {None, gate[v].directory}
      BY <1>0, <2>1, <2>2, <2>5, OneGateOpens DEF OneGate
    <3> QED
      BY <2>1, <2>3, <3>1, PresentMoves
  <2>6. CASE disk' = disk /\ gate'[w].directory = f
    <3>1. \A v \in Workspaces : gate'[v].directory = gate[v].directory
      BY <2>1, <2>6 DEF OneGate
    <3> QED
      BY <1>1, <2>1, <2>6, <3>1
  <2> QED
    BY <2>1, <2>4, <2>5, <2>6
<1>15. ASSUME NEW c \in Cleaners, CleanupClear(c) PROVE Present'
  <2>0. PICK w \in Workspaces : Clears(c, w)
    BY <1>15, ClearDoes
  <2>1. UNCHANGED <<vanished, send>> /\ disk'.folders = disk.folders /\ OneGate(w) /\ gate'[w].directory = gate[w].directory
    BY <2>0 DEF Clears
  <2>2. \A v \in Workspaces : gate'[v].directory = gate[v].directory
    BY <2>1 DEF OneGate
  <2> QED
    BY <2>1, <2>2, PresentKeeps
<1>16. ASSUME NEW w \in Workspaces, CloseLock(w) PROVE Present'
  <2>1. /\ UNCHANGED <<vanished, send, disk>> /\ OneGate(w) /\ gate'[w] = [gate[w] EXCEPT !.directory = None]
    BY <1>16, CloseLockDoes DEF bounds
  <2>2. gate'[w].directory = None
    BY <2>1, GateFields
  <2>3. \A v \in Workspaces : gate'[v].directory \in {None, gate[v].directory}
    BY <2>1, <2>2 DEF OneGate
  <2> QED
    BY <1>1, <2>1, <2>3
<1>17. ASSUME Ended, UNCHANGED <<vanished, disk>> PROVE Present'
  <2>1. \A w \in Workspaces : gate'[w].directory = None
    BY <1>17, EndedDoes, NewGateFields
  <2>2. ASSUME NEW s \in Sends
        PROVE  /\ send'[s].dir \in {None, send[s].dir}
               /\ send'[s].at \in Staging => send[s].at \in Staging /\ send'[s].dir = send[s].dir
    <3>1. CASE send[s].at \in {"new", "done"}
      BY <1>17, <3>1, EndedDoes
    <3>2. CASE send[s].at \notin {"new", "done"}
      BY <1>17, <3>2, EndedDoes DEF Staging
    <3> QED
      BY <3>1, <3>2
  <2> QED
    BY <1>1, <1>17, <2>1, <2>2
<1>18. CASE Open
  <2>1. /\ UNCHANGED <<vanished, send, disk>> /\ \A w \in Workspaces : gate'[w] = NewGate(disk.records[w])
    BY <1>18, OpenDoes DEF bounds
  <2>2. ASSUME NEW w \in Workspaces PROVE gate'[w].directory = None
    <3> DEFINE f == disk.records[w]
    <3>1. gate'[w] = NewGate(f)
      BY <2>1
    <3> HIDE DEF f
    <3> QED
      BY <3>1, NewGateFields
  <2> QED
    BY <1>1, <2>1, <2>2
<1>19. ASSUME NEW f \in Folders, Vanish(f) PROVE Present'
  <2>1. vanished' # 0
    BY <1>19, VanishDoes
  <2> QED
    BY <2>1 DEF Present
<1>20. ASSUME NEW c \in Cleaners, CleanupStep(c) PROVE Present'
  BY <1>3, <1>12, <1>13, <1>14, <1>15, <1>20, CleanupStopDoes DEF CleanupStep, CleanupAnnounce, bounds
<1>21. CASE Crash \/ CloseStep
  BY <1>3, <1>12, <1>16, <1>17, <1>21, CloseStopDoes DEF Crash, CloseStep, CloseGates, Exit, bounds
<1>22. ASSUME NEW s \in Sends, SendStep(s) PROVE Present'
  BY <1>4, <1>6, <1>7, <1>8, <1>9, <1>10, <1>11, <1>22 DEF SendStep, Walk
<1> QED
  BY <1>3, <1>5, <1>18, <1>19, <1>20, <1>21, <1>22
     DEF Next, CloseBegin, Publish, ObservePublishedSnapshot, vars, memory, bounds

-----------------------------------------------------------------------------
(***************************************************************************)
(* What no step does to a send, a folder, a workspace's life or a record,  *)
(* for the properties of workspaces whose IDs do not return.               *)
(***************************************************************************)

Late == {"forwarding", "rollback", "release"}
Moves(s) ==
    /\ send[s].result = "lost" => send'[s].result = "lost"
    /\ send'[s].ws = send[s].ws \/ (send[s].at = "new" /\ send'[s].at = "gate" /\ send'[s].ws \in home)
    /\ send'[s].at \notin {"new", "done"} =>
         (send[s].at \notin {"new", "done"} /\ send'[s].ws = send[s].ws) \/ send'[s].ws \in home
    /\ send[s].at \in Outside => send'[s].at \in Outside \/ send'[s].ws \in home
    /\ send'[s].at = "forwarding" => send[s].at = "forwarding" \/ send'[s].ws \in home
    /\ send'[s].result \in Kept => send[s].result \in Kept \/ send[s].at = "forwarding"
    /\ send'[s].at \notin {"new", "gate", "done"} =>
         /\ send'[s].ws = send[s].ws
         /\ \/ /\ send[s].at \notin {"new", "gate", "done"}
               /\ send[s].stopped => send'[s].stopped
               /\ send[s].at \in Late => send'[s].at \in Late
            \/ send[s].at = "gate" /\ gate[send[s].ws].open
    /\ send[s].at = "recording" =>
         \/ send'[s].at = "recording" /\ send'[s].dir = send[s].dir
         \/ send'[s].result = "lost"
         \/ SendRecord(s)

LEMMA Stays ==
    ASSUME NEW s \in Sends, send'[s].at = send[s].at, send'[s].ws = send[s].ws, send'[s].dir = send[s].dir,
           send'[s].result = send[s].result, send[s].stopped => send'[s].stopped
    PROVE  Moves(s)
BY DEF Moves

LEMMA OneMoves == ASSUME NEW s \in Sends, Only(s), Moves(s) PROVE \A r \in Sends : Moves(r)
<1> SUFFICES ASSUME NEW r \in Sends, r # s PROVE Moves(r)
  OBVIOUS
<1>1. send'[r] = send[r]
  BY DEF Only
<1> QED
  BY <1>1, Stays

LEMMA SendsMove ==
    ASSUME Types, Phases, Cleanups, [Next]_vars
    PROVE  \A s \in Sends : Moves(s)
<1>0. \A s \in Sends : PhaseOK(send[s])
  BY DEF Phases
<1>1. CASE UNCHANGED send
  BY <1>1, Stays
<1>3. ASSUME NEW s \in Sends, SendEnter(s) PROVE \A r \in Sends : Moves(r)
  <2>1. /\ Only(s) /\ send'[s].ws = send[s].ws /\ send[s].at = "gate" /\ send[s].result = "none"
        /\ \/ gate[send[s].ws].open /\ send'[s].at = "entered" /\ send'[s].result = send[s].result
           \/ send'[s].at = "done" /\ send'[s].result = "not_sent"
    BY <1>0, <1>3, EnterDoes DEF Walks, PhaseOK, Answering
  <2>2. Moves(s)
    BY <2>1 DEF Moves, Outside, Kept
  <2> QED
    BY <2>1, <2>2, OneMoves
<1>4. ASSUME NEW s \in Sends, SendValidate(s) PROVE \A r \in Sends : Moves(r)
  <2>1. /\ Only(s) /\ send'[s].ws = send[s].ws /\ send[s].at = "entered" /\ send[s].result = "none"
        /\ send'[s].stopped = send[s].stopped
        /\ \/ send'[s].at = "validated" /\ send'[s].result = send[s].result /\ send[s].ws \in home
           \/ send'[s].at = "done" /\ send'[s].result = "not_sent"
    BY <1>0, <1>4, ValidateDoes DEF Walks, PhaseOK, Answering
  <2>2. Moves(s)
    BY <2>1 DEF Moves, Outside, Kept, Late
  <2> QED
    BY <2>1, <2>2, OneMoves
<1>5. ASSUME NEW s \in Sends, SendRead(s) PROVE \A r \in Sends : Moves(r)
  <2>1. /\ Only(s) /\ send'[s].ws = send[s].ws /\ send[s].at = "reading" /\ send[s].result = "none"
        /\ send'[s].stopped = send[s].stopped
        /\ \/ send'[s].at = "staged" /\ send'[s].result = send[s].result
           \/ send'[s].at = "rollback" /\ send'[s].result = "not_sent"
    BY <1>0, <1>5, ReadDoes DEF Walks, PhaseOK, Answering
  <2>2. Moves(s)
    BY <2>1 DEF Moves, Outside, Kept, Late
  <2> QED
    BY <2>1, <2>2, OneMoves
<1>6. ASSUME NEW s \in Sends, SendForward(s) PROVE \A r \in Sends : Moves(r)
  <2>1. /\ Only(s) /\ send'[s].ws = send[s].ws /\ send[s].at = "staged" /\ send[s].result = "none"
        /\ send'[s].stopped = send[s].stopped
        /\ \/ send'[s].at = "forwarding" /\ send'[s].result = send[s].result /\ send[s].ws \in home
           \/ send'[s].at = "rollback" /\ send'[s].result = "not_sent"
    BY <1>0, <1>6, ForwardDoes DEF Walks, PhaseOK, Answering
  <2>2. Moves(s)
    BY <2>1 DEF Moves, Outside, Kept, Late
  <2> QED
    BY <2>1, <2>2, OneMoves
<1>7. ASSUME NEW s \in Sends, NEW result \in {"forwarded", "unknown", "occupied", "not_sent"}, SendResult(s, result)
      PROVE  \A r \in Sends : Moves(r)
  <2>1. /\ Only(s) /\ send'[s].ws = send[s].ws /\ send[s].at = "forwarding" /\ send[s].result = "none"
        /\ send'[s].stopped = send[s].stopped /\ send'[s].at \in {"rollback", "release"}
    BY <1>0, <1>7, ResultDoes DEF Walks, PhaseOK, Answering
  <2>2. Moves(s)
    BY <2>1 DEF Moves, Outside, Late
  <2> QED
    BY <2>1, <2>2, OneMoves
<1>8. ASSUME NEW s \in Sends, NEW w \in Workspaces, SendBegin(s, w) PROVE \A r \in Sends : Moves(r)
  <2>1. /\ Only(s) /\ send[s].at = "new" /\ w \in home /\ send'[s].at = "gate" /\ send'[s].ws = w
        /\ send'[s].result = send[s].result
    BY <1>8, BeginDoes
  <2>2. Moves(s)
    BY <2>1 DEF Moves, Outside, Kept
  <2> QED
    BY <2>1, <2>2, OneMoves
<1>9. ASSUME NEW s \in Sends, SendReuse(s) PROVE \A r \in Sends : Moves(r)
  <2>0. PICK w \in Workspaces, f \in Folders : Reuses(s, w, f)
    BY <1>9, ReuseDoes
  <2>1. /\ Only(s) /\ send'[s].ws = send[s].ws /\ send[s].at = "validated" /\ send'[s].at = "ensured"
        /\ send'[s].result = send[s].result /\ send'[s].stopped = send[s].stopped
    BY <2>0 DEF Reuses
  <2>2. Moves(s)
    BY <2>1 DEF Moves, Outside, Kept, Late
  <2> QED
    BY <2>1, <2>2, OneMoves
<1>10. ASSUME NEW s \in Sends, NEW f \in Folders, SendCreate(s, f) PROVE \A r \in Sends : Moves(r)
  <2>0. PICK w \in Workspaces : Creates(s, f, w)
    BY <1>10, CreateDoes
  <2>1. /\ Only(s) /\ send'[s].ws = send[s].ws /\ send[s].at = "validated" /\ send'[s].stopped = send[s].stopped
        /\ \/ send'[s].at = "recording" /\ send'[s].result = send[s].result
           \/ send'[s].at = "done" /\ send'[s].result = "not_sent"
    BY <2>0 DEF Creates
  <2>2. send[s].result = "none"
    BY <1>0, <2>1 DEF PhaseOK, Answering
  <2>3. Moves(s)
    BY <2>1, <2>2 DEF Moves, Outside, Kept, Late
  <2> QED
    BY <2>1, <2>3, OneMoves
<1>11. ASSUME NEW s \in Sends, SendRecord(s) PROVE \A r \in Sends : Moves(r)
  <2>0. PICK w \in Workspaces, f \in Folders : Records(s, w, f)
    BY <1>11, RecordDoes
  <2>1. /\ Only(s) /\ send'[s].ws = send[s].ws /\ send[s].at = "recording" /\ send'[s].stopped = send[s].stopped
        /\ \/ send'[s].at = "ensured" /\ send'[s].result = send[s].result
           \/ send'[s].at = "done" /\ send'[s].result = "not_sent"
    BY <2>0 DEF Records
  <2>2. send[s].result = "none"
    BY <1>0, <2>1 DEF PhaseOK, Answering
  <2>3. Moves(s)
    BY <1>11, <2>1, <2>2 DEF Moves, Outside, Kept, Late
  <2> QED
    BY <2>1, <2>3, OneMoves
<1>12. ASSUME NEW s \in Sends, SendReserve(s) PROVE \A r \in Sends : Moves(r)
  <2>0. PICK f \in Folders : Reserves(s, f)
    BY <1>12, ReserveDoes
  <2>1. /\ Only(s) /\ send'[s].ws = send[s].ws /\ send[s].at = "ensured" /\ send'[s].stopped = send[s].stopped
        /\ \/ send'[s].at = "reading" /\ send'[s].result = send[s].result
           \/ send'[s].at = "release" /\ send'[s].result = "not_sent"
    BY <2>0 DEF Reserves
  <2>2. send[s].result = "none"
    BY <1>0, <2>1 DEF PhaseOK, Answering
  <2>3. Moves(s)
    BY <2>1, <2>2 DEF Moves, Outside, Kept, Late
  <2> QED
    BY <2>1, <2>3, OneMoves
<1>13. ASSUME NEW s \in Sends, SendRollback(s) PROVE \A r \in Sends : Moves(r)
  <2>0. PICK f \in Folders : RollsBack(s, f)
    BY <1>13, RollbackDoes
  <2>1. /\ Only(s) /\ send'[s].ws = send[s].ws /\ send[s].at = "rollback" /\ send'[s].stopped = send[s].stopped
        /\ send'[s].at = "release" /\ send'[s].result = send[s].result
    BY <2>0 DEF RollsBack
  <2>2. Moves(s)
    BY <2>1 DEF Moves, Outside, Late
  <2> QED
    BY <2>1, <2>2, OneMoves
<1>14. ASSUME NEW s \in Sends, SendRelease(s) PROVE \A r \in Sends : Moves(r)
  <2>0. PICK w \in Workspaces, f \in Folders : Releases(s, w, f)
    BY <1>14, ReleaseDoes
  <2>1. /\ Only(s) /\ send'[s].ws = send[s].ws /\ send[s].at = "release"
        /\ send'[s].at = "done" /\ send'[s].result = send[s].result
    BY <2>0 DEF Releases
  <2>2. Moves(s)
    BY <2>1 DEF Moves, Outside
  <2> QED
    BY <2>1, <2>2, OneMoves
<1>15. ASSUME NEW w \in Workspaces, Stops(w) PROVE \A r \in Sends : Moves(r)
  <2>1. \A s \in Sends : /\ send'[s].at = send[s].at /\ send'[s].ws = send[s].ws /\ send'[s].dir = send[s].dir
                         /\ send'[s].result = send[s].result /\ (send[s].stopped => send'[s].stopped)
    BY <1>15 DEF Stops
  <2> QED
    BY <2>1, Stays
<1>16. ASSUME Ended PROVE \A r \in Sends : Moves(r)
  <2> SUFFICES ASSUME NEW s \in Sends PROVE Moves(s)
    OBVIOUS
  <2>1. CASE send[s].at \in {"new", "done"}
    <3>1. send'[s] = send[s]
      BY <1>16, <2>1, EndedDoes
    <3> QED
      BY <3>1, Stays
  <2>2. CASE send[s].at \notin {"new", "done"}
    <3>1. /\ send'[s].at = "done" /\ send'[s].ws = send[s].ws
          /\ send'[s].result = IF send[s].result \in Kept THEN send[s].result ELSE "lost"
      BY <1>16, <2>2, EndedDoes
    <3>2. send[s].at = "recording" => send'[s].result = "lost"
      BY <1>0, <3>1 DEF PhaseOK, Answering, Kept
    <3> QED
      BY <3>1, <3>2 DEF Moves, Outside, Kept
  <2> QED
    BY <2>1, <2>2
<1>17. ASSUME NEW s \in Sends, SendStep(s) PROVE \A r \in Sends : Moves(r)
  BY <1>3, <1>4, <1>5, <1>6, <1>7, <1>9, <1>10, <1>11, <1>12, <1>13, <1>14, <1>17 DEF SendStep
<1>18. ASSUME NEW c \in Cleaners, CleanupStep(c) PROVE \A r \in Sends : Moves(r)
  BY <1>1, <1>15, <1>18, CleanupStopDoes DEF CleanupStep, CleanupAnnounce, CleanupOpen, CleanupRemove, CleanupClear
<1>19. ASSUME CloseStep PROVE \A r \in Sends : Moves(r)
  BY <1>1, <1>15, <1>16, <1>19, CloseStopDoes DEF CloseStep, CloseGates, CloseLock, Exit
<1> QED
  BY <1>1, <1>8, <1>16, <1>17, <1>18, <1>19
     DEF Next, Open, Crash, CloseBegin, Vanish, Publish, ObservePublishedSnapshot, vars

\* What may happen to a folder: something else removes it, it is recorded, a
\* cleanup removes it, it is new, or its sends' files come and go.
FolderMoves(f) ==
    \/ vanished' # 0 /\ disk'.folders[f] = Absent
    \/ \E s \in Sends : SendRecord(s) /\ send[s].dir = f /\ disk'.folders[f] \in {disk.folders[f], Absent}
    \/ \E c \in Cleaners : /\ CleanupRemove(c) /\ f = gate[cleaner[c].ws].directory
                           /\ disk'.folders[f].entries \subseteq disk.folders[f].entries
                           /\ disk'.folders[f].there => disk.folders[f].there
    \/ \E s \in Sends : /\ SendCreate(s, f) /\ f \notin made /\ disk'.folders[f] = [there |-> TRUE, entries |-> {Marker}]
                        /\ send'[s].at = "recording" /\ send'[s].dir = f
    \/ /\ disk'.folders[f].there = disk.folders[f].there
       /\ Marker \in disk'.folders[f].entries <=> Marker \in disk.folders[f].entries
       /\ \A s \in Sends : s \in disk.folders[f].entries /\ send[s].at # "rollback" => s \in disk'.folders[f].entries
       /\ \A s \in Sends : s \in disk'.folders[f].entries =>
             s \in disk.folders[f].entries \/ (send[s].dir = f /\ send[s].at = "ensured")

LEMMA FolderStays == ASSUME NEW f \in Folders, disk'.folders[f] = disk.folders[f] PROVE FolderMoves(f)
BY DEF FolderMoves

LEMMA OneFolderMoves ==
    ASSUME NEW f \in Folders, OneFolder(f), FolderMoves(f)
    PROVE  \A g \in Folders : FolderMoves(g)
<1> SUFFICES ASSUME NEW g \in Folders, g # f PROVE FolderMoves(g)
  OBVIOUS
<1>1. disk'.folders[g] = disk.folders[g]
  BY DEF OneFolder
<1> QED
  BY <1>1, FolderStays

LEMMA FoldersMove ==
    ASSUME Types, Phases, Cleanups, Associations, [Next]_vars
    PROVE  \A f \in Folders : FolderMoves(f)
<1>1. CASE UNCHANGED disk
  BY <1>1, FolderStays
<1>2. ASSUME NEW s \in Sends, NEW f \in Folders, SendCreate(s, f) PROVE \A g \in Folders : FolderMoves(g)
  <2>0. PICK w \in Workspaces : Creates(s, f, w)
    BY <1>2, CreateDoes
  <2>1. /\ OneFolder(f) /\ f \notin made
        /\ \/ /\ disk'.folders[f] = [there |-> TRUE, entries |-> {Marker}]
              /\ send'[s].at = "recording" /\ send'[s].dir = f
           \/ disk' = disk
    BY <2>0 DEF Creates
  <2>2. FolderMoves(f)
    <3>1. CASE disk' = disk
      BY <3>1, FolderStays
    <3>2. CASE disk'.folders[f] = [there |-> TRUE, entries |-> {Marker}] /\ send'[s].at = "recording" /\ send'[s].dir = f
      BY <1>2, <2>1, <3>2 DEF FolderMoves
    <3> QED
      BY <2>1, <3>1, <3>2
  <2> QED
    BY <2>1, <2>2, OneFolderMoves
<1>3. ASSUME NEW s \in Sends, SendRecord(s) PROVE \A g \in Folders : FolderMoves(g)
  <2>0. PICK w \in Workspaces, f \in Folders : Records(s, w, f)
    BY <1>3, RecordDoes
  <2>1. OneFolder(f) /\ f = send[s].dir /\ disk'.folders[f] \in {disk.folders[f], Absent}
    BY <2>0 DEF Records
  <2>2. FolderMoves(f)
    BY <1>3, <2>1 DEF FolderMoves
  <2> QED
    BY <2>1, <2>2, OneFolderMoves
<1>4. ASSUME NEW s \in Sends, SendReserve(s) PROVE \A g \in Folders : FolderMoves(g)
  <2>0. PICK f \in Folders : Reserves(s, f)
    BY <1>4, ReserveDoes
  <2>1. /\ f = send[s].dir /\ send[s].at = "ensured" /\ OneFolder(f)
        /\ \/ disk'.folders[f] = [disk.folders[f] EXCEPT !.entries = @ \cup {s}]
           \/ disk'.folders[f] = disk.folders[f]
    BY <2>0 DEF Reserves
  <2>2. FolderMoves(f)
    <3>1. CASE disk'.folders[f] = [disk.folders[f] EXCEPT !.entries = @ \cup {s}]
      <4> DEFINE d == disk.folders[f]
      <4>1. d \in Folder /\ disk'.folders[f] = [d EXCEPT !.entries = @ \cup {s}]
        BY <3>1 DEF Types
      <4>2. [d EXCEPT !.entries = @ \cup {s}].there = d.there /\ [d EXCEPT !.entries = @ \cup {s}].entries = d.entries \cup {s}
        <5> HIDE DEF d
        <5> QED
          BY <4>1 DEF Folder
      <4>3. /\ disk'.folders[f].there = disk.folders[f].there
            /\ disk'.folders[f].entries = disk.folders[f].entries \cup {s}
        BY <4>1, <4>2
      <4> HIDE DEF d
      <4> QED
        BY <2>1, <4>3, MarkerIsNoFile DEF FolderMoves
    <3>2. CASE disk'.folders[f] = disk.folders[f]
      BY <3>2, FolderStays
    <3> QED
      BY <2>1, <3>1, <3>2
  <2> QED
    BY <2>1, <2>2, OneFolderMoves
<1>5. ASSUME NEW s \in Sends, SendRollback(s) PROVE \A g \in Folders : FolderMoves(g)
  <2>0. PICK f \in Folders : RollsBack(s, f)
    BY <1>5, RollbackDoes
  <2>1. /\ send[s].at = "rollback" /\ OneFolder(f) /\ disk'.folders[f].there = disk.folders[f].there
        /\ disk'.folders[f].entries \in {disk.folders[f].entries, disk.folders[f].entries \ {s}}
    BY <2>0 DEF RollsBack
  <2>2. FolderMoves(f)
    BY <2>1, MarkerIsNoFile DEF FolderMoves
  <2> QED
    BY <2>1, <2>2, OneFolderMoves
<1>6. ASSUME NEW c \in Cleaners, CleanupRemove(c) PROVE \A g \in Folders : FolderMoves(g)
  <2>0. PICK w \in Workspaces, f \in Folders : Removes(c, w, f)
    BY <1>6, RemoveDoes
  <2>1. /\ w = cleaner[c].ws /\ f = gate[w].directory /\ OneFolder(f)
        /\ \/ /\ \E e \in disk.folders[f].entries : disk'.folders[f].entries = disk.folders[f].entries \ {e}
              /\ disk'.folders[f].there = disk.folders[f].there
           \/ disk'.folders[f] = Absent
           \/ disk' = disk
    BY <2>0 DEF Removes
  <2>2. /\ disk'.folders[f].entries \subseteq disk.folders[f].entries
        /\ disk'.folders[f].there => disk.folders[f].there
    <3>1. CASE /\ \E e \in disk.folders[f].entries : disk'.folders[f].entries = disk.folders[f].entries \ {e}
               /\ disk'.folders[f].there = disk.folders[f].there
      BY <3>1
    <3>2. CASE disk'.folders[f] = Absent
      <4>1. disk'.folders[f].entries = {} /\ disk'.folders[f].there = FALSE
        BY <3>2 DEF Absent, NoDir
      <4> QED
        BY <4>1
    <3>3. CASE disk' = disk
      BY <3>3
    <3> QED
      BY <2>1, <3>1, <3>2, <3>3
  <2>3. FolderMoves(f)
    BY <1>6, <2>1, <2>2 DEF FolderMoves
  <2> QED
    BY <2>1, <2>3, OneFolderMoves
<1>7. ASSUME NEW c \in Cleaners, CleanupClear(c) PROVE \A g \in Folders : FolderMoves(g)
  <2>0. PICK w \in Workspaces : Clears(c, w)
    BY <1>7, ClearDoes
  <2>1. disk'.folders = disk.folders
    BY <2>0 DEF Clears
  <2> QED
    BY <2>1, FolderStays
<1>8. ASSUME NEW f \in Folders, Vanish(f) PROVE \A g \in Folders : FolderMoves(g)
  <2>1. OneFolder(f) /\ disk'.folders[f] = Absent /\ vanished' # 0
    BY <1>8, VanishDoes
  <2>2. FolderMoves(f)
    BY <2>1 DEF FolderMoves
  <2> QED
    BY <2>1, <2>2, OneFolderMoves
<1>9. ASSUME NEW s \in Sends, SendStep(s) PROVE \A g \in Folders : FolderMoves(g)
  <2>1. ASSUME Walk(s) PROVE UNCHANGED disk
    BY <2>1, WalkDoes DEF Walks
  <2>2. SendReuse(s) \/ SendRelease(s) => UNCHANGED disk
    BY DEF SendReuse, SendRelease
  <2> QED
    BY <1>1, <1>2, <1>3, <1>4, <1>5, <1>9, <2>1, <2>2 DEF SendStep, Walk
<1>10. ASSUME NEW c \in Cleaners, CleanupStep(c) PROVE \A g \in Folders : FolderMoves(g)
  BY <1>1, <1>6, <1>7, <1>10 DEF CleanupStep, CleanupStop, CleanupAnnounce, CleanupOpen
<1>11. CASE CloseStep
  BY <1>1, <1>11 DEF CloseStep, CloseGates, CloseStop, CloseLock, Exit
<1> QED
  BY <1>1, <1>8, <1>9, <1>10, <1>11
     DEF Next, Open, Crash, CloseBegin, Publish, ObservePublishedSnapshot, SendBegin, vars

\* The bounded events only add up, and only to what was observed as cleared.
LEMMA CountsGrow ==
    ASSUME Types, Phases, Cleanups, Associations, [Next]_vars
    PROVE  /\ faults' = 0 => faults = 0
           /\ vanished' = 0 => vanished = 0
           /\ cleared \subseteq cleared'
<1>0. faults \in Nat /\ vanished \in Nat
  BY UploadBoundsAreNaturals DEF Types
<1>1. CASE UNCHANGED <<faults, vanished, cleared>>
  BY <1>1
<1>2. ASSUME UNCHANGED <<vanished, cleared>>, faults' \in {faults, faults + 1}
      PROVE  (faults' = 0 => faults = 0) /\ (vanished' = 0 => vanished = 0) /\ cleared \subseteq cleared'
  BY <1>0, <1>2
<1>3. ASSUME NEW f \in Folders, Vanish(f)
      PROVE  (faults' = 0 => faults = 0) /\ (vanished' = 0 => vanished = 0) /\ cleared \subseteq cleared'
  BY <1>3, VanishDoes DEF history
<1>4. ASSUME ObservePublishedSnapshot
      PROVE  (faults' = 0 => faults = 0) /\ (vanished' = 0 => vanished = 0) /\ cleared \subseteq cleared'
  BY <1>4, ObserveDoes DEF bounds
<1>5. ASSUME NEW s \in Sends, SendStep(s)
      PROVE  (faults' = 0 => faults = 0) /\ (vanished' = 0 => vanished = 0) /\ cleared \subseteq cleared'
  <2>1. CASE Walk(s)
    BY <1>1, <2>1, WalkDoes DEF Walks, bounds, history
  <2>2. CASE SendReuse(s) \/ SendReserve(s) \/ SendRelease(s)
    BY <1>1, <2>2 DEF SendReuse, SendReserve, SendRelease, bounds, history
  <2>3. ASSUME NEW f \in Folders, SendCreate(s, f) PROVE UNCHANGED <<vanished, cleared>> /\ faults' \in {faults, faults + 1}
    BY <2>3 DEF SendCreate, Fault, history
  <2>4. CASE SendRecord(s)
    BY <1>2, <2>4 DEF SendRecord, replaceRecord, Fault, history
  <2>5. CASE SendRollback(s)
    BY <1>2, <2>5 DEF SendRollback, Fault, history
  <2> QED
    BY <1>2, <1>5, <2>1, <2>2, <2>3, <2>4, <2>5 DEF SendStep, Walk
<1>6. ASSUME NEW c \in Cleaners, CleanupStep(c)
      PROVE  (faults' = 0 => faults = 0) /\ (vanished' = 0 => vanished = 0) /\ cleared \subseteq cleared'
  <2>1. CASE CleanupStop(c) \/ CleanupAnnounce(c)
    BY <1>1, <2>1 DEF CleanupStop, CleanupAnnounce, bounds, history
  <2>2. CASE CleanupOpen(c)
    BY <1>2, <2>2 DEF CleanupOpen, Fault, history
  <2>3. CASE CleanupRemove(c)
    BY <1>2, <2>3 DEF CleanupRemove, Fault, history
  <2>4. CASE CleanupClear(c)
    BY <1>2, <2>4 DEF CleanupClear, replaceRecord, Fault, history
  <2> QED
    BY <1>6, <2>1, <2>2, <2>3, <2>4 DEF CleanupStep
<1>7. CASE CloseStep
  BY <1>1, <1>7 DEF CloseStep, CloseGates, CloseStop, CloseLock, Exit, bounds, history
<1> QED
  BY <1>1, <1>3, <1>4, <1>5, <1>6, <1>7
     DEF Next, Open, Crash, CloseBegin, Publish, SendBegin, vars, bounds, history

\* Which steps change what is published, and what of it was observed.
LEMMA WatchMoves ==
    ASSUME [Next]_vars
    PROVE  \/ UNCHANGED <<process, home, observing, watch, life>>
           \/ UNCHANGED <<home, observing, watch, life>> /\ process' # "up"
           \/ Open
           \/ Ended /\ UNCHANGED life
           \/ \E workspaces \in SUBSET Workspaces : Publish(workspaces)
           \/ ObservePublishedSnapshot
<1>1. ASSUME NEW s \in Sends, SendStep(s) PROVE UNCHANGED <<process, home, observing, watch, life>>
  <2>1. CASE Walk(s)
    BY <2>1 DEF Walk, SendEnter, SendValidate, SendRead, SendForward, SendResult, memory, history
  <2>2. CASE SendReuse(s) \/ SendReserve(s) \/ SendRelease(s) \/ SendRollback(s)
    BY <2>2 DEF SendReuse, SendReserve, SendRelease, SendRollback, memory, history
  <2>3. CASE SendRecord(s)
    BY <2>3 DEF SendRecord, history
  <2>4. ASSUME NEW f \in Folders, SendCreate(s, f) PROVE UNCHANGED <<process, home, observing, watch, life>>
    BY <2>4 DEF SendCreate, history
  <2> QED
    BY <1>1, <2>1, <2>2, <2>3, <2>4 DEF SendStep, Walk
<1>2. ASSUME NEW c \in Cleaners, CleanupStep(c) PROVE UNCHANGED <<process, home, observing, watch, life>>
  BY <1>2 DEF CleanupStep, CleanupStop, CleanupAnnounce, CleanupOpen, CleanupRemove, CleanupClear, history
<1>3. ASSUME CloseStep, ~Exit
      PROVE  \/ UNCHANGED <<process, home, observing, watch, life>>
             \/ UNCHANGED <<home, observing, watch, life>> /\ process' # "up"
  BY <1>3 DEF CloseStep, CloseGates, CloseStop, CloseLock, history
<1>4. ASSUME Crash \/ Exit PROVE Ended /\ UNCHANGED life
  BY <1>4 DEF Crash, Exit, history
<1>5. ASSUME CloseBegin PROVE UNCHANGED <<home, observing, watch, life>> /\ process' # "up"
  BY <1>5 DEF CloseBegin, memory, history
<1>6. ASSUME UNCHANGED vars PROVE UNCHANGED <<process, home, observing, watch, life>>
  BY <1>6 DEF vars, memory, history
<1>7. ASSUME NEW f \in Folders, Vanish(f) PROVE UNCHANGED <<process, home, observing, watch, life>>
  BY <1>7 DEF Vanish, memory, history
<1>8. ASSUME NEW s \in Sends, NEW w \in Workspaces, SendBegin(s, w) PROVE UNCHANGED <<process, home, observing, watch, life>>
  BY <1>8 DEF SendBegin, history
<1> QED
  BY <1>1, <1>2, <1>3, <1>4, <1>5, <1>6, <1>7, <1>8 DEF Next

\* A workspace that was present is never new again, and none returns.
LEMMA LifeMoves ==
    ASSUME Types, Phases, Cleanups, [Next]_vars
    PROVE  \A w \in Workspaces : /\ life[w] # "new" => life'[w] # "new"
                                 /\ ~IDsReturn /\ life[w] = "gone" => life'[w] = "gone"
<1>1. CASE UNCHANGED life
  BY <1>1
<1>2. ASSUME NEW workspaces \in SUBSET Workspaces, Publish(workspaces)
      PROVE  \A w \in Workspaces : /\ life[w] # "new" => life'[w] # "new"
                                   /\ ~IDsReturn /\ life[w] = "gone" => life'[w] = "gone"
  BY <1>2, PublishDoes
<1>3. Open \/ ObservePublishedSnapshot => UNCHANGED life
  BY DEF Open, ObservePublishedSnapshot, history
<1> QED
  BY <1>1, <1>2, <1>3, WatchMoves

LEMMA RecordsMove ==
    ASSUME Types, Phases, Cleanups, Associations, [Next]_vars
    PROVE  \A w \in Workspaces : records'[w] # None \/ disk'.records[w] # None =>
               \/ records[w] # None \/ disk.records[w] # None
               \/ \E s \in Sends : send[s].ws = w
<1>1. CASE Settles
  BY <1>1 DEF Settles, Lasts
<1>2. ASSUME NEW s \in Sends, SendRecord(s)
      PROVE  \A w \in Workspaces : records'[w] # None \/ disk'.records[w] # None =>
                 records[w] # None \/ disk.records[w] # None \/ \E r \in Sends : send[r].ws = w
  <2>0. PICK w \in Workspaces, f \in Folders : Records(s, w, f)
    BY <1>2, RecordDoes
  <2>1. OneRecord(w) /\ w = send[s].ws
    BY <2>0 DEF Records
  <2> QED
    BY <2>1 DEF OneRecord
<1>3. ASSUME NEW s \in Sends, NEW f \in Folders, SendCreate(s, f) PROVE records' = records /\ disk'.records = disk.records
  BY <1>3, CreateDoes DEF Creates
<1>4. ASSUME NEW s \in Sends, SendReuse(s) PROVE records' = records /\ disk'.records = disk.records
  BY <1>4 DEF SendReuse
<1>5. ASSUME Open PROVE records' = disk.records /\ disk' = disk
  BY <1>5 DEF Open
<1> QED
  BY <1>1, <1>2, <1>3, <1>4, <1>5, Settling

LEMMA LivesNext ==
    ASSUME Types, Phases, Cleanups, Associations, Down, Lives, [Next]_vars
    PROVE  Lives'
<1>0. /\ \A s \in Sends : Moves(s)
      /\ \A w \in Workspaces : life[w] # "new" => life'[w] # "new"
      /\ \A w \in Workspaces : records'[w] # None \/ disk'.records[w] # None =>
               records[w] # None \/ disk.records[w] # None \/ \E s \in Sends : send[s].ws = w
  BY SendsMove, LifeMoves, RecordsMove
<1>1. \A w \in Workspaces :
          records'[w] # None \/ disk'.records[w] # None \/ (\E s \in Sends : send'[s].ws = w) => life'[w] # "new"
  <2> SUFFICES ASSUME NEW w \in Workspaces, records'[w] # None \/ disk'.records[w] # None \/ \E s \in Sends : send'[s].ws = w
               PROVE  life[w] # "new"
    BY <1>0
  <2>1. CASE records'[w] # None \/ disk'.records[w] # None
    BY <1>0, <2>1 DEF Lives
  <2>2. ASSUME NEW s \in Sends, send'[s].ws = w PROVE life[w] # "new"
    <3>1. send[s].ws = w \/ w \in home
      BY <1>0, <2>2 DEF Moves
    <3> QED
      BY <3>1 DEF Lives
  <2> QED
    BY <2>1, <2>2
<1>2. \A s \in Sends : send'[s].at \notin {"new", "done"} =>
          (send[s].at \notin {"new", "done"} /\ send'[s].ws = send[s].ws) \/ send'[s].ws \in home
  BY <1>0 DEF Moves
<1>3. CASE UNCHANGED <<process, home, observing, watch, life>>
  <2>1. \A w \in Workspaces : /\ w \in home' => life'[w] = "present"
                              /\ observing' /\ life'[w] = "present" => w \in home'
                              /\ w \in watch'.workspaces => life'[w] # "new"
    BY <1>3 DEF Lives
  <2>2. process' = "up" /\ ~observing' => IF watch'.observed THEN watch'.workspaces = home' ELSE home' = {}
    BY <1>3 DEF Lives
  <2>3. process' = "up" /\ ~watch'.observed => \A s \in Sends : send'[s].at \in {"new", "done"} \/ send'[s].ws \in home'
    BY <1>2, <1>3 DEF Lives
  <2> QED
    BY <1>1, <2>1, <2>2, <2>3 DEF Lives
<1>4. CASE UNCHANGED <<home, observing, watch, life>> /\ process' # "up"
  <2>1. \A w \in Workspaces : /\ w \in home' => life'[w] = "present"
                              /\ observing' /\ life'[w] = "present" => w \in home'
                              /\ w \in watch'.workspaces => life'[w] # "new"
    BY <1>4 DEF Lives
  <2> QED
    BY <1>1, <1>4, <2>1 DEF Lives
<1>5. CASE Open
  <2>1. /\ UNCHANGED <<home, observing, watch, send, life>> /\ process = "down"
    BY <1>5, OpenDoes DEF history
  <2>2. home = {} /\ ~observing /\ watch.observed = FALSE /\ watch.workspaces = {} /\ \A s \in Sends : send[s].at \in {"new", "done"}
    BY <2>1 DEF Down
  <2> QED
    BY <1>1, <2>1, <2>2 DEF Lives
<1>6. CASE Ended /\ UNCHANGED life
  <2>1. process' = "down" /\ home' = {} /\ observing' = FALSE /\ watch'.workspaces = {}
    BY <1>6, EndedDoes
  <2> QED
    BY <1>1, <2>1 DEF Lives
<1>7. ASSUME NEW workspaces \in SUBSET Workspaces, Publish(workspaces) PROVE Lives'
  <2>1. /\ UNCHANGED <<process, watch, records, send>> /\ ~observing /\ home' = workspaces /\ observing' = TRUE
        /\ \A w \in Workspaces : life'[w] = IF w \in workspaces THEN "present"
                                            ELSE IF life[w] = "new" THEN "new" ELSE "gone"
    BY <1>7, PublishDoes
  <2>2. \A w \in Workspaces : /\ w \in home' => life'[w] = "present"
                              /\ observing' /\ life'[w] = "present" => w \in home'
    BY <2>1
  <2>3. \A w \in Workspaces : w \in watch'.workspaces => life'[w] # "new"
    BY <1>0, <2>1 DEF Lives
  <2>4. process' = "up" /\ ~watch'.observed => \A s \in Sends : send'[s].at \in {"new", "done"} \/ send'[s].ws \in home'
    BY <2>1 DEF Lives
  <2> QED
    BY <1>1, <2>1, <2>2, <2>3, <2>4 DEF Lives
<1>8. CASE ObservePublishedSnapshot
  <2>1. /\ UNCHANGED <<process, home, life>> /\ observing' = FALSE
        /\ watch' = IF process = "up" THEN [observed |-> TRUE, workspaces |-> home] ELSE watch
    BY <1>8, ObserveDoes
  <2>2. /\ process = "up" => watch'.observed = TRUE /\ watch'.workspaces = home
        /\ process # "up" => watch' = watch
    BY <2>1
  <2>3. \A w \in Workspaces : /\ w \in home' => life'[w] = "present"
                              /\ w \in watch'.workspaces => life'[w] # "new"
    BY <2>1, <2>2 DEF Lives
  <2> QED
    BY <1>1, <2>1, <2>2, <2>3 DEF Lives
<1> QED
  BY <1>3, <1>4, <1>5, <1>6, <1>7, <1>8, WatchMoves

\* What a cleanup relies on: its workspace's forwarded sends are noted as
\* cleared, and its gate is shut.
Noted(w) == \A s \in Sends : send[s].ws = w /\ (send[s].at = "forwarding" \/ send[s].result \in Kept) => s \in cleared
Shut(w)  == ~gate[w].open /\ \A s \in Inside(w) : send[s].stopped \/ send[s].at \in Late

LEMMA NotedNext ==
    ASSUME Types, Phases, Cleanups, Associations, Lives, [Next]_vars, NEW w \in Workspaces, life[w] = "gone", Noted(w)
    PROVE  Noted(w)'
<1>1. (\A s \in Sends : Moves(s)) /\ cleared \subseteq cleared' /\ w \notin home
  BY SendsMove, CountsGrow DEF Lives
<1> SUFFICES ASSUME NEW s \in Sends, send'[s].ws = w, send'[s].at = "forwarding" \/ send'[s].result \in Kept
             PROVE  s \in cleared'
  BY DEF Noted
<1>2. send[s].ws = w /\ (send[s].at = "forwarding" \/ send[s].result \in Kept)
  BY <1>1 DEF Moves
<1> QED
  BY <1>1, <1>2 DEF Noted

LEMMA ShutNext ==
    ASSUME Types, Phases, Cleanups, [Next]_vars, NEW w \in Workspaces, Shut(w), gate'[w].open => gate[w].open
    PROVE  Shut(w)'
<1>1. \A s \in Sends : Moves(s)
  BY SendsMove
<1> SUFFICES ASSUME NEW s \in Sends, send'[s].ws = w, send'[s].at \notin {"new", "gate", "done"}
             PROVE  send'[s].stopped \/ send'[s].at \in Late
  BY DEF Shut, Inside
<1>2. /\ send[s].ws = w
      /\ \/ /\ send[s].at \notin {"new", "gate", "done"}
            /\ send[s].stopped => send'[s].stopped
            /\ send[s].at \in Late => send'[s].at \in Late
         \/ send[s].at = "gate" /\ gate[send[s].ws].open
  BY <1>1 DEF Moves
<1> QED
  BY <1>2 DEF Shut, Inside

LEMMA CrewsWillBe ==
    ASSUME \A c \in Cleaners : cleaner'[c].at # "none" => \E w \in Workspaces :
               /\ cleaner'[c].ws = w /\ watch'.observed /\ w \notin watch'.workspaces /\ life'[w] = "gone"
               /\ \A d \in Cleaners : cleaner'[d].ws = w => d = c
               /\ Noted(w)' /\ (cleaner'[c].at # "begun" => Shut(w)')
    PROVE  Crews'
<1> SUFFICES ASSUME NEW c \in Cleaners, cleaner'[c].at # "none"
             PROVE  /\ watch'.observed /\ cleaner'[c].ws \notin watch'.workspaces /\ life'[cleaner'[c].ws] = "gone"
                    /\ \A d \in Cleaners : cleaner'[d].ws = cleaner'[c].ws => d = c
                    /\ \A s \in Sends : send'[s].ws = cleaner'[c].ws /\ (send'[s].at = "forwarding" \/ send'[s].result \in Kept)
                                        => s \in cleared'
                    /\ cleaner'[c].at # "begun" =>
                         /\ ~gate'[cleaner'[c].ws].open
                         /\ \A s \in Sends : send'[s].ws = cleaner'[c].ws /\ send'[s].at \notin {"new", "gate", "done"}
                                => send'[s].stopped \/ send'[s].at \in {"forwarding", "rollback", "release"}
  BY DEF Crews, Inside
<1>1. PICK w \in Workspaces :
               /\ cleaner'[c].ws = w /\ watch'.observed /\ w \notin watch'.workspaces /\ life'[w] = "gone"
               /\ \A d \in Cleaners : cleaner'[d].ws = w => d = c
               /\ Noted(w)' /\ (cleaner'[c].at # "begun" => Shut(w)')
  OBVIOUS
<1> QED
  BY <1>1 DEF Noted, Shut, Inside, Late

LEMMA CrewsNext ==
    ASSUME Types, Phases, Cleanups, Associations, Down, Lives, Crews, ~IDsReturn, [Next]_vars
    PROVE  Crews'
<1>0. ASSUME NEW c \in Cleaners, cleaner[c].at # "none", NEW w \in Workspaces, cleaner[c].ws = w
      PROVE  /\ watch.observed /\ w \notin watch.workspaces /\ life[w] = "gone" /\ life'[w] = "gone" /\ w \notin home
             /\ \A d \in Cleaners : cleaner[d].ws = w => d = c
             /\ Noted(w)' /\ (cleaner[c].at # "begun" => Shut(w))
  <2>1. /\ watch.observed /\ w \notin watch.workspaces /\ life[w] = "gone"
        /\ \A d \in Cleaners : cleaner[d].ws = w => d = c
        /\ Noted(w) /\ (cleaner[c].at # "begun" => Shut(w))
    BY <1>0 DEF Crews, Noted, Shut, Late
  <2> QED
    BY <2>1, NotedNext, LifeMoves DEF Lives
\* No cleanup begins, and those that go on have their gates shut.
<1>1. ASSUME UNCHANGED watch,
             \A c \in Cleaners : cleaner'[c].ws \in {None, cleaner[c].ws},
             \A c \in Cleaners : cleaner'[c].at # "none" =>
                 /\ cleaner[c].at # "none" /\ cleaner'[c].ws = cleaner[c].ws
                 /\ \A w \in Workspaces : w = cleaner[c].ws /\ cleaner'[c].at # "begun" => Shut(w)'
      PROVE  Crews'
  <2> SUFFICES ASSUME NEW c \in Cleaners, cleaner'[c].at # "none"
               PROVE  \E w \in Workspaces :
                         /\ cleaner'[c].ws = w /\ watch'.observed /\ w \notin watch'.workspaces /\ life'[w] = "gone"
                         /\ \A d \in Cleaners : cleaner'[d].ws = w => d = c
                         /\ Noted(w)' /\ (cleaner'[c].at # "begun" => Shut(w)')
    BY CrewsWillBe
  <2>1. PICK w \in Workspaces : w = cleaner[c].ws
    BY <1>1, CleanupHasGate
  <2>2. cleaner[c].at # "none" /\ cleaner'[c].ws = w /\ (cleaner'[c].at # "begun" => Shut(w)')
    BY <1>1, <2>1
  <2>3. \A d \in Cleaners : cleaner'[d].ws = w => cleaner[d].ws = w
    BY <1>1, NothingIsNone
  <2> QED
    BY <1>0, <1>1, <2>1, <2>2, <2>3
\* The same, when no gate opens.
<1>2. ASSUME UNCHANGED <<watch, cleaner>>, \A w \in Workspaces : gate'[w].open => gate[w].open PROVE Crews'
  <2>1. ASSUME NEW c \in Cleaners, cleaner[c].at # "none", NEW w \in Workspaces, w = cleaner[c].ws, cleaner[c].at # "begun"
        PROVE  Shut(w)'
    BY <1>0, <1>2, <2>1, ShutNext
  <2> QED
    BY <1>1, <1>2, <2>1
\* A cleanup that goes on or ends in its own gate.
<1>3. ASSUME UNCHANGED watch, NEW c \in Cleaners, NEW w \in Workspaces, w = cleaner[c].ws, cleaner[c].at # "none",
             OneCleanup(c), OneGate(w),
             \/ cleaner'[c].at = "none" /\ cleaner'[c].ws = None
             \/ cleaner'[c].ws = w /\ Shut(w)'
      PROVE  Crews'
  <2>1. ASSUME NEW d \in Cleaners, NEW v \in Workspaces, v = cleaner[d].ws, d # c, cleaner[d].at # "none", cleaner[d].at # "begun"
        PROVE  Shut(v)'
    <3>1. v # w /\ Shut(v)
      BY <1>0, <1>3, <2>1
    <3>2. gate'[v] = gate[v]
      BY <1>3, <3>1 DEF OneGate
    <3> QED
      BY <3>1, <3>2, ShutNext
  <2>2. \A d \in Cleaners : d # c => cleaner'[d] = cleaner[d]
    BY <1>3 DEF OneCleanup
  <2>3. \A d \in Cleaners : cleaner'[d].ws \in {None, cleaner[d].ws}
    BY <1>3, <2>2
  <2>4. ASSUME NEW d \in Cleaners, cleaner'[d].at # "none"
        PROVE  /\ cleaner[d].at # "none" /\ cleaner'[d].ws = cleaner[d].ws
               /\ \A v \in Workspaces : v = cleaner[d].ws /\ cleaner'[d].at # "begun" => Shut(v)'
    <3>1. CASE d = c
      <4>1. cleaner'[c].ws = w /\ Shut(w)'
        BY <1>3, <2>4, <3>1
      <4>2. \A v \in Workspaces : v = w => Shut(v)'
        BY <4>1
      <4> QED
        BY <1>3, <3>1, <4>1, <4>2
    <3>2. CASE d # c
      BY <2>1, <2>2, <2>4, <3>2
    <3> QED
      BY <3>1, <3>2
  <2> QED
    BY <1>1, <1>3, <2>3, <2>4
<1>4. ASSUME NEW c \in Cleaners, CleanupStop(c) PROVE Crews'
  <2>0. PICK w \in Workspaces : /\ w = cleaner[c].ws /\ cleaner[c].at = "begun" /\ Stops(w) /\ UNCHANGED closing
                                /\ OneCleanup(c) /\ cleaner'[c].at = "stopped" /\ cleaner'[c].ws = w
    BY <1>4, CleanupStopDoes
  <2>1. UNCHANGED watch /\ OneGate(w) /\ gate'[w].open = FALSE
    BY <2>0 DEF Stops
  <2>2. \A s \in Sends : s \in Inside(w)' => send'[s].stopped
    BY <2>0 DEF Stops, Inside
  <2>3. Shut(w)'
    <3>1. ~gate'[w].open
      BY <2>1
    <3>2. Inside(w)' \subseteq Sends
      BY DEF Inside
    <3>3. \A s \in Inside(w)' : send'[s].stopped
      BY <2>2, <3>2
    <3> QED
      BY <3>1, <3>3 DEF Shut
  <2> QED
    BY <1>3, <2>0, <2>1, <2>3
<1>5. ASSUME NEW c \in Cleaners, CleanupAnnounce(c) PROVE Crews'
  <2>1. /\ UNCHANGED <<watch, gate>> /\ cleaner[c].at = "stopped" /\ OneCleanup(c) /\ cleaner'[c].ws = cleaner[c].ws
    BY <1>5, AnnounceDoes
  <2>2. PICK w \in Workspaces : w = cleaner[c].ws
    BY <2>1, CleanupHasGate
  <2>3. OneGate(w)
    BY <2>1 DEF OneGate, Types
  <2>4. Shut(w)'
    BY <1>0, <2>1, <2>2, ShutNext
  <2> QED
    BY <1>3, <2>1, <2>2, <2>3, <2>4
<1>6. ASSUME NEW c \in Cleaners, CleanupOpen(c) PROVE Crews'
  <2>0. PICK w \in Workspaces : Opens(c, w)
    BY <1>6, CleanupOpenDoes
  <2>1. /\ UNCHANGED watch /\ w = cleaner[c].ws /\ cleaner[c].at = "announced" /\ OneGate(w) /\ OneCleanup(c)
        /\ \/ cleaner'[c].at = "none" /\ cleaner'[c].ws = None
           \/ cleaner'[c].ws = w /\ gate'[w].open = gate[w].open
    BY <2>0 DEF Opens
  <2>2. gate'[w].open = gate[w].open => Shut(w)'
    BY <1>0, <2>1, ShutNext
  <2> QED
    BY <1>3, <2>1, <2>2
<1>7. ASSUME NEW c \in Cleaners, CleanupRemove(c) PROVE Crews'
  <2>0. PICK w \in Workspaces, f \in Folders : Removes(c, w, f)
    BY <1>7, RemoveDoes
  <2>1. /\ UNCHANGED watch /\ w = cleaner[c].ws /\ cleaner[c].at = "removing" /\ OneGate(w) /\ OneCleanup(c)
        /\ \/ gate' = gate /\ cleaner' = cleaner
           \/ cleaner'[c].at = "none" /\ cleaner'[c].ws = None
           \/ cleaner'[c].ws = w /\ gate'[w].open = gate[w].open
    BY <2>0 DEF Removes
  <2>2. gate'[w].open = gate[w].open => Shut(w)'
    BY <1>0, <2>1, ShutNext
  <2> QED
    BY <1>2, <1>3, <2>1, <2>2
<1>8. ASSUME NEW c \in Cleaners, CleanupClear(c) PROVE Crews'
  <2>0. PICK w \in Workspaces : Clears(c, w)
    BY <1>8, ClearDoes
  <2> QED
    BY <1>3, <2>0 DEF Clears
<1>9. ASSUME NEW w \in Workspaces, Stops(w), UNCHANGED cleaner PROVE Crews'
  BY <1>2, <1>9 DEF Stops, OneGate
<1>10. ASSUME NEW w \in Workspaces, CloseLock(w) PROVE Crews'
  <2>1. /\ UNCHANGED <<watch, cleaner>> /\ OneGate(w) /\ gate'[w] = [gate[w] EXCEPT !.directory = None]
    BY <1>10, CloseLockDoes
  <2>2. gate'[w].open = gate[w].open
    BY <2>1, GateFields
  <2> QED
    BY <1>2, <2>1, <2>2 DEF OneGate
<1>11. ASSUME NEW s \in Sends, SendStep(s) PROVE Crews'
  <2>1. CASE Walk(s)
    BY <1>2, <2>1, WalkDoes DEF Walks, memory
  <2>2. CASE SendReserve(s) \/ SendRelease(s) \/ SendRollback(s)
    BY <1>2, <2>2 DEF SendReserve, SendRelease, SendRollback, memory
  <2>3. CASE SendReuse(s)
    <3>0. PICK w \in Workspaces, f \in Folders : Reuses(s, w, f)
      BY <2>3, ReuseDoes
    <3>1. UNCHANGED <<watch, cleaner>> /\ OneGate(w) /\ gate'[w] = [gate[w] EXCEPT !.directory = f]
      BY <3>0 DEF Reuses
    <3>2. gate'[w].open = gate[w].open
      BY <3>1, GateFields
    <3> QED
      BY <1>2, <3>1, <3>2 DEF OneGate
  <2>4. CASE SendRecord(s)
    <3>0. PICK w \in Workspaces, f \in Folders : Records(s, w, f)
      BY <2>4, RecordDoes
    <3>1. /\ UNCHANGED <<watch, cleaner>> /\ OneGate(w)
          /\ \/ gate'[w] = [gate[w] EXCEPT !.association = f, !.directory = f, !.setup = None]
             \/ gate'[w] = [gate[w] EXCEPT !.setup = None]
      BY <3>0 DEF Records
    <3>2. gate'[w].open = gate[w].open
      <4>1. CASE gate'[w] = [gate[w] EXCEPT !.association = f, !.directory = f, !.setup = None]
        BY <4>1, GateFields
      <4>2. CASE gate'[w] = [gate[w] EXCEPT !.setup = None]
        BY <4>2, GateFields
      <4> QED
        BY <3>1, <4>1, <4>2
    <3> QED
      BY <1>2, <3>1, <3>2 DEF OneGate
  <2>5. ASSUME NEW f \in Folders, SendCreate(s, f) PROVE Crews'
    <3>0. PICK w \in Workspaces : Creates(s, f, w)
      BY <2>5, CreateDoes
    <3>1. /\ UNCHANGED <<watch, cleaner>> /\ OneGate(w)
          /\ \/ gate'[w] = [gate[w] EXCEPT !.directory = None, !.setup = s]
             \/ gate'[w] = [gate[w] EXCEPT !.directory = None]
      BY <3>0 DEF Creates
    <3>2. gate'[w].open = gate[w].open
      <4>1. CASE gate'[w] = [gate[w] EXCEPT !.directory = None, !.setup = s]
        BY <4>1, GateFields
      <4>2. CASE gate'[w] = [gate[w] EXCEPT !.directory = None]
        BY <4>2, GateFields
      <4> QED
        BY <3>1, <4>1, <4>2
    <3> QED
      BY <1>2, <3>1, <3>2 DEF OneGate
  <2> QED
    BY <1>11, <2>1, <2>2, <2>3, <2>4, <2>5 DEF SendStep, Walk
<1>12. ASSUME NEW s \in Sends, NEW w \in Workspaces, SendBegin(s, w) PROVE Crews'
  <2>1. UNCHANGED <<watch, cleaner>> /\ OneGate(w) /\ gate'[w] = [gate[w] EXCEPT !.known = TRUE]
    BY <1>12, BeginDoes
  <2>2. gate'[w].open = gate[w].open
    BY <2>1, GateFields
  <2> QED
    BY <1>2, <2>1, <2>2 DEF OneGate
\* No cleanup is left of a process that ended.
<1>13. ASSUME Ended PROVE Crews'
  BY <1>13, EndedDoes DEF Crews, NoCleanup
<1>14. ASSUME Open PROVE Crews'
  <2>1. \A c \in Cleaners : cleaner'[c].at = "none"
    BY <1>14, OpenDoes DEF Down, NoCleanup
  <2> QED
    BY <2>1 DEF Crews
\* A cleanup begins for a workspace that has gone, and that none is for.
<1>15. ASSUME ObservePublishedSnapshot PROVE Crews'
  <2>1. /\ UNCHANGED <<process, home, records, gate, send, life>> /\ observing
        /\ watch' = IF process = "up" THEN [observed |-> TRUE, workspaces |-> home] ELSE watch
        /\ \A c \in Cleaners :
              \/ cleaner'[c] = cleaner[c]
              \/ cleaner[c].at = "none" /\ cleaner'[c].at = "begun" /\ cleaner'[c].ws \in Started
        /\ \A c, d \in Cleaners : cleaner'[c] # cleaner[c] /\ cleaner'[d] # cleaner[d] /\ cleaner'[c].ws = cleaner'[d].ws => c = d
        /\ cleared' = cleared \cup {s \in Sends : /\ \/ send[s].at = "forwarding"
                                                     \/ send[s].result \in Kept
                                                  /\ send[s].ws \notin home}
    BY <1>15, ObserveDoes
  <2>2. /\ process = "up" => watch'.observed = TRUE /\ watch'.workspaces = home
        /\ process # "up" => watch' = watch
    BY <2>1
  <2>3. ASSUME NEW w \in Started
        PROVE  /\ w \in Workspaces /\ process = "up" /\ w \notin home /\ life[w] = "gone"
               /\ watch.observed => w \in watch.workspaces
    <3>1. /\ w \in Workspaces /\ process = "up" /\ w \notin home
          /\ IF watch.observed THEN w \in watch.workspaces ELSE records[w] # None
      BY <2>3 DEF Started, missing, Types
    <3>2. life[w] # "new" /\ life[w] # "present"
      BY <2>1, <3>1 DEF Lives
    <3> QED
      BY <3>1, <3>2 DEF Types
  <2> SUFFICES ASSUME NEW c \in Cleaners, cleaner'[c].at # "none"
               PROVE  \E w \in Workspaces :
                         /\ cleaner'[c].ws = w /\ watch'.observed /\ w \notin watch'.workspaces /\ life'[w] = "gone"
                         /\ \A d \in Cleaners : cleaner'[d].ws = w => d = c
                         /\ Noted(w)' /\ (cleaner'[c].at # "begun" => Shut(w)')
    BY CrewsWillBe
  <2>4. CASE cleaner'[c] = cleaner[c]
    <3>1. PICK w \in Workspaces : w = cleaner[c].ws
      BY <2>4, CleanupHasGate
    <3>2. /\ watch.observed /\ w \notin watch.workspaces /\ life[w] = "gone" /\ w \notin home /\ Noted(w)'
          /\ \A d \in Cleaners : cleaner[d].ws = w => d = c
          /\ cleaner[c].at # "begun" => Shut(w)
      BY <1>0, <2>4, <3>1
    <3>3. cleaner[c].at # "begun" => Shut(w)'
      BY <2>1, <3>2, ShutNext
    <3>4. ASSUME NEW d \in Cleaners, cleaner'[d].ws = w PROVE d = c
      <4>1. cleaner'[d].ws \notin Started
        BY <2>3, <3>2, <3>4
      <4> QED
        BY <2>1, <3>2, <3>4, <4>1
    <3> QED
      BY <2>1, <2>2, <2>4, <3>1, <3>2, <3>3, <3>4
  <2>5. CASE cleaner'[c] # cleaner[c]
    <3>1. PICK w \in Started : w = cleaner'[c].ws
      BY <2>1, <2>5
    <3>2. cleaner[c].at = "none" /\ cleaner'[c].at = "begun"
      BY <2>1, <2>5
    <3>3. /\ w \in Workspaces /\ process = "up" /\ w \notin home /\ life[w] = "gone"
          /\ watch.observed => w \in watch.workspaces
      BY <2>3
    <3>4. ASSUME NEW d \in Cleaners, cleaner'[d].ws = w PROVE d = c
      <4>1. CASE cleaner'[d] # cleaner[d]
        BY <2>1, <2>5, <3>1, <3>4, <4>1
      <4>2. CASE cleaner'[d] = cleaner[d]
        <5>1. cleaner[d].at # "none"
          BY <3>3, <3>4, <4>2, NothingIsNone DEF Cleanups
        <5>2. cleaner[d].ws = w
          BY <3>4, <4>2
        <5> QED
          BY <1>0, <3>3, <5>1, <5>2
      <4> QED
        BY <4>1, <4>2
    <3>5. Noted(w)'
      BY <2>1, <3>3 DEF Noted
    <3> QED
      BY <2>1, <2>2, <3>1, <3>2, <3>3, <3>4, <3>5
  <2> QED
    BY <2>4, <2>5
<1>16. ASSUME UNCHANGED <<watch, cleaner, gate>> PROVE Crews'
  BY <1>2, <1>16
<1>17. ASSUME NEW c \in Cleaners, CleanupStep(c) PROVE Crews'
  BY <1>4, <1>5, <1>6, <1>7, <1>8, <1>17 DEF CleanupStep
<1>18. ASSUME CloseStep PROVE Crews'
  <2>1. ASSUME NEW w \in Workspaces, CloseStop(w) PROVE Crews'
    BY <1>9, <2>1, CloseStopDoes
  <2> QED
    BY <1>10, <1>13, <1>16, <1>18, <2>1 DEF CloseStep, CloseGates, Exit
<1> QED
  BY <1>11, <1>12, <1>13, <1>14, <1>15, <1>16, <1>17, <1>18
     DEF Next, Crash, CloseBegin, Vanish, Publish, vars, memory

\* Only a cleanup takes a folder's marker, of a workspace that is gone.
LEMMA MarksNext ==
    ASSUME Types, Phases, Cleanups, Associations, Owners, Lives, Crews, Marks, ~IDsReturn, [Next]_vars
    PROVE  Marks'
<1> SUFFICES ASSUME NEW f \in Folders, NEW w \in Workspaces, Owns(w, f)',
                    disk'.folders[f].there, Marker \notin disk'.folders[f].entries
             PROVE  life'[w] = "gone" /\ \A s \in Sends : send'[s].ws = w => send'[s].at \in Outside
  BY DEF Marks, Exists, Verified
<1>0. f # None /\ FolderMoves(f) /\ (\A s \in Sends : Moves(s))
  BY FoldersMove, SendsMove, NothingIsNone
<1>1. ASSUME Owns(w, f), life[w] = "gone", \A s \in Sends : send[s].ws = w => send[s].at \in Outside
      PROVE  life'[w] = "gone" /\ \A s \in Sends : send'[s].ws = w => send'[s].at \in Outside
  <2>1. life'[w] = "gone" /\ w \notin home
    BY <1>1, LifeMoves DEF Lives
  <2>2. ASSUME NEW s \in Sends, send'[s].ws = w PROVE send'[s].at \in Outside
    BY <1>0, <1>1, <2>1, <2>2 DEF Moves
  <2> QED
    BY <2>1, <2>2
<1>2. ASSUME disk.folders[f].there, Marker \notin disk.folders[f].entries
      PROVE  life'[w] = "gone" /\ \A s \in Sends : send'[s].ws = w => send'[s].at \in Outside
  <2>1. f \in made
    BY <1>2 DEF Owners, Absent
  <2>2. Owns(w, f)
    BY <2>1, OwnsNext
  <2>3. life[w] = "gone" /\ \A s \in Sends : send[s].ws = w => send[s].at \in Outside
    BY <1>0, <1>2, <2>2 DEF Marks, Exists, Verified
  <2> QED
    BY <1>1, <2>2, <2>3
<1>3. ASSUME NEW c \in Cleaners, CleanupRemove(c), f = gate[cleaner[c].ws].directory
      PROVE  life'[w] = "gone" /\ \A s \in Sends : send'[s].ws = w => send'[s].at \in Outside
  <2>1. cleaner[c].at = "removing"
    BY <1>3 DEF CleanupRemove
  <2>2. PICK v \in Workspaces : v = cleaner[c].ws
    BY <2>1, CleanupHasGate
  <2>3. life[v] = "gone" /\ Inside(v) = {} /\ Owns(v, f)
    BY <1>0, <1>3, <2>1, <2>2 DEF Crews, Cleanups, Associations, Owns
  <2>4. w = v
    <3>1. f \in made
      BY <2>3 DEF Owners
    <3>2. Owns(w, f)
      BY <3>1, OwnsNext
    <3> QED
      BY <2>3, <3>2 DEF Owners
  <2>5. \A s \in Sends : send[s].ws = w => send[s].at \in Outside
    BY <2>3, <2>4 DEF Inside, Outside
  <2> QED
    BY <1>1, <2>3, <2>4, <2>5
<1>4. CASE disk'.folders[f] = Absent
  BY <1>4 DEF Absent
<1>5. CASE disk'.folders[f] = disk.folders[f]
  BY <1>2, <1>5
<1>6. CASE disk'.folders[f] = [there |-> TRUE, entries |-> {Marker}]
  <2>1. disk'.folders[f].entries = {Marker}
    BY <1>6
  <2> QED
    BY <2>1
<1>7. CASE /\ disk'.folders[f].there = disk.folders[f].there
           /\ Marker \in disk'.folders[f].entries <=> Marker \in disk.folders[f].entries
  BY <1>2, <1>7
<1> QED
  BY <1>0, <1>3, <1>4, <1>5, <1>6, <1>7 DEF FolderMoves

LEMMA BlankNext ==
    ASSUME Types, Phases, Cleanups, Associations, Owners, Fresh, Down, Blank, [Next]_vars
    PROVE  Blank'
<1>1. Types' /\ (\A f \in Folders : FolderMoves(f)) /\ None \notin Folders
  BY TypesNext, FoldersMove, NothingIsNone
<1> SUFFICES ASSUME NEW s \in Sends, send'[s].at = "recording"
             PROVE  disk'.folders[send'[s].dir].entries \subseteq {Marker}
  BY DEF Blank
<1>2. ASSUME send[s].at = "recording", send'[s].dir = send[s].dir
      PROVE  disk'.folders[send'[s].dir].entries \subseteq {Marker}
  <2>1. PICK f \in Folders : f = send[s].dir
    BY <1>2, SendHasFolder DEF Holding
  <2> SUFFICES disk'.folders[f].entries \subseteq {Marker}
    BY <1>2, <2>1
  <2>2. disk.folders[f].entries \subseteq {Marker} /\ \A r \in Sends : r # s => send[r].dir # f
    BY <1>2, <2>1 DEF Blank, Fresh
  <2>3. CASE disk'.folders[f] \in {disk.folders[f], Absent}
    BY <2>2, <2>3 DEF Absent, NoDir
  <2>4. CASE disk'.folders[f].entries \subseteq disk.folders[f].entries
    BY <2>2, <2>4
  <2>5. CASE disk'.folders[f] = [there |-> TRUE, entries |-> {Marker}]
    BY <2>5
  <2>6. CASE \A r \in Sends : r \in disk'.folders[f].entries =>
                 r \in disk.folders[f].entries \/ (send[r].dir = f /\ send[r].at = "ensured")
    <3>1. \A r \in Sends : r \notin disk'.folders[f].entries
      BY <1>2, <2>2, <2>6, MarkerIsNoFile
    <3>2. disk'.folders[f] \in Folder
      BY <1>1 DEF Types
    <3>3. disk'.folders[f].entries \subseteq Sends \cup {Marker}
      BY <3>2 DEF Folder
    <3> QED
      BY <3>1, <3>3
  <2> QED
    BY <1>1, <2>3, <2>4, <2>5, <2>6 DEF FolderMoves
<1>3. CASE Settles
  BY <1>2, <1>3 DEF Settles, Lasts
<1>4. ASSUME NEW r \in Sends, SendReuse(r) PROVE disk'.folders[send'[s].dir].entries \subseteq {Marker}
  <2>0. PICK w \in Workspaces, f \in Folders : Reuses(r, w, f)
    BY <1>4, ReuseDoes
  <2>1. Only(r) /\ send'[r].at = "ensured"
    BY <2>0 DEF Reuses
  <2> QED
    BY <1>2, <2>1 DEF Only
<1>5. ASSUME NEW r \in Sends, SendRecord(r) PROVE disk'.folders[send'[s].dir].entries \subseteq {Marker}
  <2>0. PICK w \in Workspaces, f \in Folders : Records(r, w, f)
    BY <1>5, RecordDoes
  <2>1. Only(r) /\ send'[r].at # "recording"
    BY <2>0 DEF Records
  <2> QED
    BY <1>2, <2>1 DEF Only
<1>6. ASSUME NEW r \in Sends, NEW f \in Folders, SendCreate(r, f) PROVE disk'.folders[send'[s].dir].entries \subseteq {Marker}
  <2>0. PICK w \in Workspaces : Creates(r, f, w)
    BY <1>6, CreateDoes
  <2>1. /\ Only(r)
        /\ \/ send'[r].dir = f /\ disk'.folders[f] = [there |-> TRUE, entries |-> {Marker}]
           \/ send'[r].at = "done"
    BY <2>0 DEF Creates
  <2>2. CASE s = r
    <3>1. send'[s].dir = f /\ disk'.folders[f].entries = {Marker}
      BY <2>1, <2>2
    <3> QED
      BY <3>1
  <2>3. CASE s # r
    BY <1>2, <2>1, <2>3 DEF Only
  <2> QED
    BY <2>2, <2>3
<1>7. ASSUME Open PROVE FALSE
  BY <1>7, OpenDoes DEF Down
<1> QED
  BY <1>3, <1>4, <1>5, <1>6, <1>7, Settling

LEMMA AgreedNext ==
    ASSUME Types, Phases, Cleanups, Associations, Agreed, [Next]_vars
    PROVE  Agreed'
<1>0. faults' = 0 => faults = 0
  BY CountsGrow
<1>1. ASSUME records' = records, disk'.records = disk.records, process' # "down" => process # "down" PROVE Agreed'
  BY <1>0, <1>1 DEF Agreed, Running
<1>2. ASSUME NEW s \in Sends, SendRecord(s) PROVE Agreed'
  <2>0. PICK w \in Workspaces, f \in Folders : Records(s, w, f)
    BY <1>2, RecordDoes
  <2>1. disk'.records = records' \/ faults' = faults + 1
    BY <2>0 DEF Records
  <2>2. faults' = faults + 1 => faults' # 0
    BY UploadBoundsAreNaturals DEF Types
  <2> QED
    BY <2>1, <2>2 DEF Agreed
<1>3. ASSUME NEW c \in Cleaners, CleanupClear(c) PROVE Agreed'
  <2>0. PICK w \in Workspaces : Clears(c, w)
    BY <1>3, ClearDoes
  <2>1. disk'.records = records' \/ faults' = faults + 1
    BY <2>0 DEF Clears
  <2>2. faults' = faults + 1 => faults' # 0
    BY UploadBoundsAreNaturals DEF Types
  <2> QED
    BY <2>1, <2>2 DEF Agreed
<1>4. ASSUME NEW s \in Sends, SendStep(s) PROVE Agreed'
  <2>1. CASE Walk(s)
    BY <1>1, <2>1, WalkDoes DEF Walks, memory
  <2>2. CASE SendReuse(s) \/ SendRelease(s)
    BY <1>1, <2>2 DEF SendReuse, SendRelease
  <2>3. CASE SendReserve(s)
    <3>0. PICK f \in Folders : Reserves(s, f)
      BY <2>3, ReserveDoes
    <3> QED
      BY <1>1, <3>0 DEF Reserves, memory
  <2>4. CASE SendRollback(s)
    <3>0. PICK f \in Folders : RollsBack(s, f)
      BY <2>4, RollbackDoes
    <3> QED
      BY <1>1, <3>0 DEF RollsBack, memory
  <2>5. ASSUME NEW f \in Folders, SendCreate(s, f) PROVE Agreed'
    <3>0. PICK w \in Workspaces : Creates(s, f, w)
      BY <2>5, CreateDoes
    <3> QED
      BY <1>1, <3>0 DEF Creates
  <2> QED
    BY <1>2, <1>4, <2>1, <2>2, <2>3, <2>4, <2>5 DEF SendStep, Walk
<1>5. ASSUME NEW c \in Cleaners, CleanupStep(c) PROVE Agreed'
  <2>1. CASE CleanupRemove(c)
    <3>0. PICK w \in Workspaces, f \in Folders : Removes(c, w, f)
      BY <2>1, RemoveDoes
    <3> QED
      BY <1>1, <3>0 DEF Removes
  <2> QED
    BY <1>1, <1>3, <1>5, <2>1 DEF CleanupStep, CleanupStop, CleanupAnnounce, CleanupOpen
<1>6. ASSUME Ended PROVE Agreed'
  BY <1>6 DEF Ended, Agreed, Running
<1>7. ASSUME Open PROVE Agreed'
  BY <1>7 DEF Open, Agreed
<1>8. ASSUME NEW f \in Folders, Vanish(f) PROVE Agreed'
  BY <1>1, <1>8, VanishDoes DEF memory
<1>9. ASSUME CloseStep PROVE Agreed'
  BY <1>1, <1>6, <1>9 DEF CloseStep, CloseGates, CloseStop, CloseLock, Exit
<1> QED
  BY <1>1, <1>4, <1>5, <1>6, <1>7, <1>8, <1>9
     DEF Next, Crash, CloseBegin, Publish, ObservePublishedSnapshot, SendBegin, vars, memory

\* A record of a folder that is there is not replaced, in memory or on disk.
LEMMA RecordStays ==
    ASSUME Types, Phases, Cleanups, Associations, Fresh, Down, Marks, [Next]_vars,
           NEW f \in Folders, disk.folders[f].there, NEW w \in Workspaces, disk.records[w] = f, Running => records[w] = f
    PROVE  disk'.records[w] = f /\ (process' # "down" => records'[w] = f)
<1>0. f # None
  BY NothingIsNone
<1>1. ASSUME disk'.records = disk.records, records' = records, process' # "down" => process # "down"
      PROVE  disk'.records[w] = f /\ (process' # "down" => records'[w] = f)
  BY <1>1 DEF Running
<1>2. ASSUME NEW s \in Sends, SendRecord(s)
      PROVE  disk'.records[w] = f /\ (process' # "down" => records'[w] = f)
  <2>0. PICK v \in Workspaces, g \in Folders : Records(s, v, g)
    BY <1>2, RecordDoes
  <2>1. OneRecord(v) /\ v = send[s].ws /\ send[s].at = "recording"
    BY <2>0 DEF Records
  <2>2. records[w] = f
    BY <2>1 DEF Down, Running
  <2>3. v # w
    <3>1. ~(Exists(f) /\ ~Verified(f) /\ Owns(w, f) /\ send[s].ws = w)
      BY <2>1 DEF Marks, Outside
    <3> QED
      BY <1>0, <2>1, <2>2, <3>1 DEF Fresh, Exists, Owns
  <2> QED
    BY <2>1, <2>2, <2>3 DEF OneRecord
<1>3. ASSUME NEW c \in Cleaners, CleanupClear(c)
      PROVE  disk'.records[w] = f /\ (process' # "down" => records'[w] = f)
  <2>0. PICK v \in Workspaces : Clears(c, v)
    BY <1>3, ClearDoes
  <2>1. OneRecord(v) /\ v = cleaner[c].ws /\ cleaner[c].at = "clearing"
    BY <2>0 DEF Clears
  <2>2. records[w] = f
    BY <2>1 DEF Down, Running, NoCleanup
  <2>3. v # w
    BY <1>0, <2>1, <2>2 DEF Cleanups, Exists
  <2> QED
    BY <2>1, <2>2, <2>3 DEF OneRecord
<1>4. ASSUME NEW s \in Sends, SendStep(s)
      PROVE  disk'.records[w] = f /\ (process' # "down" => records'[w] = f)
  <2>1. CASE Walk(s)
    BY <1>1, <2>1, WalkDoes DEF Walks, memory
  <2>2. CASE SendReuse(s) \/ SendRelease(s)
    BY <1>1, <2>2 DEF SendReuse, SendRelease
  <2>3. CASE SendReserve(s)
    <3>0. PICK g \in Folders : Reserves(s, g)
      BY <2>3, ReserveDoes
    <3> QED
      BY <1>1, <3>0 DEF Reserves, memory
  <2>4. CASE SendRollback(s)
    <3>0. PICK g \in Folders : RollsBack(s, g)
      BY <2>4, RollbackDoes
    <3> QED
      BY <1>1, <3>0 DEF RollsBack, memory
  <2>5. ASSUME NEW g \in Folders, SendCreate(s, g)
        PROVE  disk'.records[w] = f /\ (process' # "down" => records'[w] = f)
    <3>0. PICK v \in Workspaces : Creates(s, g, v)
      BY <2>5, CreateDoes
    <3> QED
      BY <1>1, <3>0 DEF Creates
  <2> QED
    BY <1>2, <1>4, <2>1, <2>2, <2>3, <2>4, <2>5 DEF SendStep, Walk
<1>5. ASSUME NEW c \in Cleaners, CleanupStep(c)
      PROVE  disk'.records[w] = f /\ (process' # "down" => records'[w] = f)
  <2>1. CASE CleanupRemove(c)
    <3>0. PICK v \in Workspaces, g \in Folders : Removes(c, v, g)
      BY <2>1, RemoveDoes
    <3> QED
      BY <1>1, <3>0 DEF Removes
  <2> QED
    BY <1>1, <1>3, <1>5, <2>1 DEF CleanupStep, CleanupStop, CleanupAnnounce, CleanupOpen
<1>6. ASSUME Ended, UNCHANGED disk PROVE disk'.records[w] = f /\ (process' # "down" => records'[w] = f)
  BY <1>6 DEF Ended
<1>7. ASSUME Open PROVE disk'.records[w] = f /\ (process' # "down" => records'[w] = f)
  BY <1>7 DEF Open
<1>8. ASSUME NEW g \in Folders, Vanish(g) PROVE disk'.records[w] = f /\ (process' # "down" => records'[w] = f)
  BY <1>1, <1>8, VanishDoes DEF memory
<1>9. ASSUME CloseStep PROVE disk'.records[w] = f /\ (process' # "down" => records'[w] = f)
  BY <1>1, <1>6, <1>9 DEF CloseStep, CloseGates, CloseStop, CloseLock, Exit
<1> QED
  BY <1>1, <1>4, <1>5, <1>6, <1>7, <1>8, <1>9
     DEF Next, Crash, CloseBegin, Publish, ObservePublishedSnapshot, SendBegin, vars, memory

LEMMA RecordedNext ==
    ASSUME Types, Phases, Cleanups, Associations, Owners, Fresh, Down, Marks, Recorded, [Next]_vars
    PROVE  Recorded'
<1> SUFFICES ASSUME \A s \in Sends : send'[s].result # "lost", NEW f \in Folders, disk'.folders[f].there
             PROVE  \/ \E w \in Workspaces : disk'.records[w] = f /\ (process' # "down" => records'[w] = f)
                    \/ \E s \in Sends : send'[s].dir = f /\ send'[s].at = "recording"
  BY DEF Recorded, Exists, Running
<1>0. (\A s \in Sends : Moves(s)) /\ FolderMoves(f) /\ f # None
  BY SendsMove, FoldersMove, NothingIsNone
<1>1. \A s \in Sends : send[s].result # "lost"
  BY <1>0 DEF Moves
<1>2. disk.folders[f].there \/ \E s \in Sends : send'[s].dir = f /\ send'[s].at = "recording"
  <2>1. disk'.folders[f] # Absent
    BY DEF Absent
  <2> QED
    BY <1>0, <2>1 DEF FolderMoves
<1>3. CASE disk.folders[f].there
  <2>1. \/ \E w \in Workspaces : disk.records[w] = f /\ (Running => records[w] = f)
        \/ \E s \in Sends : send[s].dir = f /\ send[s].at = "recording"
    BY <1>0, <1>1, <1>3 DEF Recorded, Exists
  <2>2. ASSUME NEW w \in Workspaces, disk.records[w] = f, Running => records[w] = f
        PROVE  disk'.records[w] = f /\ (process' # "down" => records'[w] = f)
    BY <1>3, <2>2, RecordStays
  <2>3. ASSUME NEW s \in Sends, send[s].dir = f, send[s].at = "recording"
        PROVE  \/ \E w \in Workspaces : disk'.records[w] = f /\ (process' # "down" => records'[w] = f)
               \/ send'[s].dir = f /\ send'[s].at = "recording"
    <3>1. CASE send'[s].at = "recording" /\ send'[s].dir = send[s].dir
      BY <2>3, <3>1
    <3>2. CASE SendRecord(s)
      <4>0. PICK w \in Workspaces, g \in Folders : Records(s, w, g)
        BY <3>2, RecordDoes
      <4>1. /\ g = f
            /\ \/ records'[w] = g /\ disk'.records = records'
               \/ disk'.folders[g] = Absent
        BY <2>3, <4>0 DEF Records
      <4>2. disk'.folders[f] # Absent
        BY DEF Absent
      <4> QED
        BY <4>1, <4>2
    <3> QED
      BY <1>0, <2>3, <3>1, <3>2 DEF Moves
  <2> QED
    BY <2>1, <2>2, <2>3
<1> QED
  BY <1>2, <1>3

\* A cleanup leaves its workspace only when it ends.
LEMMA CleanupLeaves ==
    ASSUME Types, Phases, Cleanups, Associations, [Next]_vars, NEW c \in Cleaners, cleaner[c].at # "none", cleaner'[c].ws # cleaner[c].ws
    PROVE  Ended \/ CleanupOpen(c) \/ CleanupRemove(c) \/ CleanupClear(c)
<1>1. ASSUME NEW d \in Cleaners, d # c, OneCleanup(d) PROVE FALSE
  BY <1>1 DEF OneCleanup
<1>2. ASSUME UNCHANGED cleaner PROVE FALSE
  BY <1>2
<1>3. ASSUME NEW d \in Cleaners, CleanupStep(d) PROVE CleanupOpen(c) \/ CleanupRemove(c) \/ CleanupClear(c)
  <2>1. CASE CleanupStop(d)
    <3>1. /\ OneCleanup(d) /\ cleaner'[d].ws = cleaner[d].ws
      BY <2>1, CleanupStopDoes
    <3> QED
      BY <1>1, <3>1
  <2>2. CASE CleanupAnnounce(d)
    BY <1>1, <2>2, AnnounceDoes
  <2>3. CASE CleanupOpen(d)
    <3>0. PICK w \in Workspaces : Opens(d, w)
      BY <2>3, CleanupOpenDoes
    <3>1. OneCleanup(d)
      BY <3>0 DEF Opens
    <3> QED
      BY <1>1, <2>3, <3>1
  <2>4. CASE CleanupRemove(d)
    <3>0. PICK w \in Workspaces, f \in Folders : Removes(d, w, f)
      BY <2>4, RemoveDoes
    <3>1. OneCleanup(d)
      BY <3>0 DEF Removes
    <3> QED
      BY <1>1, <2>4, <3>1
  <2>5. CASE CleanupClear(d)
    <3>0. PICK w \in Workspaces : Clears(d, w)
      BY <2>5, ClearDoes
    <3>1. OneCleanup(d)
      BY <3>0 DEF Clears
    <3> QED
      BY <1>1, <2>5, <3>1
  <2> QED
    BY <1>3, <2>1, <2>2, <2>3, <2>4, <2>5 DEF CleanupStep
<1>4. ASSUME ObservePublishedSnapshot PROVE FALSE
  BY <1>4, ObserveDoes
<1>5. ASSUME NEW s \in Sends, SendStep(s) PROVE UNCHANGED cleaner
  <2>1. CASE Walk(s)
    BY <2>1, WalkDoes DEF Walks, memory
  <2> QED
    BY <1>5, <2>1 DEF SendStep, Walk, SendReuse, SendCreate, SendRecord, SendReserve, SendRollback, SendRelease, memory
<1>6. ASSUME CloseStep PROVE UNCHANGED cleaner \/ Ended
  BY <1>6 DEF CloseStep, CloseGates, CloseStop, CloseLock, Exit
<1> QED
  BY <1>2, <1>3, <1>4, <1>5, <1>6
     DEF Next, Open, Crash, CloseBegin, Vanish, Publish, SendBegin, vars, memory

\* What Gone says of one workspace.
LeftOf(w) == /\ \A s \in Sends : send[s].ws = w => send[s].at \in Outside
             /\ records[w] # None => Exists(records[w]) /\ ~Verified(records[w])

LEMMA LeftStays ==
    ASSUME Types, Phases, Cleanups, Associations, Owners, Fresh, [Next]_vars, NEW w \in Workspaces,
           process = "up", w \notin home, \A c \in Cleaners : cleaner[c].ws # w, vanished' = 0, LeftOf(w)
    PROVE  LeftOf(w)'
<1>1. \A s \in Sends : Moves(s)
  BY SendsMove
<1>2. \A s \in Sends : send'[s].ws = w => send'[s].at \in Outside
  BY <1>1 DEF LeftOf, Moves
<1>3. records'[w] \in {None, records[w]}
  <2>1. CASE Settles
    BY <2>1 DEF Settles, Lasts
  <2>2. ASSUME NEW s \in Sends, SendReuse(s) PROVE records' = records
    BY <2>2 DEF SendReuse
  <2>3. ASSUME NEW s \in Sends, NEW f \in Folders, SendCreate(s, f) PROVE records' = records
    BY <2>3 DEF SendCreate
  <2>4. ASSUME NEW s \in Sends, SendRecord(s) PROVE records'[w] = records[w]
    <3>0. PICK v \in Workspaces, f \in Folders : Records(s, v, f)
      BY <2>4, RecordDoes
    <3>1. OneRecord(v) /\ v = send[s].ws /\ send[s].at = "recording"
      BY <3>0 DEF Records
    <3> QED
      BY <3>1 DEF OneRecord, LeftOf, Outside
  <2>5. ASSUME Open PROVE FALSE
    BY <2>5 DEF Open
  <2> QED
    BY <2>1, <2>2, <2>3, <2>4, <2>5, Settling
<1>4. ASSUME NEW f \in Folders, records[w] = f
      PROVE  disk'.folders[f].there /\ Marker \notin disk'.folders[f].entries
  <2>1. /\ disk.folders[f].there /\ Marker \notin disk.folders[f].entries /\ Owns(w, f)
    BY <1>4, NothingIsNone DEF LeftOf, Exists, Verified, Owns
  <2>2. f \in made /\ f # None
    BY <2>1, NothingIsNone DEF Owners
  <2>3. ASSUME NEW c \in Cleaners, CleanupRemove(c), f = gate[cleaner[c].ws].directory PROVE FALSE
    <3>1. cleaner[c].at = "removing"
      BY <2>3 DEF CleanupRemove
    <3>2. PICK v \in Workspaces : v = cleaner[c].ws
      BY <3>1, CleanupHasGate
    <3>3. Owns(v, f)
      BY <2>2, <2>3, <3>2 DEF Associations, Owns
    <3> QED
      BY <2>1, <3>2, <3>3 DEF Owners
  <2>4. ASSUME NEW s \in Sends, SendRecord(s), send[s].dir = f PROVE FALSE
    BY <1>4, <2>4 DEF SendRecord, Fresh
  <2>5. FolderMoves(f)
    BY FoldersMove
  <2> QED
    BY <2>1, <2>2, <2>3, <2>4, <2>5 DEF FolderMoves
<1>5. records[w] \in Folders \cup {None}
  BY DEF Types
<1>6. records'[w] # None => disk'.folders[records'[w]].there /\ Marker \notin disk'.folders[records'[w]].entries
  BY <1>3, <1>4, <1>5
<1> QED
  BY <1>2, <1>6 DEF LeftOf, Exists, Verified

LEMMA GoneNext ==
    ASSUME Types, Phases, Cleanups, Associations, Owners, Fresh, Down, Present, Lives, Gone, [Next]_vars
    PROVE  Gone'
<1> SUFFICES ASSUME NEW w \in Workspaces, process' = "up", watch'.observed, w \notin home', w \notin watch'.workspaces,
                    faults' = 0, vanished' = 0, \A c \in Cleaners : cleaner'[c].ws # w
             PROVE  LeftOf(w)'
  BY DEF Gone, LeftOf
<1>0. faults = 0 /\ vanished = 0 /\ w # None
  BY CountsGrow, NothingIsNone
<1>1. ASSUME process = "up", watch.observed, w \notin home, w \notin watch.workspaces, \A c \in Cleaners : cleaner[c].ws # w
      PROVE  LeftOf(w)'
  <2>1. LeftOf(w)
    BY <1>0, <1>1 DEF Gone, LeftOf
  <2> QED
    BY <1>1, <2>1, LeftStays
\* The cleanup of the workspace ends.
<1>2. ASSUME UNCHANGED <<process, home, watch>>, NEW c \in Cleaners, cleaner[c].ws = w PROVE LeftOf(w)'
  <2>0. cleaner[c].at # "none" /\ cleaner'[c].ws # cleaner[c].ws
    BY <1>0, <1>2 DEF Cleanups
  <2>1. ASSUME UNCHANGED send, Inside(w) = {} PROVE \A s \in Sends : send'[s].ws = w => send'[s].at \in Outside
    BY <2>1 DEF Inside, Outside
  <2>2. faults' # faults + 1
    BY <1>0
  <2>3. CASE CleanupOpen(c)
    <3>0. PICK v \in Workspaces : Opens(c, v)
      BY <2>3, CleanupOpenDoes
    <3>1. /\ v = w /\ UNCHANGED <<send, records, disk>> /\ Inside(w) = {}
          /\ \/ records[w] = None
             \/ ~Verified(records[w]) /\ (Exists(records[w]) \/ gate[w].directory # None)
      BY <1>2, <2>0, <2>2, <3>0 DEF Opens
    <3>2. gate[w].directory # None => Exists(records[w])
      BY <1>0 DEF Associations, Present
    <3>3. records'[w] # None => /\ records'[w] = records[w] /\ disk'.folders[records[w]].there
                                /\ Marker \notin disk'.folders[records[w]].entries
      BY <3>1, <3>2 DEF Exists, Verified
    <3> QED
      BY <2>1, <3>1, <3>3 DEF LeftOf, Exists, Verified
  <2>4. CASE CleanupRemove(c)
    <3>0. PICK v \in Workspaces, f \in Folders : Removes(c, v, f)
      BY <2>4, RemoveDoes
    <3>1. v = w /\ f = gate[w].directory /\ cleaner[c].at = "removing" /\ ~Exists(f)
      BY <1>2, <2>0, <2>2, <3>0 DEF Removes
    <3> QED
      BY <1>0, <1>2, <3>1 DEF Cleanups, Present
  <2>5. CASE CleanupClear(c)
    <3>0. PICK v \in Workspaces : Clears(c, v)
      BY <2>5, ClearDoes
    <3>1. v = w /\ UNCHANGED send /\ cleaner[c].at = "clearing" /\ records'[w] = None
      BY <1>2, <2>0, <2>2, <3>0 DEF Clears
    <3>2. Inside(w) = {}
      BY <1>2, <3>1 DEF Cleanups
    <3> QED
      BY <2>1, <3>1, <3>2 DEF LeftOf
  <2>6. CASE Ended
    BY <2>6, EndedDoes
  <2> QED
    BY <2>0, <2>3, <2>4, <2>5, <2>6, CleanupLeaves
<1>3. CASE UNCHANGED <<process, home, observing, watch, life>>
  BY <1>1, <1>2, <1>3
<1>4. CASE Open
  BY <1>4, OpenDoes DEF Down
<1>5. CASE Ended
  BY <1>5, EndedDoes
<1>6. ASSUME NEW workspaces \in SUBSET Workspaces, Publish(workspaces) PROVE LeftOf(w)'
  <2>1. UNCHANGED <<process, watch, cleaner>> /\ ~observing
    BY <1>6, PublishDoes
  <2>2. w \notin home
    BY <2>1 DEF Lives
  <2> QED
    BY <1>1, <2>1, <2>2
<1>7. CASE ObservePublishedSnapshot
  <2>1. /\ UNCHANGED <<process, home, records, send, disk>>
        /\ \A c \in Cleaners : cleaner'[c] = cleaner[c] \/ cleaner[c].at = "none"
        /\ \A v \in Started : \E c \in Cleaners : cleaner'[c].ws = v
    BY <1>7, ObserveDoes
  <2>2. w \notin missing
    BY <2>1 DEF Started
  <2>3. \A c \in Cleaners : cleaner[c].ws # w
    BY <1>0, <2>1 DEF Cleanups
  <2>4. CASE watch.observed
    <3>1. w \notin watch.workspaces
      BY <2>1, <2>2, <2>4 DEF missing
    <3> QED
      BY <1>1, <2>1, <2>3, <2>4, <3>1
  <2>5. CASE ~watch.observed
    <3>1. records[w] = None
      BY <2>1, <2>2, <2>5 DEF missing
    <3>2. \A s \in Sends : send[s].ws = w => send[s].at \in {"new", "done"}
      BY <2>1, <2>5 DEF Lives
    <3>3. \A s \in Sends : send'[s].ws = w => send'[s].at \in Outside
      BY <2>1, <3>2 DEF Outside
    <3> QED
      BY <2>1, <3>1, <3>3 DEF LeftOf
  <2> QED
    BY <2>4, <2>5
<1> QED
  BY <1>3, <1>4, <1>5, <1>6, <1>7, WatchMoves

LEMMA ForwardedNext ==
    ASSUME Types, Phases, Cleanups, Associations, Owners, Files, Present, Crews, Blank, ForwardedFilesRemain, [Next]_vars
    PROVE  ForwardedFilesRemain'
<1> SUFFICES ASSUME NEW s \in Sends, send'[s].result \in Kept, s \notin cleared', vanished' = 0
             PROVE  \E f \in Folders : s \in disk'.folders[f].entries
  BY DEF ForwardedFilesRemain, Kept
<1>1. /\ send[s].result \in Kept \/ send[s].at = "forwarding"
      /\ s \notin cleared /\ vanished = 0 /\ Moves(s)
  BY SendsMove, CountsGrow DEF Moves
<1>2. PICK f \in Folders : s \in disk.folders[f].entries
  <2>1. CASE send[s].result \in Kept
    BY <1>1, <2>1 DEF ForwardedFilesRemain, Kept
  <2>2. CASE send[s].at = "forwarding"
    <3>1. send[s].dir \in Folders
      BY <2>2, SendHasFolder DEF Holding
    <3> QED
      BY <1>1, <2>2, <3>1 DEF Present
  <2> QED
    BY <1>1, <2>1, <2>2
<1>3. send[s].at # "rollback"
  BY <1>1 DEF Phases, PhaseOK, Kept, Failed
<1>4. f \in made
  BY <1>2 DEF Owners, Absent, NoDir
<1>5. ASSUME NEW r \in Sends, SendRecord(r), send[r].dir = f PROVE FALSE
  <2>1. send[r].at = "recording"
    BY <1>5 DEF SendRecord
  <2>2. disk.folders[f].entries \subseteq {Marker}
    BY <1>5, <2>1 DEF Blank
  <2> QED
    BY <1>2, <2>2, MarkerIsNoFile
<1>6. ASSUME NEW c \in Cleaners, CleanupRemove(c), f = gate[cleaner[c].ws].directory PROVE FALSE
  <2>1. cleaner[c].at = "removing"
    BY <1>6 DEF CleanupRemove
  <2>2. PICK w \in Workspaces : w = cleaner[c].ws
    BY <2>1, CleanupHasGate
  <2>3. Owns(w, f)
    BY <1>6, <2>2, NothingIsNone DEF Associations, Owns
  <2>4. send[s].ws = w
    BY <1>2, <2>3 DEF Files
  <2> QED
    BY <1>1, <2>1, <2>2, <2>4 DEF Crews
<1>7. FolderMoves(f)
  BY FoldersMove
<1> QED
  BY <1>2, <1>3, <1>4, <1>5, <1>6, <1>7 DEF FolderMoves

-----------------------------------------------------------------------------
(***************************************************************************)
(* The theorems.                                                           *)
(***************************************************************************)

LEMMA BaseInit == ASSUME Init PROVE Base
<1>1. /\ \A s \in Sends : /\ send[s].at = "new" /\ send[s].ws = None /\ send[s].dir = None
                          /\ send[s].stopped = FALSE /\ send[s].result = "none"
      /\ send \in [Sends -> Send]
  BY DEF Init, NoSend, Send, Phase, Result
<1>2. \A w \in Workspaces : /\ gate[w] = NewGate(None) /\ records[w] = None /\ disk.records[w] = None
  BY DEF Init
<1>3. \A w \in Workspaces : gate[w].association = None /\ gate[w].directory = None /\ gate[w].setup = None /\ gate[w].open = TRUE
  BY <1>2, NewGateFields
<1>4. /\ \A c \in Cleaners : cleaner[c].at = "none" /\ cleaner[c].ws = None
      /\ cleaner \in [Cleaners -> Cleanup]
  BY DEF Init, NoCleanup, Cleanup
<1>5. \A f \in Folders : disk.folders[f] = Absent /\ handle[f] = NoHandle
  BY DEF Init
<1>6. Types
  <2>1. NewGate(None) \in Gate
    BY DEF NewGate, Gate
  <2>2. gate \in [Workspaces -> Gate]
    BY <2>1 DEF Init
  <2>3. handle \in [Folders -> [open : BOOLEAN, users : Int]]
    BY DEF Init, NoHandle
  <2>4. disk \in [records : [Workspaces -> Folders \cup {None}], folders : [Folders -> Folder]]
    BY DEF Init, Absent, NoDir, Folder
  <2>5. closing \in [stop : SUBSET Workspaces, lock : SUBSET Workspaces, done : SUBSET Workspaces]
    BY DEF Init, NotClosing
  <2>6. watch \in [observed : BOOLEAN, workspaces : SUBSET Workspaces]
    BY DEF Init
  <2>7. /\ process \in {"down", "up", "closing", "stopping"} /\ home \subseteq Workspaces /\ observing \in BOOLEAN
        /\ records \in [Workspaces -> Folders \cup {None}]
        /\ made \subseteq Folders /\ life \in [Workspaces -> {"new", "present", "gone"}] /\ cleared \subseteq Sends
    BY DEF Init
  <2>8. /\ published \in 0 .. MaxPublications /\ faults \in 0 .. MaxFaults
        /\ crashes \in 0 .. MaxCrashes /\ vanished \in 0 .. MaxVanished
    BY UploadBoundsAreNaturals DEF Init
  <2> QED
    BY <1>1, <1>4, <2>2, <2>3, <2>4, <2>5, <2>6, <2>7, <2>8 DEF Types
<1>7. Phases /\ Bare /\ Fresh
  BY <1>1 DEF Phases, PhaseOK, Holding, Answering, Bare, Fresh
<1>8. Setups
  BY <1>1, <1>3, NothingIsNone DEF Setups
<1>9. Down
  <2>1. \A s \in Sends : send[s].at \in {"new", "done"}
    BY <1>1
  <2> QED
    BY <1>2, <2>1 DEF Init, Down
<1>10. Associations
  BY <1>2, <1>3 DEF Associations
<1>11. Owners
  <2>1. \A w \in Workspaces, f \in Folders : ~Owns(w, f)
    BY <1>1, <1>2, NothingIsNone DEF Owns
  <2> QED
    BY <1>5, <2>1 DEF Owners
<1>12. Cleanups
  BY <1>4 DEF Cleanups, Excluding
<1>13. Closed
  <2>1. closing.stop = {} /\ closing.lock = {} /\ closing.done = {}
    BY DEF Init, NotClosing
  <2> QED
    BY <2>1 DEF Init, Closed
<1>14. HandlesAreHeld
  <2>1. ASSUME NEW f \in Folders PROVE HandleOK(f)
    <3>1. Users(f) = {}
      BY <1>1, NothingIsNone DEF Users
    <3>2. Cardinality(Users(f)) = 0
      BY <3>1, FS_EmptySet
    <3>3. handle[f].open = FALSE /\ handle[f].users = 0
      BY <1>5 DEF NoHandle
    <3>4. \A s \in Sends : send[s].dir # f
      BY <1>1, NothingIsNone
    <3>5. \A w \in Workspaces : gate[w].directory # f
      BY <1>3, NothingIsNone
    <3> HIDE DEF Users
    <3> QED
      BY <3>2, <3>3, <3>4, <3>5 DEF HandleOK
  <2> QED
    BY <2>1, HandlesAre
<1>15. Files
  BY <1>5 DEF Files, Absent, NoDir
<1>16. Present
  BY <1>1, <1>3 DEF Present
<1> QED
  BY <1>6, <1>7, <1>8, <1>9, <1>10, <1>11, <1>12, <1>13, <1>14, <1>15, <1>16 DEF Base

\* Base is an invariant: who owns a folder, who is alone in a gate, which
\* handle is open and which file is where (manager.go:245-731).
THEOREM UploadsBase == Spec => []Base
<1>1. Init => Base
  BY BaseInit
<1>2. Base /\ [Next]_vars => Base'
  <2> SUFFICES ASSUME Base, [Next]_vars PROVE Base'
    OBVIOUS
  <2>1. /\ Types /\ Phases /\ Setups /\ Down /\ Associations /\ Owners /\ Fresh /\ Bare
        /\ Cleanups /\ Closed /\ HandlesAreHeld /\ Files /\ Present
    BY DEF Base
  <2>2. Types' /\ Phases' /\ Setups' /\ Down'
    BY <2>1, TypesNext, PhasesNext, SetupsNext, DownNext
  <2>3. Associations' /\ Owners' /\ Fresh' /\ Bare'
    BY <2>1, AssociationsNext, OwnersNext, FreshNext, BareNext
  <2>4. Cleanups' /\ Closed' /\ HandlesAreHeld'
    BY <2>1, CleanupsNext, ClosedNext, HandlesNext
  <2>5. Files' /\ Present'
    BY <2>1, FilesNext, PresentNext
  <2> QED
    BY <2>2, <2>3, <2>4, <2>5 DEF Base
<1> QED
  BY <1>1, <1>2, PTL DEF Spec

LEMMA HoldersHaveOpenFolders == ASSUME Base PROVE FoldersInUseStay
<1> SUFFICES ASSUME NEW s \in Sends, send[s].dir # None
             PROVE  handle[send[s].dir].open /\ (vanished = 0 => Verified(send[s].dir))
  BY DEF FoldersInUseStay
<1>1. send[s].dir \in Folders
  BY DEF Base, Types, Send
<1>2. handle[send[s].dir].open
  BY <1>1 DEF Base, HandlesAreHeld, Using
<1> QED
  BY <1>2 DEF Base, Present

\* A workspace's folder never goes while a send uses it, unless something else
\* removes it, and the send's handle is open: cleanup holds the gate alone and
\* a dropped handle closes with its last send (manager.go:305-352, 511-569).
THEOREM UsedFoldersStay == Spec => []FoldersInUseStay
<1>1. Base => FoldersInUseStay
  BY HoldersHaveOpenFolders
<1> QED
  BY <1>1, UploadsBase, PTL


LEMMA HistoryInit == ASSUME Init PROVE History
<1>1. \A s \in Sends : send[s].at = "new" /\ send[s].ws = None /\ send[s].dir = None /\ send[s].result = "none"
  BY DEF Init, NoSend
<1>2. \A w \in Workspaces : records[w] = None /\ disk.records[w] = None /\ life[w] = "new"
  BY DEF Init
<1>3. \A c \in Cleaners : cleaner[c].at = "none"
  BY DEF Init, NoCleanup
<1>4. \A f \in Folders : ~Exists(f)
  BY DEF Init, Exists, Absent
<1>5. /\ process = "down" /\ home = {} /\ observing = FALSE /\ watch.workspaces = {} /\ watch.observed = FALSE
  BY DEF Init
<1>6. Lives
  BY <1>1, <1>2, <1>5, NothingIsNone DEF Lives
<1>7. Crews /\ Marks /\ Blank /\ Recorded
  BY <1>1, <1>3, <1>4 DEF Crews, Marks, Blank, Recorded
<1>8. Agreed /\ Gone
  BY <1>5 DEF Agreed, Running, Gone
<1>9. ForwardedFilesRemain
  BY <1>1 DEF ForwardedFilesRemain
<1> QED
  BY <1>6, <1>7, <1>8, <1>9 DEF History

LEMMA HistoryNext ==
    ASSUME Base, History, ~IDsReturn, [Next]_vars
    PROVE  History'
<1>1. /\ Types /\ Phases /\ Down /\ Associations /\ Owners /\ Fresh /\ Cleanups /\ Files /\ Present
  BY DEF Base
<1>2. Lives /\ Crews /\ Marks /\ Blank /\ Recorded /\ Agreed /\ Gone /\ ForwardedFilesRemain
  BY DEF History
<1>3. Lives' /\ Crews' /\ Marks'
  BY <1>1, <1>2, LivesNext, CrewsNext, MarksNext
<1>4. Blank' /\ Recorded' /\ Agreed'
  BY <1>1, <1>2, BlankNext, RecordedNext, AgreedNext
<1>5. Gone' /\ ForwardedFilesRemain'
  BY <1>1, <1>2, GoneNext, ForwardedNext
<1> QED
  BY <1>3, <1>4, <1>5 DEF History

\* Where IDs do not return, History holds too: a workspace that is cleaned up
\* is gone for good, and what is left of it is what its cleanup left
\* (manager.go:147-243, 511-569).
THEOREM UploadsHistory == ~IDsReturn => (Spec => [](Base /\ History))
<1> SUFFICES ASSUME ~IDsReturn PROVE Spec => [](Base /\ History)
  OBVIOUS
<1>1. Init => History
  BY HistoryInit
<1>2. Base /\ History /\ [Next]_vars => History'
  BY HistoryNext
<1> QED
  BY <1>1, <1>2, UploadsBase, PTL DEF Spec

LEMMA UploadsAreTyped == ASSUME Base PROVE UploadsTypeOK
<1>1. /\ Types /\ HandlesAreHeld
  BY DEF Base
<1>2. ASSUME NEW f \in Folders PROVE handle[f].users \in 0 .. Cardinality(Sends)
  <2> DEFINE U == {s \in Using(f) : send[s].at # "recording"}
  <2>1. U \subseteq Sends
    BY DEF Using
  <2>2. IsFiniteSet(U) /\ Cardinality(U) <= Cardinality(Sends)
    BY <2>1, SendsAreFinite, FS_Subset
  <2>3. Cardinality(U) \in Nat /\ Cardinality(Sends) \in Nat
    BY <2>2, SendsAreFinite, FS_CardinalityType
  <2>4. handle[f].users = Cardinality(U)
    BY <1>1 DEF HandlesAreHeld
  <2> HIDE DEF U
  <2> QED
    BY <2>2, <2>3, <2>4
<1>3. handle \in [Folders -> [open : BOOLEAN, users : 0 .. Cardinality(Sends)]]
  BY <1>1, <1>2 DEF Types
<1> QED
  BY <1>1, <1>3 DEF Types, Send, Phase, Result, Cleanup, Folder, UploadsTypeOK

LEMMA LockedGatesAreClean == ASSUME Base PROVE ClosedGatesAreClean
<1> SUFFICES ASSUME NEW w \in closing.done
             PROVE  /\ Inside(w) = {} /\ gate[w].directory = None /\ ~gate[w].open
                    /\ gate[w].association # None /\ faults = 0 =>
                         disk.folders[gate[w].association].entries \subseteq
                             {Marker} \cup {s \in Sends : send[s].result \in {"forwarded", "unknown", "lost"}}
  BY DEF ClosedGatesAreClean
<1>0. /\ Types /\ Phases /\ Associations /\ Closed /\ Files
  BY DEF Base
<1>1. w \in Workspaces
  BY <1>0 DEF Types
<1>2. Inside(w) = {} /\ gate[w].directory = None /\ ~gate[w].open
  BY <1>0 DEF Closed
<1>3. ASSUME gate[w].association # None, faults = 0, NEW s \in disk.folders[gate[w].association].entries, s # Marker
      PROVE  s \in Sends /\ send[s].result \in {"forwarded", "unknown", "lost"}
  <2> DEFINE f == gate[w].association
  <2>1. f \in Folders /\ records[w] = f
    BY <1>0, <1>1, <1>3 DEF Types, Associations
  <2>2. s \in Sends
    BY <1>0, <1>3, <2>1 DEF Types, Folder
  <2>3. send[s].ws = w
    BY <1>0, <1>1, <1>3, <2>1, <2>2 DEF Files, Owns
  <2>4. send[s].at = "done"
    BY <1>0, <1>2, <1>3, <2>1, <2>2, <2>3 DEF Files, Inside
  <2>5. send[s].result \notin Failed
    BY <1>0, <1>3, <2>1, <2>2, <2>4 DEF Files
  <2>6. send[s].result # "none" /\ send[s].result \in Result
    BY <1>0, <2>2, <2>4 DEF Phases, PhaseOK, Answering, Types, Send
  <2> QED
    BY <2>2, <2>5, <2>6 DEF Failed, Result
<1> QED
  BY <1>2, <1>3

LEMMA UploadsDoAgree == ASSUME Base, History PROVE UploadsAgree
<1>0. Types /\ Phases /\ HandlesAreHeld /\ Files /\ Crews /\ Recorded
  BY DEF Base, History
<1>1. UploadsTypeOK /\ ClosedGatesAreClean
  BY UploadsAreTyped, LockedGatesAreClean
<1>2. FoldersAreRecorded
  BY <1>0 DEF Recorded, FoldersAreRecorded, Running
<1>3. FailedSendsLeaveNothing
  BY <1>0 DEF Files, Failed, FailedSendsLeaveNothing
<1>4. WaitingCleanupsStopSends
  BY <1>0 DEF Crews, WaitingCleanupsStopSends
<1> QED
  BY <1>0, <1>1, <1>2, <1>3, <1>4 DEF UploadsAgree

LEMMA AbsentOnesAreCleared == ASSUME Base, History PROVE AbsentWorkspacesAreCleared
<1> SUFFICES ASSUME NEW w \in Workspaces \ home, process = "up", watch.observed, ~observing, faults = 0, vanished = 0,
                    \A c \in Cleaners : cleaner[c].at = "none" \/ cleaner[c].ws # w
             PROVE  \/ gate[w].association = None /\ disk.records[w] = None
                    \/ Exists(disk.records[w]) /\ ~Verified(disk.records[w])
  BY DEF AbsentWorkspacesAreCleared
<1>0. Types /\ Associations /\ Cleanups /\ Lives /\ Agreed /\ Gone
  BY DEF Base, History
<1>1. w \notin home \cup watch.workspaces
  BY <1>0 DEF Lives
<1>2. \A c \in Cleaners : cleaner[c].ws # w
  BY <1>0, NothingIsNone DEF Cleanups
<1>3. records[w] # None => Exists(records[w]) /\ ~Verified(records[w])
  BY <1>0, <1>1, <1>2 DEF Gone
<1>4. disk.records[w] = records[w] /\ gate[w].association = records[w]
  BY <1>0 DEF Agreed, Running, Associations
<1> QED
  BY <1>3, <1>4

\* Records, gates, handles and folders agree, whatever failed and whoever
\* waits: a folder there is recorded, a failed send leaves no file, a handle
\* counts its sends, and Close leaves its gates clean (manager.go:245-731).
THEOREM UploadsStayInAgreement == ~IDsReturn => (Spec => []UploadsAgree)
<1>1. Base /\ History => UploadsAgree
  BY UploadsDoAgree
<1> QED
  BY <1>1, UploadsHistory, PTL

\* A file whose path may be in a terminal stays until its workspace was
\* observed absent after the send's last validation (manager.go:252-322).
THEOREM ForwardedFilesStay == ~IDsReturn => (Spec => []ForwardedFilesRemain)
<1>1. Base /\ History => ForwardedFilesRemain
  BY DEF History
<1> QED
  BY <1>1, UploadsHistory, PTL

\* Once its cleanup is done, an absent workspace has no record and no
\* association, or a folder that lost its marker to a cleanup that failed
\* (manager.go:511-569).
THEOREM AbsentWorkspacesStayCleared == ~IDsReturn => (Spec => []AbsentWorkspacesAreCleared)
<1>1. Base /\ History => AbsentWorkspacesAreCleared
  BY AbsentOnesAreCleared
<1> QED
  BY <1>1, UploadsHistory, PTL

=============================================================================
