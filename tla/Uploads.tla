------------------------------ MODULE Uploads ------------------------------
(***************************************************************************)
(* The folders that keep files sent to a workspace's terminals             *)
(* (internal/uploads/manager.go, files.go, store.go), the file send that   *)
(* stages into them and forwards the paths (internal/server/               *)
(* file_uploads.go), and the cleanup that follows the projector's          *)
(* published states.                                                       *)
(*                                                                         *)
(* A send carries one file, named after the send.  What runs under a       *)
(* gate's setup mutex is one step, except that a new folder and its record *)
(* are two, with the mutex held in between.  The gate's read-write mutex   *)
(* is the phase of the sends and cleanups on it: a cleanup that has        *)
(* announced itself keeps later sends out and waits for the ones inside.   *)
(***************************************************************************)
EXTENDS Naturals, FiniteSets

CONSTANTS
    Workspaces,       \* Herdr workspace IDs
    Sends,            \* file sends, one HTTP request each
    Cleaners,         \* bound on cleanup goroutines at one time
    Folders,          \* the folder names createAssociation may make
    IDsReturn,        \* whether an ID may be present again after it was absent
    MaxPublications,  \* bound on published states
    MaxFaults,        \* bound on file system calls that fail
    MaxCrashes,       \* bound on process ends without Close
    MaxVanished,      \* bound on folders something else removes
    None              \* no workspace, folder or send

ASSUME UploadBoundsAreNaturals ==
    {MaxPublications, MaxFaults, MaxCrashes, MaxVanished} \subseteq Nat
ASSUME IDsReturnIsBoolean == IDsReturn \in BOOLEAN
ASSUME NothingIsNone == None \notin Workspaces \cup Folders \cup Sends
ASSUME SendsAreFinite == IsFiniteSet(Sends)

VARIABLES
    process,   \* "down", "up", "closing" (Manager.closed), or "stopping" its gates
    home,      \* workspaces in the state Home last published
    observing, \* whether that state has yet to reach ObservePublishedSnapshot
    watch,     \* Manager.observed and Manager.workspaces
    records,   \* Manager.records: each workspace's folder
    gate,      \* the workspace gates
    handle,    \* each folder's ownedDirectory: whether it is open, and its users
    send,      \* each send's phase
    cleaner,   \* each cleanup goroutine's phase
    closing,   \* Close: gates it has yet to stop and to lock, and those it locked
    disk,      \* uploads.json and the folders' entries
    made,      \* folder names used so far
    life,      \* each workspace: "new", "present", or "gone" from the published states
    cleared,   \* sends whose workspace was observed absent after their last validation
    published, faults, crashes, vanished  \* how often each bounded event happened

memory  == <<home, observing, watch, records, gate, handle, cleaner, closing>>
history == <<life, cleared>>
bounds  == <<published, faults, crashes, vanished>>
vars    == <<process, memory, send, disk, made, history, bounds>>

Marker == "marker"   \* the .shepherdr-upload entry of a folder
NoDir  == {}         \* the entries of a folder that is not there
ASSUME MarkerIsNoFile == Marker \notin Sends  \* safeBasename avoids its name
Gate   == [known : BOOLEAN, open : BOOLEAN, association : Folders \cup {None},
           directory : Folders \cup {None}, setup : Sends \cup {None}]

NewGate(record) == [known |-> record # None, open |-> TRUE, association |-> record,
                    directory |-> None, setup |-> None]
NoHandle  == [open |-> FALSE, users |-> 0]
NoCleanup == [at |-> "none", ws |-> None]
NoSend    == [at |-> "new", ws |-> None, dir |-> None,
              stopped |-> FALSE, result |-> "none"]
NotClosing == [stop |-> {}, lock |-> {}, done |-> {}]

Running  == process # "down"
\* The sends that hold a workspace's gate.
Inside(w) == {s \in Sends : send[s].ws = w /\ send[s].at \notin {"new", "gate", "done"}}
\* The cleanups that have announced themselves on it, one at most.
Excluding(w) == {c \in Cleaners : /\ cleaner[c].ws = w
                                  /\ cleaner[c].at \in {"announced", "removing", "clearing"}}
Using(f) == {s \in Sends : send[s].dir = f}

-----------------------------------------------------------------------------
(***************************************************************************)
(* The disk.  A folder is there when it has entries or is being emptied;   *)
(* verifyOwnedDirectory accepts one that is there with its marker.         *)
(***************************************************************************)

Exists(f)   == f # None /\ disk.folders[f].there
Verified(f) == Exists(f) /\ Marker \in disk.folders[f].entries
Absent      == [there |-> FALSE, entries |-> NoDir]

\* A file system call that fails is counted, and there are at most MaxFaults.
Fault == faults < MaxFaults /\ faults' = faults + 1

\* replaceRecord, which ends "done", "failed" before the rename, or "unsynced"
\* with the new file in place and an error from the directory's sync.
WriteOutcomes == {"done", "failed", "unsynced"}
replaceRecord(w, f, outcome) ==
    LET updated == [records EXCEPT ![w] = f] IN
    /\ records' = IF outcome = "done" THEN updated ELSE records
    /\ IF outcome = "done" THEN UNCHANGED faults ELSE Fault
Written(w, f, outcome) ==
    IF outcome = "failed" THEN disk.records ELSE [records EXCEPT ![w] = f]

-----------------------------------------------------------------------------
Init ==
    /\ process = "down"
    /\ home = {} /\ observing = FALSE
    /\ watch = [observed |-> FALSE, workspaces |-> {}]
    /\ records = [w \in Workspaces |-> None]
    /\ gate = [w \in Workspaces |-> NewGate(None)]
    /\ handle = [f \in Folders |-> NoHandle]
    /\ send = [s \in Sends |-> NoSend]
    /\ cleaner = [c \in Cleaners |-> NoCleanup]
    /\ closing = NotClosing
    /\ disk = [records |-> [w \in Workspaces |-> None],
               folders |-> [f \in Folders |-> Absent]]
    /\ made = {} /\ life = [w \in Workspaces |-> "new"] /\ cleared = {}
    /\ published = 0 /\ faults = 0 /\ crashes = 0 /\ vanished = 0

\* Open: the recorded folders become the gates' associations; none is opened yet.
Open ==
    /\ process = "down"
    /\ process' = "up"
    /\ records' = disk.records
    /\ gate' = [w \in Workspaces |-> NewGate(disk.records[w])]
    /\ UNCHANGED <<home, observing, watch, handle, send, cleaner, closing, disk, made,
                   history, bounds>>

\* What the process knew is gone; its sends end without an answer.
Ended ==
    /\ process' = "down"
    /\ home' = {} /\ observing' = FALSE
    /\ watch' = [observed |-> FALSE, workspaces |-> {}]
    /\ records' = [w \in Workspaces |-> None]
    /\ gate' = [w \in Workspaces |-> NewGate(None)]
    /\ handle' = [f \in Folders |-> NoHandle]
    /\ send' = [s \in Sends |->
                  IF send[s].at \in {"new", "done"} THEN send[s]
                  ELSE [send[s] EXCEPT !.at = "done", !.dir = None, !.stopped = FALSE,
                        !.result = IF @ \in {"forwarded", "unknown"} THEN @ ELSE "lost"]]
    /\ cleaner' = [c \in Cleaners |-> NoCleanup]

\* The process is killed.
Crash ==
    /\ Running /\ crashes < MaxCrashes
    /\ Ended
    /\ closing' = NotClosing
    /\ crashes' = crashes + 1
    /\ UNCHANGED <<disk, made, history, published, faults, vanished>>

\* Something else, such as the system's own cleaning of its temporary
\* directory, removes a folder (external).
Vanish(f) ==
    /\ Exists(f) /\ vanished < MaxVanished
    /\ disk' = [disk EXCEPT !.folders[f] = Absent]
    /\ vanished' = vanished + 1
    /\ UNCHANGED <<process, memory, send, made, history, published, faults, crashes>>

-----------------------------------------------------------------------------
(***************************************************************************)
(* Published states, and the cleanups they start.                          *)
(***************************************************************************)

\* publishHome: the state is current before the observer is called.
Publish(workspaces) ==
    /\ Running /\ ~observing /\ published < MaxPublications
    /\ IDsReturn \/ \A w \in workspaces : life[w] # "gone"
    /\ home' = workspaces /\ observing' = TRUE
    /\ life' = [w \in Workspaces |-> IF w \in workspaces THEN "present"
                                     ELSE IF life[w] = "new" THEN "new" ELSE "gone"]
    /\ published' = published + 1
    /\ UNCHANGED <<process, watch, records, gate, handle, send, cleaner, closing, disk, made,
                   cleared, faults, crashes, vanished>>

\* Mutant: the records of an earlier process are not compared.
MissingOnlyLater == IF watch.observed THEN watch.workspaces \ home ELSE {}

\* The first state is compared with the records, a later one with the state
\* before it; each missing workspace gets a cleanup goroutine.
missing ==
    IF watch.observed THEN watch.workspaces \ home
    ELSE {w \in Workspaces : records[w] # None} \ home

ObservePublishedSnapshot ==
    LET started == IF process = "up" THEN missing ELSE {} IN
    /\ observing
    /\ observing' = FALSE
    /\ watch' = IF process = "up" THEN [observed |-> TRUE, workspaces |-> home] ELSE watch
    /\ \E crew \in [started -> {c \in Cleaners : cleaner[c].at = "none"}] :
         /\ \A v, w \in started : v # w => crew[v] # crew[w]
         /\ cleaner' = [c \in Cleaners |->
              IF \E w \in started : crew[w] = c
              THEN [at |-> "begun", ws |-> CHOOSE w \in started : crew[w] = c]
              ELSE cleaner[c]]
    /\ cleared' = cleared \cup {s \in Sends : /\ \/ send[s].at = "forwarding"
                                                 \/ send[s].result \in {"forwarded", "unknown"}
                                              /\ send[s].ws \notin home}
    /\ UNCHANGED <<process, home, records, gate, handle, send, closing, disk, made, life, bounds>>

-----------------------------------------------------------------------------
(***************************************************************************)
(* StageAndForward.                                                        *)
(***************************************************************************)


\* The gate's sends after stopSends.
stopped(w) ==
    [s \in Sends |-> IF s \in Inside(w) THEN [send[s] EXCEPT !.stopped = TRUE] ELSE send[s]]
SetupFree(w) == gate[w].setup = None

\* terminalFileSend resolves the target in the current state and finds the gate.
SendBegin(s, w) ==
    /\ send[s].at = "new" /\ Running /\ w \in home
    /\ send' = [send EXCEPT ![s].at = "gate", ![s].ws = w]
    /\ gate' = [gate EXCEPT ![w].known = TRUE]
    /\ UNCHANGED <<process, home, observing, watch, records, handle, cleaner, closing, disk,
                   made, history, bounds>>

\* The send takes the gate shared; a gate whose open context ended refuses it.
SendEnter(s) ==
    /\ send[s].at = "gate" /\ Excluding(send[s].ws) = {}
    /\ send' = [send EXCEPT ![s] =
         IF gate[@.ws].open THEN [@ EXCEPT !.at = "entered"]
         ELSE [@ EXCEPT !.at = "done", !.result = "not_sent"]]
    /\ UNCHANGED <<process, memory, disk, made, history, bounds>>

\* The target is validated in the state that is current now; the agent may
\* have gone from a workspace that is there.
SendValidate(s) ==
    /\ send[s].at = "entered"
    /\ \E agent \in BOOLEAN :
         send' = [send EXCEPT ![s] =
           IF ~@.stopped /\ @.ws \in home /\ agent THEN [@ EXCEPT !.at = "validated"]
           ELSE [@ EXCEPT !.at = "done", !.result = "not_sent"]]
    /\ UNCHANGED <<process, memory, disk, made, history, bounds>>

\* ensureAssociation finds the gate's folder, or opens the recorded one.
SendReuse(s) ==
    LET w == send[s].ws
        f == IF gate[w].directory # None THEN gate[w].directory ELSE gate[w].association
    IN
    /\ send[s].at = "validated" /\ SetupFree(w)
    /\ Verified(f)
    /\ gate' = [gate EXCEPT ![w].directory = f]
    /\ handle' = [handle EXCEPT ![f] = [open |-> TRUE, users |-> @.users + 1]]
    /\ send' = [send EXCEPT ![s].at = "ensured", ![s].dir = f]
    /\ UNCHANGED <<process, home, observing, watch, records, cleaner, closing, disk, made,
                   history, bounds>>

\* Mutant: a replaced folder's handle closes under its sends.
DroppedAtOnce(f) == IF f # None THEN [handle EXCEPT ![f] = NoHandle] ELSE handle

\* A folder the gate no longer uses: its handle stays open for its sends.
dropped(f) ==
    IF f # None /\ handle[f].users = 0 THEN [handle EXCEPT ![f] = NoHandle] ELSE handle

\* Otherwise it makes a folder with its marker, or fails to.
SendCreate(s, f) ==
    LET w   == send[s].ws
        old == IF gate[w].directory # None THEN gate[w].directory ELSE gate[w].association
    IN
    /\ send[s].at = "validated" /\ SetupFree(w)
    /\ ~Verified(old)
    /\ f \notin made /\ made' = made \cup {f}
    /\ \/ /\ handle' = [dropped(gate[w].directory) EXCEPT ![f] = [open |-> TRUE, users |-> 0]]
          /\ disk' = [disk EXCEPT !.folders[f] = [there |-> TRUE, entries |-> {Marker}]]
          /\ gate' = [gate EXCEPT ![w].directory = None, ![w].setup = s]
          /\ send' = [send EXCEPT ![s].at = "recording", ![s].dir = f]
          /\ UNCHANGED faults
       \/ /\ Fault
          /\ handle' = dropped(gate[w].directory)
          /\ gate' = [gate EXCEPT ![w].directory = None]
          /\ send' = [send EXCEPT ![s].at = "done", ![s].result = "not_sent"]
          /\ UNCHANGED disk
    /\ UNCHANGED <<process, home, observing, watch, records, cleaner, closing, history,
                   published, crashes, vanished>>

\* The new folder is recorded; without its record it is removed again.
SendRecord(s) ==
    LET w == send[s].ws
        f == send[s].dir
    IN
    /\ send[s].at = "recording"
    /\ \E outcome \in WriteOutcomes :
         /\ replaceRecord(w, f, outcome)
         /\ \/ /\ outcome = "done"
               /\ disk' = [disk EXCEPT !.records = Written(w, f, outcome)]
               /\ gate' = [gate EXCEPT ![w].association = f, ![w].directory = f, ![w].setup = None]
               /\ handle' = [handle EXCEPT ![f].users = @ + 1]
               /\ send' = [send EXCEPT ![s].at = "ensured"]
            \/ /\ outcome # "done"
               /\ disk' = [disk EXCEPT !.records = Written(w, f, outcome), !.folders[f] = Absent]
               /\ gate' = [gate EXCEPT ![w].setup = None]
               /\ handle' = [handle EXCEPT ![f] = NoHandle]
               /\ send' = [send EXCEPT ![s].at = "done", ![s].dir = None, ![s].result = "not_sent"]
    /\ UNCHANGED <<process, home, observing, watch, cleaner, closing, made, history,
                   published, crashes, vanished>>

\* stageFiles reserves the file's name in a folder that is still verified.
SendReserve(s) ==
    LET f == send[s].dir IN
    /\ send[s].at = "ensured"
    /\ \/ /\ Verified(f) /\ ~send[s].stopped
          /\ disk' = [disk EXCEPT !.folders[f].entries = @ \cup {s}]
          /\ send' = [send EXCEPT ![s].at = "reading"]
       \/ /\ ~Verified(f) \/ send[s].stopped
          /\ send' = [send EXCEPT ![s].at = "release", ![s].result = "not_sent"]
          /\ UNCHANGED disk
    /\ UNCHANGED <<process, memory, made, history, bounds>>

\* The file's bytes arrive; a stopped send or a body that fails is rolled back.
SendRead(s) ==
    /\ send[s].at = "reading"
    /\ \/ ~send[s].stopped /\ send' = [send EXCEPT ![s].at = "staged"]
       \/ send' = [send EXCEPT ![s].at = "rollback", ![s].result = "not_sent"]
    /\ UNCHANGED <<process, memory, disk, made, history, bounds>>

\* validateBeforeWrite, the last checks before the paths go to the terminal.
SendForward(s) ==
    /\ send[s].at = "staged"
    /\ \/ /\ ~send[s].stopped /\ Verified(send[s].dir) /\ send[s].ws \in home
          /\ send' = [send EXCEPT ![s].at = "forwarding"]
       \/ send' = [send EXCEPT ![s].at = "rollback", ![s].result = "not_sent"]
    /\ UNCHANGED <<process, memory, disk, made, history, bounds>>

\* Mutant: an unknown result is rolled back too.
ResultRemovesUnknown(s, result) ==
    /\ send[s].at = "forwarding"
    /\ send' = [send EXCEPT ![s].result = result,
                            ![s].at = IF result = "forwarded" THEN "release" ELSE "rollback"]
    /\ UNCHANGED <<process, memory, disk, made, history, bounds>>

\* The terminal bridge's answer; only a definite failure is rolled back.
SendResult(s, result) ==
    /\ send[s].at = "forwarding"
    /\ send' = [send EXCEPT ![s].result = result,
                            ![s].at = IF result \in {"not_sent", "occupied"} THEN "rollback" ELSE "release"]
    /\ UNCHANGED <<process, memory, disk, made, history, bounds>>

\* removeRequestFiles, through the send's own handle; a failure is logged.
SendRollback(s) ==
    LET f == send[s].dir IN
    /\ send[s].at = "rollback"
    /\ \/ /\ disk' = [disk EXCEPT !.folders[f].entries = IF handle[f].open THEN @ \ {s} ELSE @]
          /\ UNCHANGED faults
       \/ Fault /\ UNCHANGED disk
    /\ send' = [send EXCEPT ![s].at = "release"]
    /\ UNCHANGED <<process, memory, made, history, published, crashes, vanished>>

\* Mutant: a dropped handle is never closed.
ReleaseLeaks(f, w) == [handle EXCEPT ![f].users = @ - 1]

\* release, then the gate: a handle the gate dropped closes with its last send.
release(f, w) ==
    LET left == handle[f].users - 1 IN
    IF left = 0 /\ gate[w].directory # f THEN [handle EXCEPT ![f] = NoHandle]
    ELSE [handle EXCEPT ![f].users = left]

SendRelease(s) ==
    /\ send[s].at = "release" /\ SetupFree(send[s].ws)
    /\ handle' = release(send[s].dir, send[s].ws)
    /\ send' = [send EXCEPT ![s].at = "done", ![s].dir = None, ![s].stopped = FALSE]
    /\ UNCHANGED <<process, home, observing, watch, records, gate, cleaner, closing, disk, made,
                   history, bounds>>

-----------------------------------------------------------------------------
(***************************************************************************)
(* cleanupWorkspace.                                                       *)
(***************************************************************************)

CleanupStop(c) ==
    LET w == cleaner[c].ws IN
    /\ cleaner[c].at = "begun" /\ SetupFree(w)
    /\ gate' = [gate EXCEPT ![w].open = FALSE, ![w].known = TRUE]
    /\ send' = stopped(w)
    /\ cleaner' = [cleaner EXCEPT ![c].at = "stopped"]
    /\ UNCHANGED <<process, home, observing, watch, records, handle, closing, disk, made,
                   history, bounds>>

\* Lock: one writer at a time announces itself, and then no send enters.
CleanupAnnounce(c) ==
    /\ cleaner[c].at = "stopped" /\ Excluding(cleaner[c].ws) = {}
    /\ cleaner' = [cleaner EXCEPT ![c].at = "announced"]
    /\ UNCHANGED <<process, home, observing, watch, records, gate, handle, send, closing, disk,
                   made, history, bounds>>

\* What every end of a cleanup does: reopen, then unlock.
reopened(w) == [gate EXCEPT ![w].open = TRUE]
finished(c) == [cleaner EXCEPT ![c] = NoCleanup]

\* With the gate to itself, the cleanup finds the folder it owns.
CleanupOpen(c) ==
    LET w == cleaner[c].ws
        g == gate[w]
        f == IF g.directory # None THEN g.directory ELSE g.association
    IN
    /\ cleaner[c].at = "announced" /\ Inside(w) = {}
    /\ \/ /\ g.association # None /\ Verified(f)
          /\ gate' = [gate EXCEPT ![w].directory = f]
          /\ handle' = [handle EXCEPT ![f].open = TRUE]
          /\ cleaner' = [cleaner EXCEPT ![c].at = "removing"]
          /\ UNCHANGED faults
       \/ /\ g.association # None /\ ~Exists(f) /\ g.directory = None
          /\ cleaner' = [cleaner EXCEPT ![c].at = "clearing"]
          /\ UNCHANGED <<gate, handle, faults>>
       \/ /\ \/ g.association = None /\ UNCHANGED faults
             \/ /\ g.association # None /\ ~Verified(f) /\ (Exists(f) \/ g.directory # None)
                /\ UNCHANGED faults
             \/ g.association # None /\ Fault
          /\ gate' = reopened(w) /\ cleaner' = finished(c)
          /\ UNCHANGED handle
    /\ UNCHANGED <<process, home, observing, watch, records, send, closing, disk, made, history,
                   published, crashes, vanished>>

\* removeOwnedDirectory removes the entries, the marker among them, in the
\* order the directory lists them, and the folder last.
CleanupRemove(c) ==
    LET w == cleaner[c].ws
        f == gate[w].directory
    IN
    /\ cleaner[c].at = "removing"
    /\ \/ \E e \in disk.folders[f].entries :
            /\ disk' = [disk EXCEPT !.folders[f].entries = @ \ {e}]
            /\ UNCHANGED <<gate, handle, cleaner, faults>>
       \/ /\ Exists(f) /\ disk.folders[f].entries = {}
          /\ disk' = [disk EXCEPT !.folders[f] = Absent]
          /\ handle' = [handle EXCEPT ![f] = NoHandle]
          /\ gate' = [gate EXCEPT ![w].directory = None]
          /\ cleaner' = [cleaner EXCEPT ![c].at = "clearing"]
          /\ UNCHANGED faults
       \/ /\ \/ ~Exists(f) /\ UNCHANGED faults
             \/ Fault
          /\ gate' = reopened(w) /\ cleaner' = finished(c)
          /\ UNCHANGED <<disk, handle>>
    /\ UNCHANGED <<process, home, observing, watch, records, send, closing, made, history,
                   published, crashes, vanished>>

\* The record goes after its folder; a failed write keeps the association.
CleanupClear(c) ==
    LET w == cleaner[c].ws IN
    /\ cleaner[c].at = "clearing"
    /\ \E outcome \in WriteOutcomes :
         /\ replaceRecord(w, None, outcome)
         /\ disk' = [disk EXCEPT !.records = Written(w, None, outcome)]
         /\ gate' = [reopened(w) EXCEPT ![w].association = IF outcome = "done" THEN None ELSE @]
    /\ cleaner' = finished(c)
    /\ UNCHANGED <<process, home, observing, watch, handle, send, closing, made, history,
                   published, crashes, vanished>>

-----------------------------------------------------------------------------
(***************************************************************************)
(* Close, and the end of the process.                                      *)
(***************************************************************************)

CloseBegin ==
    /\ process = "up"
    /\ process' = "closing"
    /\ UNCHANGED <<memory, send, disk, made, history, bounds>>

\* Once the cleanups are done, Close takes the gates there are.
CloseGates ==
    /\ process = "closing" /\ \A c \in Cleaners : cleaner[c].at = "none"
    /\ process' = "stopping"
    /\ closing' = [stop |-> {w \in Workspaces : gate[w].known},
                   lock |-> {w \in Workspaces : gate[w].known}, done |-> {}]
    /\ UNCHANGED <<home, observing, watch, records, gate, handle, cleaner, send, disk, made,
                   history, bounds>>

CloseStop(w) ==
    /\ w \in closing.stop /\ SetupFree(w)
    /\ gate' = [gate EXCEPT ![w].open = FALSE]
    /\ send' = stopped(w)
    /\ closing' = [closing EXCEPT !.stop = @ \ {w}]
    /\ UNCHANGED <<process, home, observing, watch, records, handle, cleaner, disk, made,
                   history, bounds>>

\* It waits for the sends inside a gate, then closes the gate's folder.
CloseLock(w) ==
    LET f == gate[w].directory IN
    /\ closing.stop = {} /\ w \in closing.lock /\ Inside(w) = {}
    /\ handle' = IF f = None THEN handle ELSE [handle EXCEPT ![f] = NoHandle]
    /\ gate' = [gate EXCEPT ![w].directory = None]
    /\ closing' = [closing EXCEPT !.lock = @ \ {w}, !.done = @ \cup {w}]
    /\ UNCHANGED <<process, home, observing, watch, records, send, cleaner, disk, made,
                   history, bounds>>

Exit ==
    /\ process = "stopping" /\ closing.stop \cup closing.lock = {}
    /\ Ended
    /\ closing' = NotClosing
    /\ UNCHANGED <<disk, made, history, bounds>>

-----------------------------------------------------------------------------
SendStep(s) ==
    \/ SendEnter(s) \/ SendValidate(s) \/ SendReuse(s) \/ SendRecord(s)
    \/ SendReserve(s) \/ SendRead(s) \/ SendForward(s) \/ SendRollback(s) \/ SendRelease(s)
    \/ \E f \in Folders : SendCreate(s, f)
    \/ \E result \in {"forwarded", "unknown", "occupied", "not_sent"} : SendResult(s, result)

CleanupStep(c) ==
    \/ CleanupStop(c) \/ CleanupAnnounce(c) \/ CleanupOpen(c)
    \/ CleanupRemove(c) \/ CleanupClear(c)

CloseStep ==
    \/ CloseGates \/ Exit
    \/ \E w \in Workspaces : CloseStop(w) \/ CloseLock(w)

Next ==
    \/ Open \/ Crash \/ CloseBegin \/ CloseStep
    \/ \E f \in Folders : Vanish(f)
    \/ \E workspaces \in SUBSET Workspaces : Publish(workspaces)
    \/ ObservePublishedSnapshot
    \/ \E s \in Sends, w \in Workspaces : SendBegin(s, w)
    \/ \E s \in Sends : SendStep(s)
    \/ \E c \in Cleaners : CleanupStep(c)

Spec == Init /\ [][Next]_vars

\* Fairness: the server's own work goes on, the terminal bridge answers within
\* its deadlines, and a stopped send's reads fail at once (uploadBody.stop).
\* Bytes that nothing stops may take any time, as with -upload-min-rate none.
LiveSpec ==
    /\ Spec
    /\ \A s \in Sends : WF_vars(SendStep(s) /\ (send[s].at = "reading" => send[s].stopped))
    /\ \A c \in Cleaners : WF_vars(CleanupStep(c))
    /\ WF_vars(CloseStep)

-----------------------------------------------------------------------------
(***************************************************************************)
(* Properties.                                                             *)
(***************************************************************************)

\* The state has the shape the manager gives it.
UploadsTypeOK ==
    /\ process \in {"down", "up", "closing", "stopping"}
    /\ home \subseteq Workspaces /\ observing \in BOOLEAN
    /\ watch \in [observed : BOOLEAN, workspaces : SUBSET Workspaces]
    /\ records \in [Workspaces -> Folders \cup {None}]
    /\ gate \in [Workspaces -> Gate]
    /\ handle \in [Folders -> [open : BOOLEAN, users : 0 .. Cardinality(Sends)]]
    /\ send \in [Sends -> [at : {"new", "gate", "entered", "validated", "recording", "ensured",
                                 "reading", "staged", "forwarding", "rollback", "release", "done"},
                           ws : Workspaces \cup {None}, dir : Folders \cup {None}, stopped : BOOLEAN,
                           result : {"none", "forwarded", "unknown", "occupied", "not_sent", "lost"}]]
    /\ cleaner \in [Cleaners -> [at : {"none", "begun", "stopped", "announced", "removing",
                                       "clearing"}, ws : Workspaces \cup {None}]]
    /\ closing \in [stop : SUBSET Workspaces, lock : SUBSET Workspaces, done : SUBSET Workspaces]
    /\ disk \in [records : [Workspaces -> Folders \cup {None}],
                 folders : [Folders -> [there : BOOLEAN, entries : SUBSET (Sends \cup {Marker})]]]
    /\ made \subseteq Folders /\ life \in [Workspaces -> {"new", "present", "gone"}] /\ cleared \subseteq Sends
    /\ published \in 0 .. MaxPublications /\ faults \in 0 .. MaxFaults
    /\ crashes \in 0 .. MaxCrashes /\ vanished \in 0 .. MaxVanished

\* A workspace's folder never goes while a send uses it, unless something else
\* removes it, and the send's handle is open: cleanup holds the gate alone
\* (workspaceGate) and a dropped handle closes with its last send (release).
FoldersInUseStay ==
    \A s \in Sends : LET f == send[s].dir IN
        f # None => handle[f].open /\ (vanished = 0 => Verified(f))

\* A handle is open exactly while a gate, a send or a new association has it,
\* and counts its sends: none is leaked by a replaced folder, a failed record
\* or Close.
HandlesAreHeld ==
    \A f \in Folders :
        /\ handle[f].users = Cardinality({s \in Using(f) : send[s].at # "recording"})
        /\ handle[f].open <=> Using(f) # {} \/ \E w \in Workspaces : gate[w].directory = f

\* Files whose paths are, or may be, in a terminal stay until their workspace
\* is observed absent after the send's last validation (StageAndForward keeps
\* what it Forwarded and what is Unknown).
ForwardedFilesRemain ==
    \A s \in Sends :
        send[s].result \in {"forwarded", "unknown"} /\ s \notin cleared /\ vanished = 0 =>
            \E f \in Folders : s \in disk.folders[f].entries

\* A send that ended as not sent or occupied has left no file, whichever way
\* its folder's handle went meanwhile.
FailedSendsLeaveNothing ==
    \A s \in Sends :
        send[s].at = "done" /\ send[s].result \in {"not_sent", "occupied"} /\ faults = 0 =>
            \A f \in Folders : s \notin disk.folders[f].entries

\* Once the cleanups a published state started are done, a workspace that is
\* not in it has no association and no record, also one recorded by an earlier
\* process: no send makes a folder behind its workspace's cleanup.  A folder
\* without its marker is the exception: a cleanup that failed after removing the
\* marker leaves it, and removeOwnedDirectory refuses it from then on.
AbsentWorkspacesAreCleared ==
    \A w \in Workspaces \ home :
        /\ process = "up" /\ watch.observed /\ ~observing /\ faults = 0 /\ vanished = 0
        /\ \A c \in Cleaners : cleaner[c].at = "none" \/ cleaner[c].ws # w
        => \/ gate[w].association = None /\ disk.records[w] = None
           \/ Exists(disk.records[w]) /\ ~Verified(disk.records[w])

\* As long as no process ended in the middle of a send, every folder there is
\* has its record, in memory and on disk, or is being recorded: a failed record
\* write takes its folder away again.
FoldersAreRecorded ==
    process = "up" /\ (\A s \in Sends : send[s].result # "lost") =>
        \A f \in Folders : Exists(f) =>
            \/ \E w \in Workspaces : disk.records[w] = f /\ records[w] = f
            \/ \E s \in Sends : send[s].dir = f /\ send[s].at = "recording"

\* A cleanup that waits for its gate has stopped every send in it that has not
\* forwarded (stopSends), so it waits for no body.
WaitingCleanupsStopSends ==
    \A c \in Cleaners : cleaner[c].at = "announced" =>
        \A s \in Inside(cleaner[c].ws) :
            send[s].stopped \/ send[s].at \in {"forwarding", "rollback", "release"}

\* A gate that Close has locked stays closed: no send is inside it, its folder
\* is not open and holds no file of a send that did not forward.
ClosedGatesAreClean ==
    \A w \in closing.done :
        /\ Inside(w) = {} /\ gate[w].directory = None /\ ~gate[w].open
        /\ gate[w].association # None /\ faults = 0 =>
             disk.folders[gate[w].association].entries \subseteq
                 {Marker} \cup {s \in Sends : send[s].result \in {"forwarded", "unknown", "lost"}}

\* Records, gates, handles and folders agree, whatever failed and whoever waits.
UploadsAgree ==
    /\ UploadsTypeOK /\ HandlesAreHeld /\ FoldersAreRecorded /\ FailedSendsLeaveNothing
    /\ WaitingCleanupsStopSends /\ ClosedGatesAreClean


=============================================================================
