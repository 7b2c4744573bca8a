------------------------------- MODULE Shares -------------------------------
(***************************************************************************)
(* The files agents share with `shepherdr share`: the store that keeps     *)
(* them in an owner-only folder with an index beside them                  *)
(* (internal/shares/store.go), the service that receives them on the share *)
(* socket (internal/shares/service.go), and the Home connections that list *)
(* them and say which list is in view (internal/server/shared.go).         *)
(*                                                                         *)
(* A file is its random ID, which is never used twice; its bytes are a     *)
(* size.  Each process is one Shepherdr.  Everything the store does under  *)
(* its mutex is one step; what Commit does before it takes the mutex, and  *)
(* each file system call another process could see, is a step of its own.  *)
(* All sources are successive processes behind one pane and terminal ID.   *)
(***************************************************************************)
EXTENDS Naturals, FiniteSets

CONSTANTS
    Procs,        \* Shepherdr processes that may be given the same folder
    Conns,        \* connections of `shepherdr share` commands
    Homes,        \* Home connections of browsers
    Files,        \* the IDs newID may return
    Size,         \* the size of each file's bytes
    Limit,        \* -share-limit
    Total,        \* -share-total
    MaxTerm,      \* bound on the processes that follow each other in the terminal
    MaxStarts,    \* bound on how often a process opens the folder
    MaxFaults,    \* bound on file system calls that fail
    MaxMisreads,  \* bound on starts that fail to open a file that is there
    None          \* no process, no file

ASSUME SizesAreNaturals == Size \in [Files -> Nat]
ASSUME ShareBoundsAreNaturals ==
    {Limit, Total, MaxTerm, MaxStarts, MaxFaults, MaxMisreads} \subseteq Nat
ASSUME TheTerminalRuns == MaxTerm > 0
ASSUME NoneIsApart == None \notin Procs \cup Files

VARIABLES
    index,     \* the records shared.json holds
    folders,   \* each ID's folder: "none", "empty", or "file" with the copy in it
    incoming,  \* the IDs with a copy in .incoming
    proc,      \* "off", "open" with the folder locked, or "closed" and not yet ended
    records,   \* Store.records
    kept,      \* Store.kept
    reserved,  \* Store.reserved
    conn,      \* what handle knows of each share connection
    home,      \* each Home connection: its view, its change signal, what it sent
    term,      \* the process now running in the terminal
    live,      \* whether Home is live, so that a terminal can be current
    starts, faults, misreads,  \* how often each bounded event happened
    reported,  \* files whose command was told they are shared
    asked,     \* files a delete was asked for
    gone       \* files a delete reported as deleted

disk    == <<index, folders, incoming>>
store   == <<records, kept, reserved>>
bounds  == <<starts, faults, misreads>>
history == <<reported, asked, gone>>
vars    == <<disk, proc, store, conn, home, term, live, bounds, history>>

Outside == 0              \* no source: Outside Herdr
Sources == 1 .. MaxTerm   \* Source.Key: the terminal's process makes it unique

Record == [id : Files, seen : BOOLEAN, src : Sources \cup {Outside}]
View   == [all : BOOLEAN, handle : Sources \cup {Outside}, ids : BOOLEAN]
NoView == [all |-> FALSE, handle |-> Outside, ids |-> FALSE]

\* The views parseSharedView accepts.
Shown == {v \in View : IF v.all THEN v.handle = Outside /\ ~v.ids ELSE v # NoView}

Idle   == [at |-> "none", proc |-> None, src |-> Outside, file |-> None, stored |-> {}]
NoHome == [proc |-> None, view |-> NoView, pending |-> FALSE, reading |-> FALSE, sent |-> {}]

Ids(recs)  == {r.id : r \in recs}

\* The bytes of some files, each counted.
Units(ids) == UNION {{f} \X (1 .. Size[f]) : f \in ids}
Bytes(ids) == Cardinality(Units(ids))

-----------------------------------------------------------------------------
(***************************************************************************)
(* The file system, as the store uses it.                                  *)
(***************************************************************************)

\* What a write of the index may come to: "done", an error "before" its rename
\* or "after" it.  A closed store still reaches the folder by its path, and
\* fails when it comes to sync it.
Writes(p) ==
    IF proc[p] = "closed" THEN {"before", "after"}
    ELSE {"done"} \cup (IF faults < MaxFaults THEN {"before", "after"} ELSE {})

\* Mutant: the index is written in place, so a failed write leaves it empty.
writeIndexInPlace(p, recs, outcome) ==
    /\ outcome \in Writes(p)
    /\ index' = IF outcome = "before" THEN {} ELSE recs

writeIndex(p, recs, outcome) ==
    /\ outcome \in Writes(p)
    /\ index' = IF outcome = "before" THEN index ELSE recs

\* What RemoveAll of one ID may leave of its folder.
RemoveAll(p, f) ==
    (IF proc[p] = "closed" THEN {} ELSE {"none"})
      \cup (IF proc[p] = "closed" \/ faults < MaxFaults THEN {folders[f], "empty"} ELSE {})

\* A call that failed although the store is open counts as a fault.
Count(p, failed) == faults' = IF failed /\ proc[p] = "open" THEN faults + 1 ELSE faults

-----------------------------------------------------------------------------
(***************************************************************************)
(* Lists in view.                                                          *)
(***************************************************************************)

\* sharedSourceCurrent: Home shows the terminal and its process is the one that shared.
Current(s) == live /\ term = s

\* View.matches, given whether the record's source is current.
Matches(v, r, current) ==
    \/ v.all
    \/ r.src # Outside /\ (v.handle = r.src \/ (v.ids /\ current))

HomesOf(p) == {h \in Homes : home[h].proc = p}

\* Mutant: only SetView marks files seen.
SeenLater(p, r) == FALSE

\* A share is marked seen at once when a view shows its list.
SeenAtOnce(p, r) == \E h \in HomesOf(p) : Matches(home[h].view, r, TRUE)

\* notifyLocked: each subscriber's one-place channel holds a signal.
Notified(p) == [h \in Homes |-> IF h \in HomesOf(p) THEN [home[h] EXCEPT !.pending = TRUE] ELSE home[h]]

-----------------------------------------------------------------------------
(***************************************************************************)
(* Starting and ending a process.                                          *)
(***************************************************************************)

Init ==
    /\ index = {} /\ incoming = {} /\ folders = [f \in Files |-> "none"]
    /\ proc = [p \in Procs |-> "off"]
    /\ records = [p \in Procs |-> {}]
    /\ kept = [p \in Procs |-> 0] /\ reserved = [p \in Procs |-> 0]
    /\ conn = [c \in Conns |-> Idle]
    /\ home = [h \in Homes |-> NoHome]
    /\ term = 1 /\ live \in BOOLEAN
    /\ starts = 0 /\ faults = 0 /\ misreads = 0
    /\ reported = {} /\ asked = {} /\ gone = {}

\* present: the record's file can be opened and has its size.  Any error is a
\* no, so a file that is there and cannot be opened just now counts as missing.
present(r, unreadable) == folders[r.id] = "file" /\ r.id \notin unreadable

Locked == \E p \in Procs : proc[p] = "open"

\* Open and load, when nothing fails: what an interrupted share left is
\* cleared, missing files leave the list, and folders no record names go.
Open(p) ==
    /\ proc[p] = "off" /\ ~Locked /\ starts < MaxStarts
    /\ \E unreadable \in SUBSET Ids(index) :
         /\ unreadable # {} => misreads < MaxMisreads
         /\ misreads' = misreads + (IF unreadable = {} THEN 0 ELSE 1)
         /\ LET found == {r \in index : present(r, unreadable)} IN
            /\ index' = found
            /\ incoming' = {}
            /\ folders' = [f \in Files |-> IF f \in Ids(found) THEN folders[f] ELSE "none"]
            /\ records' = [records EXCEPT ![p] = found]
            /\ kept' = [kept EXCEPT ![p] = Bytes(Ids(found))]
    /\ proc' = [proc EXCEPT ![p] = "open"]
    /\ starts' = starts + 1
    /\ UNCHANGED <<reserved, conn, home, term, live, faults, history>>

\* Open and load, when clearing or the index write fails: the folder is
\* released, and part of it is cleared.
OpenFails(p) ==
    /\ proc[p] = "off" /\ ~Locked /\ starts < MaxStarts /\ faults < MaxFaults
    /\ LET found   == {r \in index : present(r, {})}
           missing == {f \in Files : f \notin Ids(found) /\ folders[f] # "none"}
       IN \/ UNCHANGED disk
          \/ /\ incoming' = {}
             /\ \E left \in SUBSET missing :
                  /\ left # {}
                  /\ folders' \in {[f \in Files |-> IF f \in left THEN kind
                                                    ELSE IF f \in missing THEN "none"
                                                    ELSE folders[f]] : kind \in {"empty", "file"}}
                  /\ \A f \in left : folders'[f] \in {folders[f], "empty"}
             /\ UNCHANGED index
          \/ /\ found # index
             /\ incoming' = {}
             /\ folders' = [f \in Files |-> IF f \in missing THEN "none" ELSE folders[f]]
             /\ index' \in {index, found}
    /\ starts' = starts + 1 /\ faults' = faults + 1
    /\ UNCHANGED <<proc, store, conn, home, term, live, misreads, history>>

\* run returns: the store is closed and the folder released, while the service
\* and the Home connections, which nothing waits for, still run.
Close(p) ==
    /\ proc[p] = "open"
    /\ proc' = [proc EXCEPT ![p] = "closed"]
    /\ UNCHANGED <<disk, store, conn, home, term, live, bounds, history>>

\* The process ends, at the end of a shutdown or by a crash at any point.
End(p) ==
    /\ proc[p] # "off"
    /\ proc' = [proc EXCEPT ![p] = "off"]
    /\ records' = [records EXCEPT ![p] = {}]
    /\ kept' = [kept EXCEPT ![p] = 0]
    /\ reserved' = [reserved EXCEPT ![p] = 0]
    /\ conn' = [c \in Conns |-> IF conn[c].proc = p THEN Idle ELSE conn[c]]
    /\ home' = [h \in Homes |-> IF home[h].proc = p THEN NoHome ELSE home[h]]
    /\ UNCHANGED <<disk, term, live, bounds, history>>

-----------------------------------------------------------------------------
(***************************************************************************)
(* Service.handle: one command's connection, and the share it streams.     *)
(***************************************************************************)

\* Mutant: a share waits for a store that was closed under it.
AtOpened(c, at) == conn[c].at = at /\ proc[conn[c].proc] = "open"

\* handle has reached this point, in a process that still runs.
At(c, at) == conn[c].at = at /\ proc[conn[c].proc] # "off"

\* The connection returns.  Its File shared notice is left to notifications.
Leave(c) == conn' = [conn EXCEPT ![c] = Idle]

Accept(c, p) ==
    /\ conn[c].at = "none" /\ proc[p] = "open"
    /\ conn' = [conn EXCEPT ![c] = [Idle EXCEPT !.at = "opening", !.proc = p]]
    /\ UNCHANGED <<disk, proc, store, home, term, live, bounds, history>>

\* The claim is checked once: it names the terminal's process now, or fails.
Attribute(c) ==
    /\ At(c, "opening")
    /\ \E s \in {Outside, term} :
         conn' = [conn EXCEPT ![c].at = "header", ![c].src = s]
    /\ UNCHANGED <<disk, proc, store, home, term, live, bounds, history>>

Hangup(c) ==
    /\ At(c, "opening") \/ At(c, "header")
    /\ Leave(c)
    /\ UNCHANGED <<disk, proc, store, home, term, live, bounds, reported, asked, gone>>

\* An ID newID has not returned before.
Fresh(f) ==
    /\ \A c \in Conns : conn[c].file # f /\ f \notin conn[c].stored
    /\ folders[f] = "none" /\ f \notin incoming \cup asked \cup reported \cup Ids(index)
    /\ \A p \in Procs : f \notin Ids(records[p])

\* Begin's test of both limits, under the mutex.
Admits(p, f) == Size[f] <= Limit /\ Size[f] <= Total /\ kept[p] + reserved[p] <= Total - Size[f]

Begin(c, f) ==
    LET p == conn[c].proc IN
    /\ At(c, "header") /\ proc[p] = "open" /\ Fresh(f)
    /\ Admits(p, f)
    /\ reserved' = [reserved EXCEPT ![p] = @ + Size[f]]
    /\ incoming' = incoming \cup {f}
    /\ conn' = [conn EXCEPT ![c].at = "copying", ![c].file = f]
    /\ UNCHANGED <<index, folders, proc, records, kept, home, term, live, bounds, history>>

\* Mutant: an aborted share's room is never given back.
releaseNothing(c) == UNCHANGED reserved

\* Incoming.release: the room is free again.
release(c) == reserved' = [reserved EXCEPT ![conn[c].proc] = @ - Size[conn[c].file]]

\* Abort, with the connection's return: the copy goes unless that call fails,
\* and the room is released.
Abort(c) ==
    LET p == conn[c].proc  f == conn[c].file IN
    /\ release(c)
    /\ \/ proc[p] = "open" /\ incoming' = incoming \ {f}
       \/ (proc[p] = "closed" \/ faults < MaxFaults) /\ UNCHANGED incoming
    /\ Leave(c)

\* Copy ends early: the command left, the pace was missed, or the disk is full.
CopyFails(c) ==
    /\ At(c, "copying")
    /\ Abort(c)
    /\ Count(conn[c].proc, incoming' = incoming)
    /\ UNCHANGED <<index, folders, proc, records, kept, home, term, live, starts, misreads,
                    reported, asked, gone>>

\* Copy is complete; Commit syncs the copy and makes its folder.
CommitMkdir(c) ==
    LET p == conn[c].proc  f == conn[c].file IN
    /\ At(c, "copying")
    /\ \/ /\ proc[p] = "open"
          /\ folders' = [folders EXCEPT ![f] = "empty"]
          /\ conn' = [conn EXCEPT ![c].at = "moving"]
          /\ UNCHANGED <<incoming, reserved, faults>>
       \/ /\ proc[p] = "closed" \/ faults < MaxFaults
          /\ Abort(c)
          /\ Count(p, TRUE)
          /\ UNCHANGED folders
    /\ UNCHANGED <<index, proc, records, kept, home, term, live, starts, misreads, reported, asked, gone>>

\* Commit moves the copy into its folder.
CommitRename(c) ==
    LET p == conn[c].proc  f == conn[c].file IN
    /\ At(c, "moving")
    /\ \/ /\ proc[p] = "open"
          /\ folders' = [folders EXCEPT ![f] = "file"]
          /\ incoming' = incoming \ {f}
          /\ conn' = [conn EXCEPT ![c].at = "listing"]
          /\ UNCHANGED <<reserved, faults>>
       \/ /\ proc[p] = "closed" \/ faults < MaxFaults
          /\ \E left \in RemoveAll(p, f) : folders' = [folders EXCEPT ![f] = left]
          /\ Abort(c)
          /\ Count(p, TRUE)
    /\ UNCHANGED <<index, proc, records, kept, home, term, live, starts, misreads, reported, asked, gone>>

\* Commit's record, marked seen when a view in effect shows its list.
NewRecord(c) ==
    LET r == [id |-> conn[c].file, seen |-> FALSE, src |-> conn[c].src]
    IN [r EXCEPT !.seen = SeenAtOnce(conn[c].proc, r)]

\* The rest of Commit, under the mutex, and the reply: the record is listed
\* and the index written, or all of it is undone.
CommitList(c) ==
    LET p == conn[c].proc
        f == conn[c].file
        listed == records[p] \cup {NewRecord(c)}
    IN
    /\ At(c, "listing")
    /\ release(c)
    /\ \E outcome \in Writes(p) :
         /\ writeIndex(p, listed, outcome)
         /\ Count(p, outcome # "done")
         /\ \/ /\ outcome = "done"
               /\ records' = [records EXCEPT ![p] = listed]
               /\ kept' = [kept EXCEPT ![p] = @ + Size[f]]
               /\ home' = Notified(p)
               /\ reported' = reported \cup {f}
               /\ conn' = [conn EXCEPT ![c].at = "header", ![c].file = None, ![c].stored = @ \cup {f}]
               /\ UNCHANGED <<folders>>
            \/ /\ outcome # "done"
               /\ \E left \in RemoveAll(p, f) : folders' = [folders EXCEPT ![f] = left]
               /\ Leave(c)
               /\ UNCHANGED <<records, kept, home, reported>>
    /\ UNCHANGED <<incoming, proc, term, live, starts, misreads, asked, gone>>

-----------------------------------------------------------------------------
(***************************************************************************)
(* Browsers: deleting, listing, and saying which list is in view.          *)
(***************************************************************************)

\* Mutant: the copy stays after its record is deleted.
RemovedFromListOnly(whole, partly) == folders

\* The folders left when these are removed as a whole and these only partly.
Removed(whole, partly) ==
    [f \in Files |-> CASE f \in whole -> "none" [] f \in partly -> "empty" [] OTHER -> folders[f]]

\* Delete: each listed file's folder is removed; those that could not be stay
\* listed.  Then the index is written.
Delete(p, ids) ==
    LET wanted == {r \in records[p] : r.id \in ids} IN
    /\ proc[p] = "open" /\ ids # {}
    /\ \E stuck \in SUBSET wanted, outcome \in {"done", "before", "after"} :
         LET deleted == wanted \ stuck
             left    == records[p] \ deleted
         IN
         /\ stuck # {} => faults < MaxFaults
         /\ \E torn \in BOOLEAN : folders' = Removed(Ids(deleted), IF torn THEN Ids(stuck) ELSE {})
         /\ records' = [records EXCEPT ![p] = left]
         /\ kept' = [kept EXCEPT ![p] = @ - Bytes(Ids(deleted))]
         /\ \/ deleted = {} /\ outcome = "done" /\ UNCHANGED <<index, home>>
            \/ deleted # {} /\ writeIndex(p, left, outcome) /\ home' = Notified(p)
         /\ gone' = gone \cup Ids(deleted)
         /\ Count(p, stuck # {} \/ outcome # "done")
    /\ asked' = asked \cup Ids(wanted)
    /\ UNCHANGED <<incoming, proc, reserved, conn, term, live, starts, misreads, reported>>

\* A Home connection subscribes before it first lists the files.
HomeOpen(h, p) ==
    /\ home[h].proc = None /\ proc[p] = "open"
    /\ home' = [home EXCEPT ![h] = [NoHome EXCEPT !.proc = p, !.reading = TRUE]]
    /\ UNCHANGED <<disk, proc, store, conn, term, live, bounds, history>>

HomeSignal(h) ==
    /\ home[h].pending /\ ~home[h].reading
    /\ home' = [home EXCEPT ![h].pending = FALSE, ![h].reading = TRUE]
    /\ UNCHANGED <<disk, proc, store, conn, term, live, bounds, history>>

\* writeShared: the complete list goes to the browser.
HomeList(h) ==
    /\ home[h].reading
    /\ home' = [home EXCEPT ![h].reading = FALSE, ![h].sent = records[home[h].proc]]
    /\ UNCHANGED <<disk, proc, store, conn, term, live, bounds, history>>

HomeClose(h) ==
    /\ home[h].proc # None
    /\ home' = [home EXCEPT ![h] = NoHome]
    /\ UNCHANGED <<disk, proc, store, conn, term, live, bounds, history>>

\* SetView: the files the view lists become seen, and the index is written;
\* a failed write is only logged.
SetView(h, v) ==
    LET p       == home[h].proc
        marked  == {r \in records[p] : ~r.seen /\ Matches(v, r, Current(r.src))}
        updated == (records[p] \ marked) \cup {[r EXCEPT !.seen = TRUE] : r \in marked}
    IN
    /\ p # None
    /\ \/ /\ marked = {}
          /\ home' = [home EXCEPT ![h].view = v]
          /\ UNCHANGED <<index, records, faults>>
       \/ /\ marked # {}
          /\ records' = [records EXCEPT ![p] = updated]
          /\ home' = [Notified(p) EXCEPT ![h].view = v]
          /\ \E outcome \in Writes(p) :
               writeIndex(p, updated, outcome) /\ Count(p, outcome # "done")
    /\ UNCHANGED <<folders, incoming, proc, kept, reserved, conn, term, live, starts, misreads, history>>

-----------------------------------------------------------------------------
(***************************************************************************)
(* The terminal (external): its process is replaced by a later one behind  *)
(* the same IDs, and Home loses and regains its Herdr.                     *)
(***************************************************************************)

Replace ==
    /\ term < MaxTerm
    /\ term' = term + 1
    /\ UNCHANGED <<disk, proc, store, conn, home, live, bounds, history>>

Follow ==
    /\ live' = ~live
    /\ UNCHANGED <<disk, proc, store, conn, home, term, bounds, history>>

ShareStep(c) ==
    \/ Attribute(c) \/ Hangup(c) \/ CopyFails(c)
    \/ CommitMkdir(c) \/ CommitRename(c) \/ CommitList(c)

Next ==
    \/ \E p \in Procs : Open(p) \/ OpenFails(p) \/ Close(p) \/ End(p)
    \/ \E p \in Procs, ids \in SUBSET Files : Delete(p, ids)
    \/ \E c \in Conns, p \in Procs : Accept(c, p)
    \/ \E c \in Conns : ShareStep(c)
    \/ \E c \in Conns, f \in Files : Begin(c, f)
    \/ \E h \in Homes, p \in Procs : HomeOpen(h, p)
    \/ \E h \in Homes : HomeSignal(h) \/ HomeList(h) \/ HomeClose(h)
    \/ \E h \in Homes, v \in Shown \cup {NoView} : SetView(h, v)
    \/ Replace \/ Follow

Spec == Init /\ [][Next]_vars

\* Fairness: a connection's next line and bytes have deadlines (headerDeadline,
\* pace), the rest of a share is the server's own work, and the Home loop runs.
LiveSpec ==
    /\ Spec
    /\ \A c \in Conns : WF_vars(ShareStep(c))
    /\ \A h \in Homes : WF_vars(HomeSignal(h)) /\ WF_vars(HomeList(h))

-----------------------------------------------------------------------------
(***************************************************************************)
(* Properties.                                                             *)
(***************************************************************************)

\* Types: the files on disk, the store's lists and counters, the connections.
SharesTypeOK ==
    /\ index \subseteq Record /\ incoming \subseteq Files
    /\ folders \in [Files -> {"none", "empty", "file"}]
    /\ proc \in [Procs -> {"off", "open", "closed"}]
    /\ records \in [Procs -> SUBSET Record]
    /\ kept \in [Procs -> Nat] /\ reserved \in [Procs -> Nat]
    /\ \A c \in Conns :
         /\ conn[c].at \in {"none", "opening", "header", "copying", "moving", "listing"}
         /\ conn[c].proc \in Procs \cup {None} /\ conn[c].src \in Sources \cup {Outside}
         /\ conn[c].file \in Files \cup {None} /\ conn[c].stored \subseteq Files
    /\ \A h \in Homes : home[h].view \in View /\ home[h].sent \subseteq Record
    /\ term \in Sources /\ live \in BOOLEAN

Receiving(c) == conn[c].at \in {"copying", "moving", "listing"}

\* The running counters of Store, kept up to date by five operations and their
\* undo paths, are what the list and the shares in progress add up to.
AccountingAgrees ==
    \A p \in Procs :
      /\ kept[p] = Bytes(Ids(records[p]))
      /\ reserved[p] = Bytes({conn[c].file : c \in {d \in Conns : conn[d].proc = p /\ Receiving(d)}})

\* -share-total bounds what is really on disk, copies being received included,
\* through crashes, restarts and shutdowns, as long as no removal failed.
DiskWithinTotal ==
    faults = 0 => Bytes(incoming \cup {f \in Files : folders[f] = "file"}) <= Total

\* A file the store lists can be opened, unless a delete of it failed halfway.
ListedFilesArePresent ==
    \A p \in Procs : proc[p] = "open" =>
      \A f \in Ids(records[p]) : folders[f] = "file" \/ f \in asked

\* "Shepherdr keeps each copy until they delete it": a file whose command was
\* told it is shared stays listed, on disk and in the index, through failed
\* writes, crashes and restarts, until a delete names it.  The exception is a
\* start that cannot open a file that is there: it drops the record and the file.
ReportedFilesStay ==
    misreads = 0 => \A f \in reported \ asked :
      /\ folders[f] = "file" /\ f \in Ids(index)
      /\ \A p \in Procs : proc[p] = "open" => f \in Ids(records[p])

\* A file reported as deleted never comes back, although the index write that
\* follows its removal may fail and a restart reads the older index.
DeletedFilesStayGone ==
    \A f \in gone :
      /\ folders[f] = "none"
      /\ \A p \in Procs : proc[p] = "open" => f \notin Ids(records[p])

\* Every file in a list that is in view is seen, whichever came first.
ViewedFilesAreSeen ==
    \A p \in Procs : \A h \in HomesOf(p), r \in records[p] :
      home[h].view.all \/ (r.src # Outside /\ home[h].view.handle = r.src) => r.seen

\* A Home connection that waits for a change has sent the list as it is.
HomesAreUpToDate ==
    \A h \in Homes : home[h].proc # None /\ ~home[h].pending /\ ~home[h].reading
      => home[h].sent = records[home[h].proc]

\* A share ends: the room it reserved is free again, or its process is gone.
SharesEnd == \A c \in Conns : Receiving(c) ~> ~Receiving(c)

\* What the store counts, lists and keeps on disk agree (store.go).
StorageAgrees == SharesTypeOK /\ AccountingAgrees /\ DiskWithinTotal /\ ListedFilesArePresent

\* Every Home connection shows the files as they are: what it has in view is
\* seen, and what it sent is the newest list.
HomesShowTheFiles == ViewedFilesAreSeen /\ HomesAreUpToDate

=============================================================================
