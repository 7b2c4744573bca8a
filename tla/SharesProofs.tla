---------------------------- MODULE SharesProofs ----------------------------
(***************************************************************************)
(* Proofs about Shares, for every set of processes, connections, Home      *)
(* connections and files: a deleted file stays gone, a listed file is on   *)
(* disk, every Home connection shows the files as they are, a file         *)
(* reported as shared stays until it is deleted, and the store's counters  *)
(* are what is listed and being received, within the limit on disk.        *)
(*                                                                         *)
(* The counters come last: Bytes is the number of bytes of a finite set of *)
(* files, and the invariants before that section do not mention it.        *)
(***************************************************************************)
EXTENDS Shares, FiniteSetTheorems, TLAPS

\* A record, whatever process shared it.
Rec == [id : Files, seen : BOOLEAN, src : Nat]

ConnType == [at : {"none", "opening", "header", "copying", "moving", "listing"},
             proc : Procs \cup {None}, src : Nat, file : Files \cup {None},
             stored : SUBSET Files]

HomeType == [proc : Procs \cup {None}, view : View, pending : BOOLEAN,
             reading : BOOLEAN, sent : SUBSET Rec]

\* The types these proofs need: SharesTypeOK without the two counters.
Types ==
    /\ index \in SUBSET Rec
    /\ incoming \in SUBSET Files
    /\ folders \in [Files -> {"none", "empty", "file"}]
    /\ proc \in [Procs -> {"off", "open", "closed"}]
    /\ records \in [Procs -> SUBSET Rec]
    /\ conn \in [Conns -> ConnType]
    /\ home \in [Homes -> HomeType]
    /\ term \in Nat /\ live \in BOOLEAN /\ misreads \in Nat
    /\ reported \in SUBSET Files /\ asked \in SUBSET Files /\ gone \in SUBSET Files

\* A process that does not run keeps nothing, and nothing runs in it.
OffIsEmpty ==
    \A p \in Procs : proc[p] = "off" =>
      /\ records[p] = {}
      /\ \A c \in Conns : conn[c].proc # p
      /\ \A h \in Homes : home[h].proc # p

\* A connection under way has a process, and a share under way has a file.
ConnsHaveProcesses ==
    \A c \in Conns : /\ conn[c].at # "none" => conn[c].proc \in Procs
                     /\ Receiving(c) <=> conn[c].file # None

\* The folder's lock: one process has it open.
OneOpen == \A p, q \in Procs : proc[p] = "open" /\ proc[q] = "open" => p = q

\* An ID names one record of the index, and of each process's list.
Unique(recs) == \A r, s \in recs : r.id = s.id => r = s
IDsAreUnique == Unique(index) /\ \A p \in Procs : Unique(records[p])

\* A file being received is new to every list, and to every other connection.
NewToAll(c) ==
    LET f == conn[c].file IN
    /\ f \notin Ids(index)
    /\ \A p \in Procs : f \notin Ids(records[p])
    /\ f \notin asked /\ f \notin reported
    /\ \A d \in Conns : d # c => conn[d].file # f
ReceivedFilesAreNew == \A c \in Conns : Receiving(c) => NewToAll(c)

\* A share about to be listed has its copy in place, while the store is open.
CopiesAreInPlace ==
    \A c \in Conns : conn[c].at = "listing" /\ proc[conn[c].proc] = "open"
      => folders[conn[c].file] = "file"

GoneWereAsked == gone \subseteq asked

\* A Home connection that has something to send runs in a process.
HomesHaveProcesses == \A h \in Homes : home[h].proc = None => ~home[h].reading /\ ~home[h].pending

Inv == /\ Types /\ OffIsEmpty /\ ConnsHaveProcesses /\ OneOpen /\ IDsAreUnique
       /\ ReceivedFilesAreNew

\* One process at a time is ever given the folder: Shepherdr restarts, and the
\* next one opens the folder only after the last one has ended.
OneProcess == \A p, q \in Procs : p = q

\* ReportedFilesStay, for a process that was closed and has not yet ended too.
Kept(f) ==
    /\ folders[f] = "file" /\ f \in Ids(index)
    /\ \A p \in Procs : proc[p] # "off" => f \in Ids(records[p])
ReportedFilesAreKept == misreads = 0 => \A f \in reported \ asked : Kept(f)

-----------------------------------------------------------------------------
(***************************************************************************)
(* Lists of records.                                                       *)
(***************************************************************************)

\* Every ID some list names.
Listed == Ids(index) \cup UNION {Ids(records[p]) : p \in Procs}

\* Some of the records of a list without duplicates have none either.
LEMMA SomeAreUnique == ASSUME NEW recs, Unique(recs), NEW some \in SUBSET recs PROVE Unique(some)
BY DEF Unique

\* Nor has such a list with a record whose ID is new to it.
LEMMA OneMoreIsUnique ==
    ASSUME NEW recs, Unique(recs), NEW r, r.id \notin Ids(recs)
    PROVE  Unique(recs \cup {r})
BY DEF Unique, Ids

\* What a step leaves as a file being received is new to every list, when the
\* lists only gained IDs of S and none of those is being received.
LEMMA ReceivedStayNew ==
    ASSUME Inv, ConnsHaveProcesses', NEW S,
           \A d \in Conns : Receiving(d)' => conn'[d].file \notin S,
           Ids(index') \subseteq Listed \cup S,
           \A p \in Procs : Ids(records'[p]) \subseteq Listed \cup S,
           asked' \subseteq asked \cup Listed,
           reported' \subseteq reported \cup S,
           \A d \in Conns : conn'[d].file \in {conn[d].file, None}
    PROVE  ReceivedFilesAreNew'
<1> SUFFICES ASSUME NEW c \in Conns, Receiving(c)' PROVE NewToAll(c)'
  BY DEF ReceivedFilesAreNew
<1>1. conn'[c].file # None /\ conn'[c].file = conn[c].file
  BY DEF ConnsHaveProcesses
<1>2. Receiving(c)
  BY <1>1 DEF Inv, ConnsHaveProcesses
<1>3. NewToAll(c) /\ conn[c].file \notin Listed /\ conn[c].file \notin S
  BY <1>1, <1>2 DEF Inv, ReceivedFilesAreNew, NewToAll, Listed
<1>4. \A d \in Conns : d # c => conn'[d].file # conn'[c].file
  BY <1>1, <1>3 DEF NewToAll
<1>5. Ids(index)' = Ids(index') /\ \A p \in Procs : Ids(records[p])' = Ids(records'[p])
  BY DEF Ids
<1> QED
  BY <1>1, <1>3, <1>4, <1>5 DEF NewToAll

-----------------------------------------------------------------------------
(***************************************************************************)
(* Steps of one connection that leave the lists alone.                     *)
(***************************************************************************)

\* A connection moves: it runs in a process that runs, and has a file while it
\* receives one.
ConnMoves(c, new) ==
    /\ conn' = [conn EXCEPT ![c] = new] /\ new \in ConnType
    /\ new.proc = None \/ (new.proc \in Procs /\ proc[new.proc] # "off")
    /\ new.at # "none" => new.proc \in Procs
    /\ new.at \in {"copying", "moving", "listing"} <=> new.file # None

\* The file it goes on with, if any, is the one it had.
SameFile(c, new) == new.file \in {conn[c].file, None}

\* The other variables these invariants are about.
Rest == <<index, records, proc, home, term, live, misreads, reported, asked, gone>>

LEMMA ConnMovesKeep ==
    ASSUME Inv, NEW c \in Conns, NEW new, ConnMoves(c, new)
    PROVE  /\ conn' \in [Conns -> ConnType]
           /\ ConnsHaveProcesses'
           /\ \A p \in Procs : proc[p] = "off" => \A d \in Conns : conn'[d].proc # p
<1>0. conn \in [Conns -> ConnType] /\ None \notin Procs
  BY NoneIsApart DEF Inv, Types
<1>1. conn' \in [Conns -> ConnType]
  BY <1>0 DEF ConnMoves
<1>2. ConnsHaveProcesses'
  BY <1>0 DEF Inv, ConnsHaveProcesses, ConnMoves, Receiving
<1>3. \A p \in Procs : proc[p] = "off" => \A d \in Conns : conn'[d].proc # p
  BY <1>0 DEF Inv, OffIsEmpty, ConnMoves
<1> QED
  BY <1>1, <1>2, <1>3

\* A step that moves one connection, and the copy it receives.
LEMMA ConnStepsKeepInv ==
    ASSUME Inv, NEW c \in Conns, NEW new, ConnMoves(c, new), SameFile(c, new),
           UNCHANGED Rest,
           folders' \in [Files -> {"none", "empty", "file"}], incoming' \in SUBSET Files
    PROVE  Inv'
<1>0. conn \in [Conns -> ConnType]
  BY DEF Inv, Types
<1>1. Types' /\ OffIsEmpty' /\ ConnsHaveProcesses' /\ OneOpen' /\ IDsAreUnique'
  BY ConnMovesKeep DEF Inv, Types, OffIsEmpty, OneOpen, IDsAreUnique, Rest, Unique
<1>2. \A d \in Conns : conn'[d].file \in {conn[d].file, None}
  BY <1>0 DEF ConnMoves, SameFile
<1>3. /\ Ids(index') \subseteq Listed \cup {}
      /\ \A p \in Procs : Ids(records'[p]) \subseteq Listed \cup {}
      /\ \A d \in Conns : Receiving(d)' => conn'[d].file \notin {}
      /\ asked' \subseteq asked \cup Listed /\ reported' \subseteq reported \cup {}
  BY DEF Rest, Listed
<1>4. ReceivedFilesAreNew'
  BY <1>1, <1>2, <1>3, ReceivedStayNew
<1> QED
  BY <1>1, <1>4 DEF Inv

\* What is left of a folder is a folder, or nothing.
LEMMA RemovalsLeaveAFolder ==
    ASSUME NEW p, NEW f, folders[f] \in {"none", "empty", "file"}
    PROVE  \A left \in RemoveAll(p, f) : left \in {"none", "empty", "file"}
BY DEF RemoveAll

\* The steps of a share before it is listed move its connection only
\* (service.go:151-228, store.go:433-541).
LEMMA SharesMove ==
    ASSUME Inv, NEW c \in Conns
    PROVE  /\ \A p \in Procs : Accept(c, p) => Inv'
           /\ Attribute(c) => Inv'
           /\ Hangup(c) => Inv'
           /\ CopyFails(c) => Inv'
           /\ CommitMkdir(c) => Inv'
           /\ CommitRename(c) => Inv'
<1>0. /\ Types /\ conn \in [Conns -> ConnType] /\ conn[c] \in ConnType /\ None \notin Files
      /\ ConnsHaveProcesses
      /\ Idle \in ConnType /\ Idle.at = "none" /\ Idle.proc = None /\ Idle.file = None
  BY NoneIsApart DEF Inv, Types, Idle, ConnType, Outside
<1>1. ConnMoves(c, Idle) /\ SameFile(c, Idle) <=> Leave(c)
  BY <1>0 DEF ConnMoves, SameFile, Leave
<1>2. ASSUME NEW p \in Procs, Accept(c, p) PROVE Inv'
  <2> DEFINE new == [Idle EXCEPT !.at = "opening", !.proc = p]
  <2>1. ConnMoves(c, new) /\ SameFile(c, new)
    BY <1>0, <1>2 DEF Accept, ConnMoves, SameFile, ConnType, Idle
  <2>2. UNCHANGED Rest /\ folders' = folders /\ incoming' = incoming
    BY <1>2 DEF Accept, Rest, disk, store, bounds, history
  <2> HIDE DEF new
  <2> QED
    BY <1>0, <2>1, <2>2, ConnStepsKeepInv DEF Types
<1>3. ASSUME Attribute(c) PROVE Inv'
  <2>1. PICK s \in {Outside, term} : conn' = [conn EXCEPT ![c].at = "header", ![c].src = s]
    BY <1>3 DEF Attribute
  <2> DEFINE new == [conn[c] EXCEPT !.at = "header", !.src = s]
  <2>2. s \in Nat /\ conn[c].file = None /\ conn[c].proc \in Procs /\ proc[conn[c].proc] # "off"
    BY <1>0, <1>3 DEF Attribute, At, Types, Outside, ConnsHaveProcesses, Receiving
  <2>3. ConnMoves(c, new) /\ SameFile(c, new)
    BY <1>0, <2>1, <2>2 DEF ConnMoves, SameFile, ConnType
  <2>4. UNCHANGED Rest /\ folders' = folders /\ incoming' = incoming
    BY <1>3 DEF Attribute, Rest, disk, store, bounds, history
  <2> HIDE DEF new
  <2> QED
    BY <1>0, <2>3, <2>4, ConnStepsKeepInv DEF Types
<1>4. ASSUME Hangup(c) PROVE Inv'
  <2>1. UNCHANGED Rest /\ folders' = folders /\ incoming' = incoming
    BY <1>4 DEF Hangup, Rest, disk, store, bounds
  <2> QED
    BY <1>0, <1>1, <1>4, <2>1, ConnStepsKeepInv DEF Types, Hangup
<1>5. ASSUME CopyFails(c) PROVE Inv'
  <2>1. UNCHANGED Rest /\ folders' = folders /\ incoming' \in SUBSET Files /\ Leave(c)
    BY <1>0, <1>5 DEF CopyFails, Abort, Rest, Types
  <2> QED
    BY <1>0, <1>1, <2>1, ConnStepsKeepInv DEF Types
<1>6. ASSUME NEW at, NEW next, at \in {"copying", "moving"}, next \in {"moving", "listing"}, At(c, at),
             conn' = [conn EXCEPT ![c].at = next]
      PROVE  \E new : ConnMoves(c, new) /\ SameFile(c, new)
  <2> DEFINE new == [conn[c] EXCEPT !.at = next]
  <2>1. conn[c].file # None /\ conn[c].proc \in Procs /\ proc[conn[c].proc] # "off"
    BY <1>0, <1>6 DEF At, ConnsHaveProcesses, Receiving
  <2>2. ConnMoves(c, new) /\ SameFile(c, new)
    BY <1>0, <1>6, <2>1 DEF ConnMoves, SameFile, ConnType
  <2> QED
    BY <2>2
<1>7. ASSUME CommitMkdir(c) PROVE Inv'
  <2>1. UNCHANGED Rest /\ folders' \in [Files -> {"none", "empty", "file"}] /\ incoming' \in SUBSET Files
    BY <1>0, <1>7 DEF CommitMkdir, Abort, Rest, Types
  <2>2. Leave(c) \/ (At(c, "copying") /\ conn' = [conn EXCEPT ![c].at = "moving"])
    BY <1>7 DEF CommitMkdir, Abort
  <2>3. \E new : ConnMoves(c, new) /\ SameFile(c, new)
    BY <1>1, <1>6, <2>2
  <2> QED
    BY <2>1, <2>3, ConnStepsKeepInv
<1>8. ASSUME CommitRename(c) PROVE Inv'
  <2>0. conn[c].file \in Files
    BY <1>0, <1>8 DEF CommitRename, At, ConnsHaveProcesses, Receiving, ConnType
  <2>1. \A left \in RemoveAll(conn[c].proc, conn[c].file) : left \in {"none", "empty", "file"}
    BY <1>0, <2>0, RemovalsLeaveAFolder DEF Types
  <2>2. UNCHANGED Rest /\ folders' \in [Files -> {"none", "empty", "file"}] /\ incoming' \in SUBSET Files
    <3>1. UNCHANGED Rest /\ incoming' \in SUBSET Files
      BY <1>0, <1>8 DEF CommitRename, Abort, Rest, Types
    <3>2. \E left \in {"none", "empty", "file"} : folders' = [folders EXCEPT ![conn[c].file] = left]
      BY <1>8, <2>1 DEF CommitRename
    <3> QED
      BY <1>0, <2>0, <3>1, <3>2 DEF Types
  <2>3. Leave(c) \/ (At(c, "moving") /\ conn' = [conn EXCEPT ![c].at = "listing"])
    BY <1>8 DEF CommitRename, Abort
  <2>4. \E new : ConnMoves(c, new) /\ SameFile(c, new)
    BY <1>1, <1>6, <2>3
  <2> QED
    BY <2>2, <2>4, ConnStepsKeepInv
<1> QED
  BY <1>2, <1>3, <1>4, <1>5, <1>7, <1>8

\* A share begins with an ID that no list and no other connection has
\* (store.go:433-463).
LEMMA BeginKeepsInv == ASSUME Inv, NEW c \in Conns, NEW f \in Files, Begin(c, f) PROVE Inv'
<1>0. conn \in [Conns -> ConnType] /\ conn[c] \in ConnType /\ None \notin Files /\ At(c, "header")
  BY NoneIsApart DEF Inv, Types, Begin
<1> DEFINE new == [conn[c] EXCEPT !.at = "copying", !.file = f]
<1>1. conn[c].proc \in Procs /\ proc[conn[c].proc] # "off"
  BY <1>0 DEF At, Inv, ConnsHaveProcesses
<1>2. ConnMoves(c, new)
  BY <1>0, <1>1 DEF Begin, ConnMoves, ConnType
<1>3. new.file = f
  BY <1>0 DEF ConnType
<1> HIDE DEF new
<1>4. UNCHANGED <<Rest, folders>> /\ incoming' \in SUBSET Files /\ Fresh(f)
  BY DEF Begin, Rest, Inv, Types, bounds, history
<1>5. Types' /\ OffIsEmpty' /\ ConnsHaveProcesses' /\ OneOpen' /\ IDsAreUnique'
  BY <1>2, <1>4, ConnMovesKeep DEF Inv, Types, OffIsEmpty, OneOpen, IDsAreUnique, Rest, Unique
<1>6. \A d \in Conns : conn'[d].file = IF d = c THEN f ELSE conn[d].file
  BY <1>0, <1>2, <1>3 DEF ConnMoves
<1>7. ASSUME NEW d \in Conns, Receiving(d)' PROVE NewToAll(d)'
  <2>1. UNCHANGED <<index, records, asked, reported>>
    BY <1>4 DEF Rest
  <2>2. CASE d = c
    BY <1>4, <1>6, <2>1, <2>2 DEF NewToAll, Fresh, Ids
  <2>3. CASE d # c
    <3>1. conn'[d] = conn[d]
      BY <1>0, <1>2, <2>3 DEF ConnMoves
    <3>2. NewToAll(d)
      BY <1>7, <3>1 DEF Inv, ReceivedFilesAreNew, Receiving
    <3>3. conn[d].file # f
      BY <1>4 DEF Fresh
    <3>4. \A e \in Conns : e # d => conn'[e].file # conn'[d].file
      BY <1>6, <2>3, <3>1, <3>2, <3>3 DEF NewToAll
    <3> QED
      BY <2>1, <3>1, <3>2, <3>4 DEF NewToAll, Ids
  <2> QED
    BY <2>2, <2>3
<1> QED
  BY <1>5, <1>7 DEF Inv, ReceivedFilesAreNew

-----------------------------------------------------------------------------
(***************************************************************************)
(* Steps that change a process's list and the index.                       *)
(***************************************************************************)

\* One list may have changed in process p, by records of S, and the index is
\* the old one or that list.
Relists(p, S) ==
    /\ proc[p] # "off"
    /\ \E list \in SUBSET Rec :
         /\ Unique(list) /\ Ids(list) \subseteq Listed \cup S
         /\ records' \in {records, [records EXCEPT ![p] = list]}
         /\ index' \in {index, list}

LEMMA RelistsKeep ==
    ASSUME Types, OffIsEmpty, IDsAreUnique, NEW p \in Procs, NEW S, Relists(p, S)
    PROVE  /\ index' \in SUBSET Rec /\ records' \in [Procs -> SUBSET Rec]
           /\ IDsAreUnique'
           /\ Ids(index') \subseteq Listed \cup S
           /\ \A q \in Procs : Ids(records'[q]) \subseteq Listed \cup S
           /\ \A q \in Procs : proc[q] = "off" => records'[q] = {}
<1>1. PICK list \in SUBSET Rec :
         /\ Unique(list) /\ Ids(list) \subseteq Listed \cup S
         /\ records' \in {records, [records EXCEPT ![p] = list]}
         /\ index' \in {index, list}
  BY DEF Relists
<1>2. \A q \in Procs : records'[q] \in {records[q], list} /\ (q # p => records'[q] = records[q])
  BY <1>1 DEF Types
<1>3. Ids(index) \subseteq Listed /\ \A q \in Procs : Ids(records[q]) \subseteq Listed
  BY DEF Listed
<1>4. index' \in SUBSET Rec /\ records' \in [Procs -> SUBSET Rec]
  BY <1>1 DEF Types
<1>5. IDsAreUnique'
  <2>1. Unique(index') /\ \A q \in Procs : Unique(records'[q])
    BY <1>1, <1>2 DEF IDsAreUnique
  <2> QED
    BY <2>1 DEF IDsAreUnique, Unique
<1>6. Ids(index') \subseteq Listed \cup S
  BY <1>1, <1>3
<1>7. \A q \in Procs : Ids(records'[q]) \subseteq Listed \cup S
  <2> TAKE q \in Procs
  <2>1. CASE records'[q] = records[q]
    BY <1>3, <2>1
  <2>2. CASE records'[q] = list
    BY <1>1, <2>2
  <2> QED
    BY <1>2, <2>1, <2>2
<1>8. \A q \in Procs : proc[q] = "off" => records'[q] = {}
  BY <1>2 DEF Relists, OffIsEmpty
<1> QED
  BY <1>4, <1>5, <1>6, <1>7, <1>8

\* A step that relists in process p, and moves no connection.
LEMMA RelistStepsKeepInv ==
    ASSUME Inv, NEW p \in Procs, Relists(p, {}), UNCHANGED <<proc, conn>>,
           incoming' \in SUBSET Files, folders' \in [Files -> {"none", "empty", "file"}],
           home' \in [Homes -> HomeType],
           \A h \in Homes : home'[h].proc = home[h].proc,
           UNCHANGED <<term, live, misreads>>,
           reported' = reported, asked' \in SUBSET Files, asked' \subseteq asked \cup Listed, gone' \in SUBSET Files
    PROVE  Inv'
<1>1. /\ index' \in SUBSET Rec /\ records' \in [Procs -> SUBSET Rec]
      /\ IDsAreUnique'
      /\ Ids(index') \subseteq Listed \cup {}
      /\ \A q \in Procs : Ids(records'[q]) \subseteq Listed \cup {}
      /\ \A q \in Procs : proc[q] = "off" => records'[q] = {}
  BY RelistsKeep DEF Inv
<1>2. Types'
  BY <1>1 DEF Inv, Types
<1>3. OffIsEmpty' /\ ConnsHaveProcesses' /\ OneOpen'
  BY <1>1 DEF Inv, OffIsEmpty, ConnsHaveProcesses, Receiving, OneOpen
<1>4. ReceivedFilesAreNew'
  <2>1. /\ \A d \in Conns : Receiving(d)' => conn'[d].file \notin {}
        /\ reported' \subseteq reported \cup {}
        /\ \A d \in Conns : conn'[d].file \in {conn[d].file, None}
    OBVIOUS
  <2> QED
    BY <1>1, <1>3, <2>1, ReceivedStayNew
<1> QED
  BY <1>1, <1>2, <1>3, <1>4 DEF Inv

\* What Delete leaves: the files it removed are unlisted, and those that could
\* not be removed stay listed, with a folder in any state (store.go:420-462).
Deletes(p, ids, deleted) ==
    LET wanted == {r \in records[p] : r.id \in ids} IN
    /\ proc[p] = "open" /\ deleted \subseteq wanted
    /\ folders' \in [Files -> {"none", "empty", "file"}]
    /\ \A f \in Files : /\ f \in Ids(deleted) => folders'[f] = "none"
                        /\ f \notin Ids(wanted) => folders'[f] = folders[f]
                        /\ folders'[f] = "file" => folders[f] = "file"
    /\ records' = [records EXCEPT ![p] = @ \ deleted]
    /\ kept' = [kept EXCEPT ![p] = @ - Bytes(Ids(deleted))]
    /\ reserved' = reserved /\ faults' \in {faults, faults + 1}
    /\ index' \in {index, records[p] \ deleted}
    /\ home' = Notified(p) \/ (deleted = {} /\ home' = home /\ records' = records)
    /\ gone' = gone \cup Ids(deleted) /\ asked' = asked \cup Ids(wanted)
    /\ UNCHANGED <<incoming, proc, conn, term, live, misreads, reported>>

LEMMA DeleteDoes ==
    ASSUME Types, IDsAreUnique, NEW p \in Procs, NEW ids, Delete(p, ids)
    PROVE  \E deleted : Deletes(p, ids, deleted)
<1> DEFINE wanted == {r \in records[p] : r.id \in ids}
<1>1. PICK stuck \in SUBSET wanted, outcome \in {"done", "before", "after"} :
         LET deleted == wanted \ stuck
             left    == records[p] \ deleted
         IN
         /\ \E torn \in BOOLEAN : folders' = Removed(Ids(deleted), IF torn THEN Ids(stuck) ELSE {})
         /\ records' = [records EXCEPT ![p] = left]
         /\ kept' = [kept EXCEPT ![p] = @ - Bytes(Ids(deleted))]
         /\ \/ deleted = {} /\ outcome = "done" /\ UNCHANGED <<index, home>>
            \/ deleted # {} /\ writeIndex(p, left, outcome) /\ home' = Notified(p)
         /\ gone' = gone \cup Ids(deleted)
         /\ Count(p, stuck # {} \/ outcome # "done")
  BY DEF Delete
<1> DEFINE deleted == wanted \ stuck
<1>2. PICK torn \in BOOLEAN : folders' = Removed(Ids(deleted), IF torn THEN Ids(stuck) ELSE {})
  BY <1>1
<1>3. folders \in [Files -> {"none", "empty", "file"}] /\ records \in [Procs -> SUBSET Rec]
  BY DEF Types
<1>4. Ids(deleted) \subseteq Ids(wanted) /\ Ids(stuck) \subseteq Ids(wanted)
  BY DEF Ids
<1>10. \A f \in Ids(deleted) : f \notin Ids(stuck)
  BY DEF IDsAreUnique, Unique, Ids
<1> HIDE DEF wanted
<1>5. /\ folders' \in [Files -> {"none", "empty", "file"}]
      /\ \A f \in Files : /\ f \in Ids(deleted) => folders'[f] = "none"
                          /\ f \notin Ids(wanted) => folders'[f] = folders[f]
                          /\ folders'[f] = "file" => folders[f] = "file"
  <2> HIDE DEF deleted
  <2> DEFINE partly == IF torn THEN Ids(stuck) ELSE {}
  <2>0. partly \subseteq Ids(stuck)
    OBVIOUS
  <2> HIDE DEF partly
  <2>1. folders' = [f \in Files |-> CASE f \in Ids(deleted) -> "none" [] f \in partly -> "empty" [] OTHER -> folders[f]]
    BY <1>2 DEF Removed, partly
  <2>2. \A f \in Files : folders'[f] = IF f \in Ids(deleted) THEN "none" ELSE IF f \in partly THEN "empty" ELSE folders[f]
    <3> TAKE f \in Files
    <3>1. folders'[f] = CASE f \in Ids(deleted) -> "none" [] f \in partly -> "empty" [] OTHER -> folders[f]
      BY <2>1
    <3>2. f \in Ids(deleted) => f \notin partly
      BY <1>10, <2>0
    <3> QED
      BY <3>1, <3>2
  <2> QED
    BY <1>3, <1>4, <2>0, <2>1, <2>2
<1>6. records' = [records EXCEPT ![p] = @ \ deleted] /\ kept' = [kept EXCEPT ![p] = @ - Bytes(Ids(deleted))]
  BY <1>1
<1>13. faults' \in {faults, faults + 1} /\ reserved' = reserved
  BY <1>1 DEF Count, Delete
<1>7. index' \in {index, records[p] \ deleted}
  BY <1>1 DEF writeIndex
<1>8. home' = Notified(p) \/ (deleted = {} /\ home' = home /\ records' = records)
  BY <1>1, <1>3
<1>9. /\ gone' = gone \cup Ids(deleted) /\ asked' = asked \cup Ids(wanted) /\ proc[p] = "open"
      /\ UNCHANGED <<incoming, proc, conn, term, live, misreads, reported>>
  BY <1>1 DEF Delete, wanted
<1>11. deleted \subseteq wanted
  OBVIOUS
<1>12. Deletes(p, ids, deleted)
  <2> HIDE DEF deleted
  <2> QED
    BY <1>5, <1>6, <1>7, <1>8, <1>9, <1>11, <1>13 DEF Deletes, wanted
<1> QED
  BY <1>12

\* The Home connections of a process get a signal, and are otherwise the same.
LEMMA NotifiedHomes ==
    ASSUME Types, NEW p \in Procs
    PROVE  /\ Notified(p) \in [Homes -> HomeType]
           /\ \A h \in Homes : /\ Notified(p)[h].proc = home[h].proc
                               /\ Notified(p)[h].view = home[h].view
                               /\ Notified(p)[h].reading = home[h].reading
                               /\ Notified(p)[h].sent = home[h].sent
                               /\ home[h].proc = p => Notified(p)[h].pending
                               /\ home[h].proc # p => Notified(p)[h].pending = home[h].pending
<1>1. \A h \in Homes : Notified(p)[h] = IF home[h].proc = p THEN [home[h] EXCEPT !.pending = TRUE] ELSE home[h]
  BY DEF Notified, HomesOf
<1>2. home \in [Homes -> HomeType]
  BY DEF Types
<1>3. \A h \in Homes : [home[h] EXCEPT !.pending = TRUE] \in HomeType
  BY <1>2 DEF HomeType
<1>4. Notified(p) = [h \in Homes |-> Notified(p)[h]]
  BY DEF Notified
<1>5. Notified(p) \in [Homes -> HomeType]
  <2>1. \A h \in Homes : Notified(p)[h] \in HomeType
    BY <1>1, <1>2, <1>3
  <2> QED
    BY <1>4, <2>1
<1>6. ASSUME NEW h \in Homes
      PROVE  /\ Notified(p)[h].proc = home[h].proc
             /\ Notified(p)[h].view = home[h].view
             /\ Notified(p)[h].reading = home[h].reading
             /\ Notified(p)[h].sent = home[h].sent
             /\ home[h].proc = p => Notified(p)[h].pending
             /\ home[h].proc # p => Notified(p)[h].pending = home[h].pending
  BY <1>1, <1>2 DEF HomeType
<1> QED
  BY <1>5, <1>6

LEMMA DeleteKeepsInv == ASSUME Inv, NEW p \in Procs, NEW ids, Delete(p, ids) PROVE Inv'
<1>1. PICK deleted : Deletes(p, ids, deleted)
  BY DeleteDoes DEF Inv
<1> DEFINE wanted == {r \in records[p] : r.id \in ids}
           left == records[p] \ deleted
<1>2. left \in SUBSET Rec /\ wanted \subseteq records[p] /\ deleted \subseteq wanted
  BY <1>1 DEF Deletes, Inv, Types
<1>3. Ids(left) \subseteq Listed /\ Ids(wanted) \subseteq Listed /\ Ids(deleted) \subseteq Ids(wanted)
  BY <1>2 DEF Listed, Ids
<1>4. Ids(wanted) \subseteq Files /\ Unique(left)
  BY <1>2, SomeAreUnique DEF Ids, Inv, Types, Rec, IDsAreUnique
<1>5. Relists(p, {})
  BY <1>1, <1>2, <1>3, <1>4 DEF Deletes, Relists
<1>6. /\ home' \in [Homes -> HomeType]
      /\ \A h \in Homes : home'[h].proc = home[h].proc
  <2>1. Types /\ home \in [Homes -> HomeType]
    BY DEF Inv, Types
  <2>2. home' = Notified(p) \/ home' = home
    BY <1>1 DEF Deletes
  <2> QED
    BY <2>1, <2>2, NotifiedHomes
<1>7. asked' \in SUBSET Files /\ asked' \subseteq asked \cup Listed /\ gone' \in SUBSET Files
  BY <1>1, <1>3, <1>4 DEF Deletes, Inv, Types
<1>8. /\ UNCHANGED <<proc, conn, term, live, misreads>>
      /\ incoming' \in SUBSET Files /\ folders' \in [Files -> {"none", "empty", "file"}] /\ reported' = reported
  BY <1>1 DEF Deletes, Inv, Types
<1> QED
  BY <1>5, <1>6, <1>7, <1>8, RelistStepsKeepInv

\* The records a view marks seen, and the list with them marked.
Marked(p, v) == {r \in records[p] : ~r.seen /\ Matches(v, r, Current(r.src))}
Updated(p, v) == (records[p] \ Marked(p, v)) \cup {[r EXCEPT !.seen = TRUE] : r \in Marked(p, v)}

\* Marking files seen keeps the files a list names.
LEMMA UpdatedLists ==
    ASSUME Types, IDsAreUnique, NEW p \in Procs, NEW v
    PROVE  /\ Updated(p, v) \in SUBSET Rec /\ Unique(Updated(p, v))
           /\ Ids(Updated(p, v)) = Ids(records[p])
<1>1. records[p] \in SUBSET Rec /\ Unique(records[p]) /\ Marked(p, v) \subseteq records[p]
  BY DEF Types, IDsAreUnique, Marked
<1>2. \A r \in Rec : [r EXCEPT !.seen = TRUE] \in Rec /\ [r EXCEPT !.seen = TRUE].id = r.id
  BY DEF Rec
<1>3. Updated(p, v) \in SUBSET Rec
  BY <1>1, <1>2 DEF Updated
<1>4. \A u \in Updated(p, v) : \E r \in records[p] :
         r.id = u.id /\ (r \in Marked(p, v) => u = [r EXCEPT !.seen = TRUE]) /\ (r \notin Marked(p, v) => u = r)
  BY <1>1, <1>2 DEF Updated
<1>5. Unique(Updated(p, v))
  BY <1>1, <1>4 DEF Unique
<1>6. Ids(Updated(p, v)) \subseteq Ids(records[p])
  BY <1>4 DEF Ids
<1>7. \A r \in records[p] : \E u \in Updated(p, v) : u.id = r.id
  BY <1>1, <1>2 DEF Updated
<1>8. Ids(records[p]) \subseteq Ids(Updated(p, v))
  BY <1>7 DEF Ids
<1> QED
  BY <1>3, <1>5, <1>6, <1>8

\* What SetView changes (store.go:372-397).
Views(h, v, p) ==
    /\ home[h].proc = p
    /\ \/ /\ Marked(p, v) = {} /\ home' = [home EXCEPT ![h].view = v] /\ UNCHANGED <<index, records>>
       \/ /\ Marked(p, v) # {} /\ home' = [Notified(p) EXCEPT ![h].view = v]
          /\ records' = [records EXCEPT ![p] = Updated(p, v)]
          /\ index' \in {index, Updated(p, v)}
    /\ UNCHANGED <<folders, incoming, proc, conn, term, live, misreads, history>>

LEMMA SetViewDoes ==
    ASSUME Types, NEW h \in Homes, NEW v, SetView(h, v)
    PROVE  home[h].proc \in Procs /\ Views(h, v, home[h].proc)
<1>1. home[h].proc \in Procs
  BY DEF SetView, Types, HomeType
<1>2. \/ Marked(home[h].proc, v) = {} /\ home' = [home EXCEPT ![h].view = v] /\ UNCHANGED <<index, records>>
      \/ /\ Marked(home[h].proc, v) # {} /\ home' = [Notified(home[h].proc) EXCEPT ![h].view = v]
         /\ records' = [records EXCEPT ![home[h].proc] = Updated(home[h].proc, v)]
         /\ index' \in {index, Updated(home[h].proc, v)}
  BY DEF SetView, Marked, Updated, writeIndex
<1> QED
  BY <1>1, <1>2 DEF SetView, Views

LEMMA ViewsAreHomes ==
    ASSUME Inv, NEW h \in Homes, NEW v \in View, NEW p \in Procs, Views(h, v, p)
    PROVE  /\ home' \in [Homes -> HomeType]
           /\ \A g \in Homes : /\ home'[g].proc = home[g].proc
                               /\ home'[g].view = IF g = h THEN v ELSE home[g].view
                               /\ \/ home'[g].pending /\ home[g].proc = p
                                  \/ /\ home'[g].pending = home[g].pending
                                     /\ home[g].proc = p => records' = records
                               /\ home'[g].reading = home[g].reading /\ home'[g].sent = home[g].sent
<1>0. Types /\ home \in [Homes -> HomeType] /\ Notified(p) \in [Homes -> HomeType]
  <2>1. Types /\ home \in [Homes -> HomeType]
    BY DEF Inv, Types
  <2> QED
    BY <2>1, NotifiedHomes
<1>1. CASE home' = [home EXCEPT ![h].view = v] /\ records' = records
  BY <1>0, <1>1 DEF HomeType
<1>2. CASE home' = [Notified(p) EXCEPT ![h].view = v]
  <2>1. home' \in [Homes -> HomeType]
    BY <1>0, <1>2 DEF HomeType
  <2>2. \A g \in Homes : /\ home'[g].proc = Notified(p)[g].proc /\ home'[g].pending = Notified(p)[g].pending
                         /\ home'[g].reading = Notified(p)[g].reading /\ home'[g].sent = Notified(p)[g].sent
                         /\ home'[g].view = IF g = h THEN v ELSE Notified(p)[g].view
    BY <1>0, <1>2 DEF HomeType
  <2>3. ASSUME NEW g \in Homes
        PROVE  /\ home'[g].proc = home[g].proc
               /\ home'[g].view = IF g = h THEN v ELSE home[g].view
               /\ home'[g].reading = home[g].reading /\ home'[g].sent = home[g].sent
    BY <1>0, <2>2, NotifiedHomes
  <2>4. ASSUME NEW g \in Homes
        PROVE  \/ home'[g].pending /\ home[g].proc = p
               \/ home'[g].pending = home[g].pending /\ home[g].proc # p
    <3>1. CASE home[g].proc = p
      BY <1>0, <2>2, <3>1, NotifiedHomes
    <3>2. CASE home[g].proc # p
      BY <1>0, <2>2, <3>2, NotifiedHomes
    <3> QED
      BY <3>1, <3>2
  <2> QED
    BY <2>1, <2>3, <2>4
<1> QED
  BY <1>1, <1>2 DEF Views

LEMMA SetViewKeepsInv == ASSUME Inv, NEW h \in Homes, NEW v \in View, SetView(h, v) PROVE Inv'
<1>1. PICK p \in Procs : p = home[h].proc /\ Views(h, v, p)
  BY SetViewDoes DEF Inv
<1>2. Updated(p, v) \in SUBSET Rec /\ Unique(Updated(p, v)) /\ Ids(Updated(p, v)) \subseteq Listed
  BY UpdatedLists DEF Inv, Listed
<1>3. proc[p] # "off"
  BY <1>1 DEF Inv, OffIsEmpty
<1>4. Relists(p, {})
  <2>1. records' \in {records, [records EXCEPT ![p] = Updated(p, v)]} /\ index' \in {index, Updated(p, v)}
    BY <1>1 DEF Views
  <2> QED
    BY <1>2, <1>3, <2>1 DEF Relists
<1>5. home' \in [Homes -> HomeType] /\ \A g \in Homes : home'[g].proc = home[g].proc
  BY <1>1, ViewsAreHomes
<1>6. /\ UNCHANGED <<proc, conn, term, live, misreads>>
      /\ incoming' \in SUBSET Files /\ folders' \in [Files -> {"none", "empty", "file"}] /\ reported' = reported
      /\ asked' \in SUBSET Files /\ asked' \subseteq asked \cup Listed /\ gone' \in SUBSET Files
  BY <1>1 DEF Views, history, Inv, Types
<1> QED
  BY <1>4, <1>5, <1>6, RelistStepsKeepInv

\* A share is listed, and its command told so, or it is undone (store.go:541-608).
Listing(c, p, f) ==
    /\ conn[c].at = "listing" /\ p = conn[c].proc /\ f = conn[c].file
    /\ p \in Procs /\ proc[p] # "off" /\ f \in Files
Completed(c, p, f) ==
    LET listed == records[p] \cup {NewRecord(c)} IN
    /\ proc[p] = "open" /\ index' = listed /\ records' = [records EXCEPT ![p] = listed]
    /\ home' = Notified(p) /\ reported' = reported \cup {f} /\ folders' = folders
    /\ conn' = [conn EXCEPT ![c] = [conn[c] EXCEPT !.at = "header", !.file = None, !.stored = @ \cup {f}]]
Undone(c, p, f) ==
    /\ index' \in {index, records[p] \cup {NewRecord(c)}}
    /\ \E left \in {"none", "empty", "file"} : folders' = [folders EXCEPT ![f] = left]
    /\ Leave(c)
    /\ UNCHANGED <<records, home, reported>>

LEMMA CommitListDoes ==
    ASSUME Inv, NEW c \in Conns, CommitList(c)
    PROVE  \E p, f : /\ Listing(c, p, f)
                     /\ Completed(c, p, f) \/ Undone(c, p, f)
                     /\ UNCHANGED <<incoming, proc, term, live, misreads, asked, gone>>
<1>1. PICK p, f : p = conn[c].proc /\ f = conn[c].file
  OBVIOUS
<1>2. conn[c].at = "listing" /\ proc[p] # "off"
  BY <1>1 DEF CommitList, At
<1>3. p \in Procs /\ f \in Files
  BY <1>1, <1>2 DEF Inv, Types, ConnType, ConnsHaveProcesses, Receiving
<1>4. PICK outcome \in Writes(p) :
         /\ writeIndex(p, records[p] \cup {NewRecord(c)}, outcome)
         /\ \/ /\ outcome = "done"
               /\ records' = [records EXCEPT ![p] = records[p] \cup {NewRecord(c)}]
               /\ home' = Notified(p)
               /\ reported' = reported \cup {f}
               /\ conn' = [conn EXCEPT ![c].at = "header", ![c].file = None, ![c].stored = @ \cup {f}]
               /\ UNCHANGED <<folders>>
            \/ /\ outcome # "done"
               /\ \E left \in RemoveAll(p, f) : folders' = [folders EXCEPT ![f] = left]
               /\ Leave(c)
               /\ UNCHANGED <<records, home, reported>>
  BY <1>1 DEF CommitList
<1>5. CASE outcome = "done"
  <2>1. proc[p] = "open"
    BY <1>2, <1>3, <1>5 DEF Writes, Inv, Types
  <2>2. index' = records[p] \cup {NewRecord(c)}
    BY <1>4, <1>5 DEF writeIndex
  <2>3. conn' = [conn EXCEPT ![c] = [conn[c] EXCEPT !.at = "header", !.file = None, !.stored = @ \cup {f}]]
    BY <1>4, <1>5
  <2>4. Completed(c, p, f)
    BY <1>4, <1>5, <2>1, <2>2, <2>3 DEF Completed
  <2> QED
    BY <1>1, <1>2, <1>3, <2>4 DEF CommitList, Listing
<1>6. CASE outcome # "done"
  <2>1. folders[f] \in {"none", "empty", "file"}
    BY <1>3 DEF Inv, Types
  <2>2. \E left \in {"none", "empty", "file"} : folders' = [folders EXCEPT ![f] = left]
    BY <1>4, <1>6, <2>1, RemovalsLeaveAFolder
  <2>3. index' \in {index, records[p] \cup {NewRecord(c)}}
    BY <1>4 DEF writeIndex
  <2>4. Undone(c, p, f)
    BY <1>4, <1>6, <2>2, <2>3 DEF Undone
  <2> QED
    BY <1>1, <1>2, <1>3, <2>4 DEF CommitList, Listing
<1> QED
  BY <1>5, <1>6

\* The record of a new share.
LEMMA TheNewRecord ==
    ASSUME Inv, NEW c \in Conns, NEW p, NEW f, Listing(c, p, f)
    PROVE  /\ NewRecord(c) \in Rec /\ NewRecord(c).id = f /\ NewRecord(c).src = conn[c].src
           /\ NewRecord(c).seen = SeenAtOnce(p, [id |-> f, seen |-> FALSE, src |-> conn[c].src])
           /\ NewToAll(c) /\ f \notin Listed
<1> DEFINE r == [id |-> f, seen |-> FALSE, src |-> conn[c].src]
           seen == SeenAtOnce(p, r)
<1>1. NewRecord(c) = [r EXCEPT !.seen = seen]
  BY DEF Listing, NewRecord
<1>2. seen \in BOOLEAN
  BY DEF SeenAtOnce
<1>3. conn[c].src \in Nat /\ f \in Files
  BY DEF Listing, Inv, Types, ConnType
<1>4. NewToAll(c)
  BY DEF Listing, Inv, ReceivedFilesAreNew, Receiving
<1>5. f \notin Listed
  BY <1>4 DEF NewToAll, Listing, Listed
<1>6. /\ NewRecord(c).id = f /\ NewRecord(c).src = conn[c].src /\ NewRecord(c).seen = seen
      /\ NewRecord(c) = [id |-> f, seen |-> seen, src |-> conn[c].src]
  <2> HIDE DEF seen
  <2> QED
    BY <1>1
<1> HIDE DEF seen
<1>7. NewRecord(c) \in Rec
  BY <1>2, <1>3, <1>6 DEF Rec
<1> QED
  BY <1>4, <1>5, <1>6, <1>7 DEF seen

LEMMA CommitListKeepsInv == ASSUME Inv, NEW c \in Conns, CommitList(c) PROVE Inv'
<1>1. PICK p, f : /\ Listing(c, p, f)
                  /\ Completed(c, p, f) \/ Undone(c, p, f)
                  /\ UNCHANGED <<incoming, proc, term, live, misreads, asked, gone>>
  BY CommitListDoes
<1>2. PICK list : list = records[p] \cup {NewRecord(c)}
  OBVIOUS
<1>3. p \in Procs /\ proc[p] # "off" /\ f \in Files /\ f # None /\ conn[c] \in ConnType
  BY <1>1, NoneIsApart DEF Listing, Inv, Types
<1>4. list \in SUBSET Rec /\ Unique(list) /\ Ids(list) \subseteq Listed \cup {f}
  <2>0. NewRecord(c) \in Rec /\ NewRecord(c).id = f /\ f \notin Listed
    BY <1>1, TheNewRecord
  <2>1. records[p] \in SUBSET Rec /\ Unique(records[p]) /\ Ids(records[p]) \subseteq Listed
    BY <1>3 DEF Inv, Types, IDsAreUnique, Listed
  <2>2. Ids(list) = Ids(records[p]) \cup {f}
    BY <1>2, <2>0 DEF Ids
  <2>3. NewRecord(c).id \notin Ids(records[p])
    BY <2>0, <2>1
  <2> QED
    BY <1>2, <2>0, <2>1, <2>2, <2>3, OneMoreIsUnique
<1>5. Relists(p, {f})
  <2>1. records' \in {records, [records EXCEPT ![p] = list]} /\ index' \in {index, list}
    BY <1>1, <1>2 DEF Completed, Undone
  <2> QED
    BY <1>3, <1>4, <2>1 DEF Relists
<1>6. PICK new : ConnMoves(c, new) /\ new.file = None
  <2>1. CASE Completed(c, p, f)
    <3> DEFINE new == [conn[c] EXCEPT !.at = "header", !.file = None, !.stored = @ \cup {f}]
    <3>1. /\ conn' = [conn EXCEPT ![c] = new] /\ new \in ConnType /\ new.proc = p
          /\ new.at = "header" /\ new.file = None
      BY <1>1, <1>3, <2>1 DEF Completed, Listing, ConnType
    <3> HIDE DEF new
    <3>2. ConnMoves(c, new)
      BY <1>3, <3>1 DEF ConnMoves
    <3> QED
      BY <3>1, <3>2
  <2>2. CASE Undone(c, p, f)
    <3>1. Idle \in ConnType /\ Idle.at = "none" /\ Idle.proc = None /\ Idle.file = None
      BY DEF ConnType, Idle, Outside
    <3>2. ConnMoves(c, Idle)
      BY <2>2, <3>1 DEF Undone, Leave, ConnMoves
    <3> QED
      BY <3>1, <3>2
  <2> QED
    BY <1>1, <2>1, <2>2
<1>7. conn' \in [Conns -> ConnType] /\ ConnsHaveProcesses' /\ \A q \in Procs : proc[q] = "off" => \A d \in Conns : conn'[d].proc # q
  BY <1>6, ConnMovesKeep
<1>8. /\ home' \in [Homes -> HomeType]
      /\ \A h \in Homes : home'[h].proc = home[h].proc
      /\ folders' \in [Files -> {"none", "empty", "file"}]
      /\ reported' \in SUBSET Files /\ reported' \subseteq reported \cup {f}
  <2>1. /\ Types /\ home \in [Homes -> HomeType] /\ reported \in SUBSET Files
        /\ folders \in [Files -> {"none", "empty", "file"}]
    BY DEF Inv, Types
  <2>2. home' = Notified(p) \/ home' = home
    BY <1>1 DEF Completed, Undone
  <2>3. reported' = reported \/ reported' = reported \cup {f}
    BY <1>1 DEF Completed, Undone
  <2>4. folders' = folders \/ \E left \in {"none", "empty", "file"} : folders' = [folders EXCEPT ![f] = left]
    BY <1>1 DEF Completed, Undone
  <2>5. home' \in [Homes -> HomeType] /\ \A h \in Homes : home'[h].proc = home[h].proc
    BY <1>3, <2>1, <2>2, NotifiedHomes
  <2> QED
    BY <1>3, <2>1, <2>3, <2>4, <2>5
<1>9. /\ index' \in SUBSET Rec /\ records' \in [Procs -> SUBSET Rec]
      /\ IDsAreUnique'
      /\ Ids(index') \subseteq Listed \cup {f}
      /\ \A q \in Procs : Ids(records'[q]) \subseteq Listed \cup {f}
      /\ \A q \in Procs : proc[q] = "off" => records'[q] = {}
  BY <1>3, <1>5, RelistsKeep DEF Inv
<1>10. Types' /\ OffIsEmpty' /\ OneOpen'
  BY <1>1, <1>7, <1>8, <1>9 DEF Inv, Types, OffIsEmpty, OneOpen
<1>11. ReceivedFilesAreNew'
  <2>1. conn' = [conn EXCEPT ![c] = new] /\ conn \in [Conns -> ConnType]
    BY <1>6 DEF ConnMoves, Inv, Types
  <2>2. \A d \in Conns : conn'[d].file \in {conn[d].file, None}
    BY <1>6, <2>1
  <2>3. NewToAll(c) /\ conn[c].file = f
    BY <1>1, TheNewRecord DEF Listing
  <2>4. \A d \in Conns : conn'[d].file # f
    BY <1>3, <1>6, <2>1, <2>3 DEF NewToAll
  <2>5. asked' \subseteq asked \cup Listed
    BY <1>1
  <2> QED
    BY <1>7, <1>8, <1>9, <2>2, <2>4, <2>5, ReceivedStayNew
<1> QED
  BY <1>7, <1>9, <1>10, <1>11 DEF Inv

-----------------------------------------------------------------------------
(***************************************************************************)
(* Home connections, and the terminal.                                     *)
(***************************************************************************)

\* A Home connection moves, in a process that runs.
HomeMoves(h, new) ==
    /\ home' = [home EXCEPT ![h] = new] /\ new \in HomeType
    /\ new.proc \in {home[h].proc, None} \/ (new.proc \in Procs /\ proc[new.proc] = "open")

Apart == <<disk, proc, records, conn, term, live, misreads, history>>

LEMMA HomesMove ==
    ASSUME Inv, NEW h \in Homes
    PROVE  /\ \A p \in Procs : HomeOpen(h, p) =>
                 UNCHANGED Apart /\ HomeMoves(h, [NoHome EXCEPT !.proc = p, !.reading = TRUE])
           /\ HomeSignal(h) => UNCHANGED Apart /\ HomeMoves(h, [home[h] EXCEPT !.pending = FALSE, !.reading = TRUE])
           /\ HomeList(h) /\ home[h].proc \in Procs =>
                 UNCHANGED Apart /\ HomeMoves(h, [home[h] EXCEPT !.reading = FALSE, !.sent = records[home[h].proc]])
           /\ HomeClose(h) => UNCHANGED Apart /\ HomeMoves(h, NoHome)
<1>0. home \in [Homes -> HomeType] /\ home[h] \in HomeType
  BY DEF Inv, Types
<1>1. NoHome \in HomeType /\ NoHome.proc = None
  BY DEF NoHome, NoView, HomeType, View, Outside
<1>2. ASSUME NEW p \in Procs, HomeOpen(h, p)
      PROVE  UNCHANGED Apart /\ HomeMoves(h, [NoHome EXCEPT !.proc = p, !.reading = TRUE])
  BY <1>1, <1>2 DEF HomeOpen, Apart, store, bounds, HomeMoves, HomeType
<1>3. ASSUME HomeSignal(h)
      PROVE  UNCHANGED Apart /\ HomeMoves(h, [home[h] EXCEPT !.pending = FALSE, !.reading = TRUE])
  <2>1. home' = [home EXCEPT ![h] = [home[h] EXCEPT !.pending = FALSE, !.reading = TRUE]]
    BY <1>0, <1>3 DEF HomeSignal
  <2> QED
    BY <1>0, <1>3, <2>1 DEF HomeSignal, Apart, store, bounds, HomeMoves, HomeType
<1>4. ASSUME HomeList(h), home[h].proc \in Procs
      PROVE  UNCHANGED Apart /\ HomeMoves(h, [home[h] EXCEPT !.reading = FALSE, !.sent = records[home[h].proc]])
  <2>1. home' = [home EXCEPT ![h] = [home[h] EXCEPT !.reading = FALSE, !.sent = records[home[h].proc]]]
    BY <1>0, <1>4 DEF HomeList
  <2>2. records[home[h].proc] \in SUBSET Rec
    BY <1>4 DEF Inv, Types
  <2> QED
    BY <1>0, <1>4, <2>1, <2>2 DEF HomeList, Apart, store, bounds, HomeMoves, HomeType
<1>5. ASSUME HomeClose(h) PROVE UNCHANGED Apart /\ HomeMoves(h, NoHome)
  BY <1>1, <1>5 DEF HomeClose, Apart, store, bounds, HomeMoves
<1> QED
  BY <1>2, <1>3, <1>4, <1>5

\* A step that moves one Home connection.
LEMMA HomeStepsKeepInv ==
    ASSUME Inv, NEW h \in Homes, NEW new, HomeMoves(h, new), UNCHANGED Apart
    PROVE  Inv'
<1>0. home \in [Homes -> HomeType] /\ None \notin Procs
  BY NoneIsApart DEF Inv, Types
<1>1. Types'
  BY <1>0 DEF HomeMoves, Apart, disk, history, Inv, Types
<1>2. \A p \in Procs : proc[p] = "off" => \A g \in Homes : home'[g].proc # p
  BY <1>0 DEF HomeMoves, Inv, OffIsEmpty
<1>3. OffIsEmpty' /\ ConnsHaveProcesses' /\ OneOpen' /\ IDsAreUnique' /\ ReceivedFilesAreNew'
  BY <1>2 DEF Apart, disk, history, Inv, OffIsEmpty, ConnsHaveProcesses, Receiving, OneOpen, IDsAreUnique,
              Unique, ReceivedFilesAreNew, NewToAll, Ids
<1> QED
  BY <1>1, <1>3 DEF Inv

-----------------------------------------------------------------------------
(***************************************************************************)
(* Processes that start and end.                                           *)
(***************************************************************************)

\* Open finds some of the index's records, all of them with their files
\* (store.go:187-241).
Opens(p, found) ==
    /\ proc[p] = "off" /\ \A q \in Procs : proc[q] # "open"
    /\ found \subseteq index /\ \A f \in Ids(found) : folders[f] = "file"
    /\ index' = found /\ records' = [records EXCEPT ![p] = found]
    /\ incoming' = {} /\ folders' = [f \in Files |-> IF f \in Ids(found) THEN folders[f] ELSE "none"]
    /\ proc' = [proc EXCEPT ![p] = "open"]
    /\ misreads' \in Nat /\ misreads' >= misreads
    /\ misreads' = 0 => found = {r \in index : folders[r.id] = "file"}
    /\ kept' = [kept EXCEPT ![p] = Bytes(Ids(found))]
    /\ UNCHANGED <<conn, home, term, live, history, reserved, faults>>

LEMMA OpenDoes == ASSUME Types, NEW p \in Procs, Open(p) PROVE \E found : Opens(p, found)
<1>1. PICK unreadable \in SUBSET Ids(index) :
         /\ misreads' = misreads + (IF unreadable = {} THEN 0 ELSE 1)
         /\ LET found == {r \in index : present(r, unreadable)} IN
            /\ index' = found
            /\ incoming' = {}
            /\ folders' = [f \in Files |-> IF f \in Ids(found) THEN folders[f] ELSE "none"]
            /\ records' = [records EXCEPT ![p] = found]
            /\ kept' = [kept EXCEPT ![p] = Bytes(Ids(found))]
  BY DEF Open
<1> DEFINE found == {r \in index : present(r, unreadable)}
<1>2. misreads' \in Nat /\ misreads' >= misreads /\ (misreads' = 0 => unreadable = {})
  BY <1>1 DEF Types
<1>3. /\ found \subseteq index /\ \A f \in Ids(found) : folders[f] = "file"
      /\ misreads' = 0 => found = {r \in index : folders[r.id] = "file"}
  BY <1>2 DEF present, Ids
<1>4. /\ proc[p] = "off" /\ \A q \in Procs : proc[q] # "open"
      /\ proc' = [proc EXCEPT ![p] = "open"] /\ UNCHANGED <<conn, home, term, live, history, reserved, faults>>
  BY DEF Open, Locked
<1> HIDE DEF found
<1>5. Opens(p, found)
  BY <1>1, <1>2, <1>3, <1>4 DEF Opens, found
<1> QED
  BY <1>5

LEMMA OpenKeepsInv == ASSUME Inv, NEW p \in Procs, Open(p) PROVE Inv'
<1>1. PICK found : Opens(p, found)
  BY OpenDoes DEF Inv
<1>2. found \in SUBSET Rec /\ Unique(found) /\ Ids(found) \subseteq Listed
  BY <1>1, SomeAreUnique DEF Opens, Inv, Types, IDsAreUnique, Listed, Ids
<1>3. Types'
  BY <1>1, <1>2 DEF Opens, history, Inv, Types
<1>4. /\ \A q \in Procs : q # p => records'[q] = records[q] /\ proc'[q] = proc[q]
      /\ records'[p] = found /\ proc'[p] = "open"
  BY <1>1 DEF Opens, Inv, Types
<1>5. OffIsEmpty'
  BY <1>1, <1>4 DEF Opens, Inv, OffIsEmpty
<1>6. ConnsHaveProcesses'
  BY <1>1 DEF Opens, Inv, ConnsHaveProcesses, Receiving
<1>7. OneOpen'
  BY <1>1, <1>4 DEF Opens, OneOpen
<1>8. IDsAreUnique'
  <2>1. Unique(index') /\ \A q \in Procs : Unique(records'[q])
    BY <1>1, <1>2, <1>4 DEF Opens, Inv, IDsAreUnique
  <2> QED
    BY <2>1 DEF IDsAreUnique, Unique
<1>9. ReceivedFilesAreNew'
  <2>1. \A q \in Procs : Ids(records'[q]) \subseteq Listed \cup {}
    BY <1>2, <1>4 DEF Listed
  <2>2. Ids(index') \subseteq Listed \cup {}
    BY <1>1, <1>2 DEF Opens
  <2>3. /\ asked' \subseteq asked \cup Listed /\ reported' \subseteq reported \cup {}
        /\ \A d \in Conns : conn'[d].file \in {conn[d].file, None}
        /\ \A d \in Conns : Receiving(d)' => conn'[d].file \notin {}
    BY <1>1 DEF Opens, history
  <2> QED
    BY <1>6, <2>1, <2>2, <2>3, ReceivedStayNew
<1> QED
  BY <1>3, <1>5, <1>6, <1>7, <1>8, <1>9 DEF Inv

\* An Open that fails keeps every file that is there, and at most drops records
\* whose file is missing (store.go:187-241).
OpensPartly ==
    /\ folders' \in [Files -> {"none", "empty", "file"}]
    /\ \A f \in Files : f \in Ids({r \in index : folders[r.id] = "file"}) => folders'[f] = folders[f]
    /\ \A f \in Files : /\ folders[f] = "none" => folders'[f] = "none"
                        /\ folders'[f] = "file" => folders[f] = "file"
    /\ incoming' \in {incoming, {}}
    /\ index' \in {index, {r \in index : folders[r.id] = "file"}}
    /\ \A q \in Procs : proc[q] # "open"
    /\ faults' = faults + 1
    /\ UNCHANGED <<proc, records, kept, reserved, conn, home, term, live, misreads, history>>

LEMMA OpenFailsDoes == ASSUME Types, NEW p \in Procs, OpenFails(p) PROVE OpensPartly
<1> DEFINE found == {r \in index : present(r, {})}
           missing == {f \in Files : f \notin Ids(found) /\ folders[f] # "none"}
<1>0. folders \in [Files -> {"none", "empty", "file"}] /\ found = {r \in index : folders[r.id] = "file"}
  BY DEF Types, present
<1>1. \A f \in Files : f \in Ids(found) => f \notin missing
  OBVIOUS
<1>2. \A f \in missing : f \in Files /\ folders[f] # "none"
  OBVIOUS
<1>3. \/ UNCHANGED disk
      \/ /\ incoming' = {} /\ index' = index
         /\ \E left \in SUBSET missing, kind \in {"empty", "file"} :
              /\ folders' = [f \in Files |-> IF f \in left THEN kind ELSE IF f \in missing THEN "none" ELSE folders[f]]
              /\ \A f \in left : folders'[f] \in {folders[f], "empty"}
      \/ /\ incoming' = {} /\ index' \in {index, found}
         /\ folders' = [f \in Files |-> IF f \in missing THEN "none" ELSE folders[f]]
  BY DEF OpenFails
<1>4. /\ \A q \in Procs : proc[q] # "open"
      /\ faults' = faults + 1
      /\ UNCHANGED <<proc, records, kept, reserved, conn, home, term, live, misreads, history>>
  BY DEF OpenFails, Locked, store
<1> HIDE DEF found, missing
<1>5. /\ folders' \in [Files -> {"none", "empty", "file"}]
      /\ \A f \in Files : f \in Ids(found) => folders'[f] = folders[f]
      /\ \A f \in Files : /\ folders[f] = "none" => folders'[f] = "none"
                          /\ folders'[f] = "file" => folders[f] = "file"
      /\ incoming' \in {incoming, {}} /\ index' \in {index, found}
  <2>1. CASE UNCHANGED disk
    BY <1>0, <2>1 DEF disk
  <2>2. ASSUME NEW left \in SUBSET missing, NEW kind \in {"empty", "file"}, incoming' = {}, index' = index,
               folders' = [f \in Files |-> IF f \in left THEN kind ELSE IF f \in missing THEN "none" ELSE folders[f]],
               \A f \in left : folders'[f] \in {folders[f], "empty"}
        PROVE  /\ folders' \in [Files -> {"none", "empty", "file"}]
               /\ \A f \in Files : f \in Ids(found) => folders'[f] = folders[f]
               /\ \A f \in Files : /\ folders[f] = "none" => folders'[f] = "none"
                                   /\ folders'[f] = "file" => folders[f] = "file"
               /\ incoming' \in {incoming, {}} /\ index' \in {index, found}
    BY <1>0, <1>1, <1>2, <2>2
  <2>3. ASSUME incoming' = {}, index' \in {index, found},
               folders' = [f \in Files |-> IF f \in missing THEN "none" ELSE folders[f]]
        PROVE  /\ folders' \in [Files -> {"none", "empty", "file"}]
               /\ \A f \in Files : f \in Ids(found) => folders'[f] = folders[f]
               /\ \A f \in Files : /\ folders[f] = "none" => folders'[f] = "none"
                                   /\ folders'[f] = "file" => folders[f] = "file"
               /\ incoming' \in {incoming, {}} /\ index' \in {index, found}
    BY <1>0, <1>1, <1>2, <2>3
  <2> QED
    BY <1>3, <2>1, <2>2, <2>3
<1> QED
  BY <1>0, <1>4, <1>5 DEF OpensPartly

LEMMA OpenFailsKeepsInv == ASSUME Inv, NEW p \in Procs, OpenFails(p) PROVE Inv'
<1>1. OpensPartly
  BY OpenFailsDoes DEF Inv
<1>2. index' \subseteq index /\ Ids(index') \subseteq Listed \cup {}
  BY <1>1 DEF OpensPartly, Listed, Ids
<1>3. Types'
  BY <1>1, <1>2 DEF OpensPartly, history, Inv, Types
<1>4. OffIsEmpty' /\ ConnsHaveProcesses' /\ OneOpen'
  BY <1>1 DEF OpensPartly, Inv, OffIsEmpty, ConnsHaveProcesses, Receiving, OneOpen
<1>5. IDsAreUnique'
  <2>1. Unique(index') /\ records' = records
    BY <1>1, <1>2, SomeAreUnique DEF OpensPartly, Inv, IDsAreUnique
  <2> QED
    BY <2>1 DEF Inv, IDsAreUnique, Unique
<1>6. ReceivedFilesAreNew'
  <2>1. /\ \A q \in Procs : Ids(records'[q]) \subseteq Listed \cup {}
        /\ asked' \subseteq asked \cup Listed /\ reported' \subseteq reported \cup {}
        /\ \A d \in Conns : conn'[d].file \in {conn[d].file, None}
        /\ \A d \in Conns : Receiving(d)' => conn'[d].file \notin {}
    BY <1>1 DEF OpensPartly, history, Listed
  <2> QED
    BY <1>2, <1>4, <2>1, ReceivedStayNew
<1> QED
  BY <1>3, <1>4, <1>5, <1>6 DEF Inv

\* The files stay as they are when a process closes the store, and when it ends
\* (main.go:360-380).
LEMMA CloseKeepsInv == ASSUME Inv, NEW p \in Procs, Close(p) PROVE Inv'
<1>1. /\ proc' = [proc EXCEPT ![p] = "closed"] /\ proc[p] = "open" /\ proc \in [Procs -> {"off", "open", "closed"}]
      /\ UNCHANGED <<index, incoming, folders, records, conn, home, term, live, misreads, reported, asked, gone>>
  BY DEF Close, disk, store, bounds, history, Inv, Types
<1>2. \A q \in Procs : (proc'[q] = "off" <=> proc[q] = "off") /\ (proc'[q] = "open" => proc[q] = "open")
  BY <1>1
<1>3. Types' /\ OffIsEmpty' /\ ConnsHaveProcesses' /\ OneOpen'
  BY <1>1, <1>2 DEF Inv, Types, OffIsEmpty, ConnsHaveProcesses, Receiving, OneOpen
<1>4. IDsAreUnique' /\ ReceivedFilesAreNew'
  BY <1>1 DEF Inv, IDsAreUnique, Unique, ReceivedFilesAreNew, Receiving, NewToAll, Ids
<1> QED
  BY <1>3, <1>4 DEF Inv

\* What is left of a process that ended.
Ends(p) ==
    /\ proc' = [proc EXCEPT ![p] = "off"] /\ records' = [records EXCEPT ![p] = {}]
    /\ conn' = [c \in Conns |-> IF conn[c].proc = p THEN Idle ELSE conn[c]]
    /\ home' = [h \in Homes |-> IF home[h].proc = p THEN NoHome ELSE home[h]]
    /\ kept' = [kept EXCEPT ![p] = 0] /\ reserved' = [reserved EXCEPT ![p] = 0]
    /\ UNCHANGED <<index, incoming, folders, term, live, faults, misreads, reported, asked, gone>>

LEMMA EndKeepsInv == ASSUME Inv, NEW p \in Procs, End(p) PROVE Inv'
<1>1. Ends(p)
  BY DEF End, Ends, disk, bounds, history
<1>2. /\ Idle \in ConnType /\ Idle.at = "none" /\ Idle.proc = None /\ Idle.file = None
      /\ NoHome \in HomeType /\ NoHome.proc = None /\ None \notin Procs
  BY NoneIsApart DEF Idle, ConnType, NoHome, NoView, HomeType, View, Outside
<1>3. Types'
  BY <1>1, <1>2 DEF Ends, Inv, Types
<1>4. \A q \in Procs : /\ q # p => records'[q] = records[q] /\ proc'[q] = proc[q]
                       /\ q = p => records'[q] = {} /\ proc'[q] = "off"
  BY <1>1 DEF Ends, Inv, Types
<1>5. OffIsEmpty' /\ ConnsHaveProcesses' /\ OneOpen'
  <2>1. OffIsEmpty'
    BY <1>1, <1>2, <1>4 DEF Ends, Inv, OffIsEmpty
  <2>2. ConnsHaveProcesses'
    BY <1>1, <1>2 DEF Ends, Inv, ConnsHaveProcesses, Receiving
  <2>3. OneOpen'
    BY <1>4 DEF Inv, OneOpen
  <2> QED
    BY <2>1, <2>2, <2>3
<1>6. IDsAreUnique'
  <2>1. index' = index /\ \A q \in Procs : Unique(records'[q])
    BY <1>1, <1>4 DEF Ends, Inv, IDsAreUnique, Unique
  <2> QED
    BY <2>1 DEF Inv, IDsAreUnique, Unique
<1>7. ReceivedFilesAreNew'
  <2>1. Ids({}) = {}
    BY DEF Ids
  <2>2. /\ Ids(index') \subseteq Listed \cup {}
        /\ \A q \in Procs : Ids(records'[q]) \subseteq Listed \cup {}
    BY <1>1, <1>4, <2>1 DEF Ends, Listed
  <2>3. /\ asked' \subseteq asked \cup Listed /\ reported' \subseteq reported \cup {}
        /\ \A d \in Conns : conn'[d].file \in {conn[d].file, None}
        /\ \A d \in Conns : Receiving(d)' => conn'[d].file \notin {}
    BY <1>1, <1>2 DEF Ends
  <2> QED
    BY <1>5, <2>2, <2>3, ReceivedStayNew
<1> QED
  BY <1>3, <1>5, <1>6, <1>7 DEF Inv

-----------------------------------------------------------------------------
(***************************************************************************)
(* The invariant.                                                          *)
(***************************************************************************)

LEMMA InitInv == Init => Inv /\ HomesHaveProcesses
<1> SUFFICES ASSUME Init PROVE Inv /\ HomesHaveProcesses
  OBVIOUS
<1>1. /\ Idle \in ConnType /\ Idle.at = "none" /\ Idle.proc = None /\ Idle.file = None
      /\ NoHome \in HomeType /\ NoHome.proc = None /\ ~NoHome.reading /\ ~NoHome.pending
      /\ None \notin Procs
  BY NoneIsApart DEF Idle, ConnType, NoHome, NoView, HomeType, View, Outside
<1>2. Types /\ OffIsEmpty /\ ConnsHaveProcesses /\ HomesHaveProcesses
  BY <1>1 DEF Init, Types, OffIsEmpty, ConnsHaveProcesses, HomesHaveProcesses, Receiving
<1>3. OneOpen /\ IDsAreUnique /\ ReceivedFilesAreNew
  BY <1>1 DEF Init, OneOpen, IDsAreUnique, Unique, ReceivedFilesAreNew, Receiving
<1> QED
  BY <1>2, <1>3 DEF Inv

\* The views a browser may ask for are views.
LEMMA ShownAreViews == Shown \cup {NoView} \subseteq View
<1>1. Shown \subseteq View
  BY DEF Shown
<1>2. NoView \in View
  BY DEF NoView, View, Outside
<1> QED
  BY <1>1, <1>2

LEMMA NextInv == Inv /\ HomesHaveProcesses /\ [Next]_vars => Inv'
<1> SUFFICES ASSUME Inv, HomesHaveProcesses, [Next]_vars PROVE Inv'
  OBVIOUS
<1>1. ASSUME NEW p \in Procs, Open(p) \/ OpenFails(p) \/ Close(p) \/ End(p) PROVE Inv'
  BY <1>1, OpenKeepsInv, OpenFailsKeepsInv, CloseKeepsInv, EndKeepsInv
<1>2. ASSUME NEW p \in Procs, NEW ids \in SUBSET Files, Delete(p, ids) PROVE Inv'
  BY <1>2, DeleteKeepsInv
<1>3. ASSUME NEW c \in Conns, NEW p \in Procs, Accept(c, p) PROVE Inv'
  BY <1>3, SharesMove
<1>4. ASSUME NEW c \in Conns, ShareStep(c) PROVE Inv'
  BY <1>4, SharesMove, CommitListKeepsInv DEF ShareStep
<1>5. ASSUME NEW c \in Conns, NEW f \in Files, Begin(c, f) PROVE Inv'
  BY <1>5, BeginKeepsInv
<1>6. ASSUME NEW h \in Homes, NEW p \in Procs, HomeOpen(h, p) PROVE Inv'
  BY <1>6, HomesMove, HomeStepsKeepInv
<1>7. ASSUME NEW h \in Homes, HomeSignal(h) \/ HomeList(h) \/ HomeClose(h) PROVE Inv'
  <2>1. HomeList(h) => home[h].proc \in Procs
    BY DEF HomeList, HomesHaveProcesses, Inv, Types, HomeType
  <2> QED
    BY <1>7, <2>1, HomesMove, HomeStepsKeepInv
<1>8. ASSUME NEW h \in Homes, NEW v \in Shown \cup {NoView}, SetView(h, v) PROVE Inv'
  BY <1>8, SetViewKeepsInv, ShownAreViews
<1>9. ASSUME Replace \/ Follow \/ UNCHANGED vars PROVE Inv'
  <2>1. /\ UNCHANGED <<index, incoming, folders, proc, records, conn, home, misreads, reported, asked, gone>>
        /\ term' \in Nat /\ live' \in BOOLEAN
    <3>0. term \in Nat /\ live \in BOOLEAN
      BY DEF Inv, Types
    <3>1. CASE Replace
      BY <3>0, <3>1 DEF Replace, disk, store, bounds, history
    <3>2. CASE Follow
      BY <3>0, <3>2 DEF Follow, disk, store, bounds, history
    <3>3. CASE UNCHANGED vars
      BY <3>0, <3>3 DEF vars, disk, store, bounds, history
    <3> QED
      BY <1>9, <3>1, <3>2, <3>3
  <2>2. Types' /\ OffIsEmpty' /\ ConnsHaveProcesses' /\ OneOpen'
    BY <2>1 DEF Inv, Types, OffIsEmpty, ConnsHaveProcesses, Receiving, OneOpen
  <2>3. IDsAreUnique' /\ ReceivedFilesAreNew'
    BY <2>1 DEF Inv, IDsAreUnique, Unique, ReceivedFilesAreNew, Receiving, NewToAll, Ids
  <2> QED
    BY <2>2, <2>3 DEF Inv
<1> QED
  BY <1>1, <1>2, <1>3, <1>4, <1>5, <1>6, <1>7, <1>8, <1>9 DEF Next

-----------------------------------------------------------------------------
(***************************************************************************)
(* Home connections show the files as they are.                            *)
(***************************************************************************)

\* A record whose list a view shows, whatever is current.
Shows(v, r) == v.all \/ (r.src # Outside /\ v.handle = r.src)

\* One Home connection, when p's list is recs.
HomeShows(q, recs) ==
    /\ \A r \in recs : Shows(q.view, r) => r.seen
    /\ ~q.pending /\ ~q.reading => q.sent = recs

HomeOK(h) ==
    /\ home[h].proc = None => ~home[h].reading /\ ~home[h].pending
    /\ \A p \in Procs : home[h].proc = p => HomeShows(home[h], records[p])

LEMMA HomesOKShow == Types => ((\A h \in Homes : HomeOK(h)) <=> HomesShowTheFiles /\ HomesHaveProcesses)
<1> SUFFICES ASSUME Types PROVE (\A h \in Homes : HomeOK(h)) <=> HomesShowTheFiles /\ HomesHaveProcesses
  OBVIOUS
<1>1. \A h \in Homes : home[h].proc \in Procs \cup {None} /\ None \notin Procs
  BY NoneIsApart DEF Types, HomeType
<1>2. ASSUME \A h \in Homes : HomeOK(h) PROVE HomesShowTheFiles /\ HomesHaveProcesses
  <2>1. ViewedFilesAreSeen
    BY <1>2 DEF HomeOK, HomeShows, Shows, ViewedFilesAreSeen, HomesOf
  <2>2. HomesAreUpToDate /\ HomesHaveProcesses
    BY <1>1, <1>2 DEF HomeOK, HomeShows, HomesAreUpToDate, HomesHaveProcesses
  <2> QED
    BY <2>1, <2>2 DEF HomesShowTheFiles
<1>3. ASSUME HomesShowTheFiles, HomesHaveProcesses, NEW h \in Homes PROVE HomeOK(h)
  BY <1>1, <1>3 DEF HomesShowTheFiles, ViewedFilesAreSeen, HomesAreUpToDate, HomesHaveProcesses, HomeOK,
                    HomeShows, Shows, HomesOf
<1> QED
  BY <1>2, <1>3

\* A list that lost records, or whose records became seen, is still shown; so is
\* one that gained a record that is seen if the view shows it.
LEMMA SeenStays ==
    ASSUME NEW q, NEW recs, HomeShows(q, recs), NEW list, NEW o,
           \A r \in list : r \in recs \/ (Shows(o.view, r) => r.seen),
           o.view = q.view,
           o.pending \/ (o.pending = q.pending /\ list = recs),
           o.reading = q.reading, o.sent = q.sent, q.pending \in BOOLEAN
    PROVE  HomeShows(o, list)
<1>1. \A r \in list : Shows(o.view, r) => r.seen
  BY DEF HomeShows, Shows
<1>2. ~o.pending /\ ~o.reading => o.sent = list
  BY DEF HomeShows
<1> QED
  BY <1>1, <1>2 DEF HomeShows

LEMMA HomesStayOK ==
    ASSUME Inv, \A h \in Homes : HomeOK(h), [Next]_vars
    PROVE  \A h \in Homes : HomeOK(h)'
<1>0. Types /\ home \in [Homes -> HomeType] /\ records \in [Procs -> SUBSET Rec] /\ None \notin Procs
  BY NoneIsApart DEF Inv, Types
<1>1. CASE UNCHANGED <<records, home>>
  BY <1>1 DEF HomeOK
<1>2. ASSUME NEW h \in Homes, NEW new, HomeMoves(h, new), UNCHANGED Apart,
             new.proc = None => ~new.reading /\ ~new.pending,
             \A p \in Procs : new.proc = p => HomeShows(new, records[p])
      PROVE  \A g \in Homes : HomeOK(g)'
  <2> TAKE g \in Homes
  <2>1. records' = records /\ home'[g] = IF g = h THEN new ELSE home[g]
    BY <1>0, <1>2 DEF HomeMoves, Apart
  <2>2. CASE g = h
    BY <1>2, <2>1, <2>2 DEF HomeOK
  <2>3. CASE g # h
    BY <2>1, <2>3 DEF HomeOK
  <2> QED
    BY <2>2, <2>3
<1>3. ASSUME NEW h \in Homes, NEW p \in Procs, HomeOpen(h, p) PROVE \A g \in Homes : HomeOK(g)'
  <2> DEFINE new == [NoHome EXCEPT !.proc = p, !.reading = TRUE]
  <2>1. new.proc = p /\ new.reading = TRUE /\ new.view.all = FALSE /\ new.view.handle = Outside
    BY DEF NoHome, NoView
  <2>2. HomeMoves(h, new) /\ UNCHANGED Apart
    BY <1>3, HomesMove
  <2> HIDE DEF new
  <2>3. \A q \in Procs : new.proc = q => HomeShows(new, records[q])
    BY <2>1 DEF HomeShows, Shows
  <2> QED
    BY <1>0, <1>2, <2>1, <2>2, <2>3
<1>4. ASSUME NEW h \in Homes, HomeSignal(h) PROVE \A g \in Homes : HomeOK(g)'
  <2> DEFINE new == [home[h] EXCEPT !.pending = FALSE, !.reading = TRUE]
  <2>1. new.proc = home[h].proc /\ new.reading = TRUE /\ new.view = home[h].view
    BY <1>0 DEF HomeType
  <2>2. HomeMoves(h, new) /\ UNCHANGED Apart
    BY <1>4, HomesMove
  <2>3. home[h].proc # None
    BY <1>4 DEF HomeSignal, HomeOK
  <2> HIDE DEF new
  <2>4. \A q \in Procs : new.proc = q => HomeShows(new, records[q])
    BY <2>1 DEF HomeOK, HomeShows, Shows
  <2> QED
    BY <1>2, <2>1, <2>2, <2>3, <2>4
<1>5. ASSUME NEW h \in Homes, HomeList(h) PROVE \A g \in Homes : HomeOK(g)'
  <2> DEFINE new == [home[h] EXCEPT !.reading = FALSE, !.sent = records[home[h].proc]]
  <2>1. home[h].proc \in Procs
    BY <1>0, <1>5 DEF HomeList, HomeOK, HomeType
  <2>2. new.proc = home[h].proc /\ new.view = home[h].view /\ new.sent = records[home[h].proc]
    BY <1>0 DEF HomeType
  <2>3. HomeMoves(h, new) /\ UNCHANGED Apart
    BY <1>5, <2>1, HomesMove
  <2> HIDE DEF new
  <2>4. \A q \in Procs : new.proc = q => HomeShows(new, records[q])
    BY <2>2 DEF HomeOK, HomeShows, Shows
  <2> QED
    BY <1>0, <1>2, <2>1, <2>2, <2>3, <2>4
<1>6. ASSUME NEW h \in Homes, HomeClose(h) PROVE \A g \in Homes : HomeOK(g)'
  <2>1. NoHome.proc = None /\ ~NoHome.reading /\ ~NoHome.pending
    BY DEF NoHome
  <2>2. HomeMoves(h, NoHome) /\ UNCHANGED Apart
    BY <1>6, HomesMove
  <2> QED
    BY <1>0, <1>2, <2>1, <2>2
<1>7. ASSUME NEW p \in Procs, home' = Notified(p), NEW list, records' = [records EXCEPT ![p] = list],
             \A r \in list : r \in records[p] \/ \A h \in HomesOf(p) : Shows(home[h].view, r) => r.seen
      PROVE  \A g \in Homes : HomeOK(g)'
  <2> TAKE g \in Homes
  <2>1. /\ home'[g].proc = home[g].proc /\ home'[g].view = home[g].view
        /\ home'[g].reading = home[g].reading /\ home'[g].sent = home[g].sent
        /\ home[g].proc = p => home'[g].pending
        /\ home[g].proc # p => home'[g].pending = home[g].pending
    BY <1>0, <1>7, NotifiedHomes
  <2>2. records'[p] = list /\ \A q \in Procs : q # p => records'[q] = records[q]
    BY <1>0, <1>7
  <2>3. home[g].pending \in BOOLEAN
    BY <1>0 DEF HomeType
  <2>4. CASE home[g].proc = p
    <3>1. HomeShows(home[g], records[p])
      BY <2>4 DEF HomeOK
    <3>2. \A r \in list : r \in records[p] \/ (Shows(home'[g].view, r) => r.seen)
      BY <1>7, <2>1, <2>4 DEF HomesOf
    <3>3. HomeShows(home'[g], list)
      BY <2>1, <2>3, <2>4, <3>1, <3>2, SeenStays
    <3> QED
      BY <1>0, <2>1, <2>2, <2>4, <3>3 DEF HomeOK, HomeShows
  <2>5. CASE home[g].proc # p
    BY <2>1, <2>2, <2>5 DEF HomeOK, HomeShows, Shows
  <2> QED
    BY <2>4, <2>5
<1>8. ASSUME NEW p \in Procs, NEW ids, Delete(p, ids) PROVE \A g \in Homes : HomeOK(g)'
  <2>1. PICK deleted : Deletes(p, ids, deleted)
    BY <1>0, <1>8, DeleteDoes DEF Inv
  <2>2. PICK list : list = records[p] \ deleted
    OBVIOUS
  <2>3. records' = [records EXCEPT ![p] = list] /\ \A r \in list : r \in records[p]
    BY <2>1, <2>2 DEF Deletes
  <2>4. home' = Notified(p) \/ UNCHANGED <<records, home>>
    BY <2>1 DEF Deletes
  <2> QED
    BY <1>1, <1>7, <2>3, <2>4
<1>9. ASSUME NEW c \in Conns, CommitList(c) PROVE \A g \in Homes : HomeOK(g)'
  <2>1. PICK p, f : Listing(c, p, f) /\ (Completed(c, p, f) \/ Undone(c, p, f))
    BY <1>9, CommitListDoes
  <2>2. CASE Undone(c, p, f)
    BY <1>1, <2>2 DEF Undone
  <2>3. CASE Completed(c, p, f)
    <3>1. PICK list : list = records[p] \cup {NewRecord(c)}
      OBVIOUS
    <3>2. p \in Procs /\ home' = Notified(p) /\ records' = [records EXCEPT ![p] = list]
      BY <2>1, <2>3, <3>1 DEF Listing, Completed
    <3>3. ASSUME NEW h \in HomesOf(p), Shows(home[h].view, NewRecord(c)) PROVE NewRecord(c).seen
      <4> DEFINE r == [id |-> f, seen |-> FALSE, src |-> conn[c].src]
      <4>1. NewRecord(c).src = conn[c].src /\ NewRecord(c).seen = SeenAtOnce(p, r)
        BY <2>1, TheNewRecord
      <4>2. Matches(home[h].view, r, TRUE)
        BY <3>3, <4>1 DEF Shows, Matches
      <4>3. SeenAtOnce(p, r)
        BY <3>3, <4>2 DEF SeenAtOnce
      <4> QED
        BY <4>1, <4>3
    <3>4. \A r \in list : r \in records[p] \/ \A h \in HomesOf(p) : Shows(home[h].view, r) => r.seen
      <4> TAKE r \in list
      <4>1. r \in records[p] \/ r = NewRecord(c)
        BY <3>1
      <4> QED
        BY <3>3, <4>1
    <3> QED
      BY <1>7, <3>2, <3>4
  <2> QED
    BY <2>1, <2>2, <2>3
<1>10. ASSUME NEW h \in Homes, NEW v \in View, SetView(h, v) PROVE \A g \in Homes : HomeOK(g)'
  <2>1. PICK p \in Procs : p = home[h].proc /\ Views(h, v, p)
    BY <1>0, <1>10, SetViewDoes
  <2> TAKE g \in Homes
  <2>2. /\ home'[g].proc = home[g].proc
        /\ home'[g].view = IF g = h THEN v ELSE home[g].view
        /\ \/ home'[g].pending /\ home[g].proc = p
           \/ /\ home'[g].pending = home[g].pending
              /\ home[g].proc = p => records' = records
        /\ home'[g].reading = home[g].reading /\ home'[g].sent = home[g].sent
    BY <2>1, ViewsAreHomes
  <2>3. /\ \A q \in Procs : q # p => records'[q] = records[q]
        /\ records'[p] = IF Marked(p, v) = {} THEN records[p] ELSE Updated(p, v)
    BY <1>0, <2>1 DEF Views
  <2>4. CASE home[g].proc # p
    BY <2>1, <2>2, <2>3, <2>4 DEF HomeOK, HomeShows, Shows
  <2>5. CASE home[g].proc = p
    <3>1. \A r \in records'[p] : \/ r \in records[p] /\ r \notin Marked(p, v)
                                 \/ r.seen
      <4>1. \A r \in Marked(p, v) : [r EXCEPT !.seen = TRUE].seen
        BY <1>0 DEF Marked, Rec
      <4>2. CASE Marked(p, v) = {}
        BY <2>3, <4>2
      <4>3. CASE Marked(p, v) # {}
        <5> TAKE r \in records'[p]
        <5>1. r \in records[p] \ Marked(p, v) \/ \E m \in Marked(p, v) : r = [m EXCEPT !.seen = TRUE]
          BY <2>3, <4>3 DEF Updated
        <5>2. ASSUME NEW m \in Marked(p, v), r = [m EXCEPT !.seen = TRUE] PROVE r.seen
          BY <4>1, <5>2
        <5> QED
          BY <5>1, <5>2
      <4> QED
        BY <4>2, <4>3
    <3>2. \A r \in records'[p] : Shows(home'[g].view, r) => r.seen
      <4>1. CASE g = h
        BY <2>2, <3>1, <4>1 DEF Marked, Matches, Shows
      <4>2. CASE g # h
        BY <2>2, <2>5, <3>1, <4>2 DEF HomeOK, HomeShows
      <4> QED
        BY <4>1, <4>2
    <3>3. ~home'[g].pending /\ ~home'[g].reading => home'[g].sent = records'[p]
      BY <2>2, <2>5 DEF HomeOK, HomeShows
    <3> QED
      BY <1>0, <2>2, <2>5, <3>2, <3>3 DEF HomeOK, HomeShows
  <2> QED
    BY <2>4, <2>5
<1>11. ASSUME NEW p \in Procs, Open(p) PROVE \A g \in Homes : HomeOK(g)'
  <2>1. PICK found : Opens(p, found)
    BY <1>0, <1>11, OpenDoes
  <2>2. home' = home /\ \A q \in Procs : q # p => records'[q] = records[q]
    BY <1>0, <2>1 DEF Opens
  <2>3. \A g \in Homes : home[g].proc # p
    BY <2>1 DEF Opens, Inv, OffIsEmpty
  <2> QED
    BY <2>2, <2>3 DEF HomeOK, HomeShows, Shows
<1>12. ASSUME NEW p \in Procs, End(p) PROVE \A g \in Homes : HomeOK(g)'
  <2> TAKE g \in Homes
  <2>1. /\ \A q \in Procs : q # p => records'[q] = records[q]
        /\ home'[g] = IF home[g].proc = p THEN NoHome ELSE home[g]
    BY <1>0, <1>12 DEF End
  <2>2. NoHome.proc = None /\ ~NoHome.reading /\ ~NoHome.pending
    BY DEF NoHome
  <2> QED
    BY <1>0, <2>1, <2>2 DEF HomeOK, HomeShows, Shows
<1>13. ASSUME NEW c \in Conns, ShareStep(c) PROVE \A g \in Homes : HomeOK(g)'
  <2>1. CASE CommitList(c)
    BY <1>9, <2>1
  <2>2. CASE ~CommitList(c)
    <3>1. UNCHANGED <<records, home>>
      BY <1>13, <2>2 DEF ShareStep, Attribute, Hangup, CopyFails, CommitMkdir, CommitRename, Abort, store, history
    <3> QED
      BY <1>1, <3>1
  <2> QED
    BY <2>1, <2>2
<1>14. ASSUME NEW p \in Procs, OpenFails(p) \/ Close(p) PROVE \A g \in Homes : HomeOK(g)'
  BY <1>1, <1>14 DEF OpenFails, Close, store
<1>15. ASSUME NEW c \in Conns, (\E p \in Procs : Accept(c, p)) \/ (\E f \in Files : Begin(c, f)) PROVE \A g \in Homes : HomeOK(g)'
  BY <1>1, <1>15 DEF Accept, Begin, store
<1>16. ASSUME Replace \/ Follow \/ UNCHANGED vars PROVE \A g \in Homes : HomeOK(g)'
  BY <1>1, <1>16 DEF Replace, Follow, vars, store
<1> QED
  BY <1>3, <1>4, <1>5, <1>6, <1>8, <1>10, <1>11, <1>12, <1>13, <1>14, <1>15, <1>16, ShownAreViews DEF Next

\* The files on disk and in memory keep their types, nothing runs in a process
\* that does not, one process has the folder, and a file being received is new
\* to every list (store.go:187-241, 433-608; service.go:151-228).
THEOREM SharesBase == Spec => [](Inv /\ \A h \in Homes : HomeOK(h))
<1>1. Init => Inv /\ \A h \in Homes : HomeOK(h)
  <2> SUFFICES ASSUME Init PROVE Inv /\ \A h \in Homes : HomeOK(h)
    OBVIOUS
  <2>1. Inv /\ HomesHaveProcesses /\ Types
    BY InitInv DEF Inv
  <2>2. HomesShowTheFiles
    <3>1. \A h \in Homes : home[h].proc = None
      BY DEF Init, NoHome
    <3>2. \A p \in Procs : records[p] = {}
      BY DEF Init
    <3> QED
      BY <3>1, <3>2 DEF HomesShowTheFiles, ViewedFilesAreSeen, HomesAreUpToDate
  <2> QED
    BY <2>1, <2>2, HomesOKShow
<1>2. Inv /\ (\A h \in Homes : HomeOK(h)) /\ [Next]_vars => (Inv /\ \A h \in Homes : HomeOK(h))'
  <2> SUFFICES ASSUME Inv, \A h \in Homes : HomeOK(h), [Next]_vars PROVE Inv' /\ \A h \in Homes : HomeOK(h)'
    OBVIOUS
  <2>1. Types /\ HomesHaveProcesses
    BY HomesOKShow DEF Inv
  <2> QED
    BY <2>1, NextInv, HomesStayOK
<1> QED
  BY <1>1, <1>2, PTL DEF Spec

\* Every file in a list that is in view is seen, whichever came first, and a
\* Home connection that waits for a change has sent the list as it is
\* (store.go:372-397, 541-608; server/shared.go:36-110).
THEOREM HomesStayUpToDate == Spec => []HomesShowTheFiles
<1>1. Inv /\ (\A h \in Homes : HomeOK(h)) => HomesShowTheFiles
  BY HomesOKShow DEF Inv
<1> QED
  BY <1>1, SharesBase, PTL

-----------------------------------------------------------------------------
(***************************************************************************)
(* What is on disk.                                                        *)
(***************************************************************************)

\* The steps of a share before it is listed touch its own folder only, which
\* has the copy when it comes to be listed.
Unlisted(c) ==
    \/ \E p \in Procs : Accept(c, p)
    \/ \E f \in Files : Begin(c, f)
    \/ Attribute(c) \/ Hangup(c) \/ CopyFails(c) \/ CommitMkdir(c) \/ CommitRename(c)
Receives(c) ==
    /\ UNCHANGED Rest
    /\ \A f \in Files : folders'[f] # folders[f] => Receiving(c) /\ f = conn[c].file
    /\ \A d \in Conns : conn'[d].at = "listing" =>
          /\ conn'[d].file = conn[d].file /\ conn'[d].proc = conn[d].proc
          /\ IF d = c THEN folders'[conn[c].file] = "file" ELSE conn[d].at = "listing"

LEMMA OthersStay ==
    ASSUME NEW c \in Conns, NEW new, conn \in [Conns -> ConnType], conn' = [conn EXCEPT ![c] = new]
    PROVE  conn'[c] = new /\ \A d \in Conns : d # c => conn'[d] = conn[d]
OBVIOUS

LEMMA UnlistedReceive == ASSUME Inv, NEW c \in Conns, Unlisted(c) PROVE Receives(c)
<1>0. /\ conn \in [Conns -> ConnType] /\ conn[c] \in ConnType /\ folders \in [Files -> {"none", "empty", "file"}]
      /\ Idle.at = "none"
  BY DEF Inv, Types, Idle
<1>1. Receiving(c) => conn[c].file \in Files
  BY <1>0 DEF Inv, ConnsHaveProcesses, ConnType
<1>2. ASSUME UNCHANGED <<Rest, folders>>, NEW new, conn' = [conn EXCEPT ![c] = new], new.at # "listing"
      PROVE  Receives(c)
  BY <1>0, <1>2, OthersStay DEF Receives, Rest
<1>3. ASSUME NEW p \in Procs, Accept(c, p) PROVE Receives(c)
  <2>1. [Idle EXCEPT !.at = "opening", !.proc = p].at # "listing"
    BY DEF Idle
  <2> QED
    BY <1>2, <1>3, <2>1 DEF Accept, Rest, disk, store, bounds, history
<1>4. ASSUME NEW f \in Files, Begin(c, f) PROVE Receives(c)
  <2>1. [conn[c] EXCEPT !.at = "copying", !.file = f].at # "listing"
    BY <1>0 DEF ConnType
  <2>2. conn' = [conn EXCEPT ![c] = [conn[c] EXCEPT !.at = "copying", !.file = f]]
    BY <1>0, <1>4 DEF Begin
  <2> QED
    BY <1>2, <1>4, <2>1, <2>2 DEF Begin, Rest, bounds, history
<1>5. ASSUME Attribute(c) PROVE Receives(c)
  <2>1. PICK s \in {Outside, term} : conn' = [conn EXCEPT ![c].at = "header", ![c].src = s]
    BY <1>5 DEF Attribute
  <2>2. [conn[c] EXCEPT !.at = "header", !.src = s].at # "listing"
    BY <1>0 DEF ConnType
  <2>3. conn' = [conn EXCEPT ![c] = [conn[c] EXCEPT !.at = "header", !.src = s]]
    BY <1>0, <2>1
  <2> QED
    BY <1>2, <1>5, <2>2, <2>3 DEF Attribute, Rest, disk, store, bounds, history
<1>6. ASSUME Hangup(c) PROVE Receives(c)
  BY <1>0, <1>2, <1>6 DEF Hangup, Leave, Rest, disk, store, bounds
<1>7. ASSUME CopyFails(c) PROVE Receives(c)
  BY <1>0, <1>2, <1>7 DEF CopyFails, Abort, Leave, Rest
<1>8. ASSUME CommitMkdir(c) PROVE Receives(c)
  <2>1. UNCHANGED Rest
    BY <1>8 DEF CommitMkdir, Rest
  <2>2. Receiving(c)
    BY <1>8 DEF CommitMkdir, At, Receiving
  <2>3. CASE folders' = [folders EXCEPT ![conn[c].file] = "empty"] /\ conn' = [conn EXCEPT ![c].at = "moving"]
    <3>1. conn'[c].at # "listing" /\ \A d \in Conns : d # c => conn'[d] = conn[d]
      BY <1>0, <2>3 DEF ConnType
    <3> QED
      BY <1>0, <1>1, <2>1, <2>2, <2>3, <3>1 DEF Receives
  <2>4. CASE folders' = folders /\ Leave(c)
    BY <1>0, <1>2, <2>1, <2>4 DEF Leave
  <2> QED
    BY <1>8, <2>3, <2>4 DEF CommitMkdir, Abort
<1>9. ASSUME CommitRename(c) PROVE Receives(c)
  <2>1. UNCHANGED Rest
    BY <1>9 DEF CommitRename, Rest
  <2>2. Receiving(c)
    BY <1>9 DEF CommitRename, At, Receiving
  <2>3. CASE folders' = [folders EXCEPT ![conn[c].file] = "file"] /\ conn' = [conn EXCEPT ![c].at = "listing"]
    <3>1. /\ conn'[c].file = conn[c].file /\ conn'[c].proc = conn[c].proc
          /\ \A d \in Conns : d # c => conn'[d] = conn[d]
      BY <1>0, <2>3 DEF ConnType
    <3>2. folders'[conn[c].file] = "file" /\ \A f \in Files : f # conn[c].file => folders'[f] = folders[f]
      BY <1>0, <1>1, <2>2, <2>3
    <3> QED
      BY <2>1, <2>2, <3>1, <3>2 DEF Receives
  <2>4. CASE (\E left : folders' = [folders EXCEPT ![conn[c].file] = left]) /\ Leave(c)
    <3>1. \A f \in Files : f # conn[c].file => folders'[f] = folders[f]
      BY <1>0, <2>4
    <3>2. conn'[c].at # "listing" /\ \A d \in Conns : d # c => conn'[d] = conn[d]
      BY <1>0, <2>4 DEF Leave
    <3> QED
      BY <2>1, <2>2, <3>1, <3>2 DEF Receives
  <2> QED
    BY <1>9, <2>3, <2>4 DEF CommitRename, Abort
<1> QED
  BY <1>3, <1>4, <1>5, <1>6, <1>7, <1>8, <1>9 DEF Unlisted

\* What the lists, the deletes and the folders say of each other.
OnDisk == GoneWereAsked /\ DeletedFilesStayGone /\ ListedFilesArePresent /\ CopiesAreInPlace

\* A file that some list names, or that was asked away or reported, is not the
\* folder that a share touches.
LEMMA NotBeingReceived ==
    ASSUME Inv, NEW c \in Conns, Receiving(c)
    PROVE  /\ conn[c].file \in Files
           /\ conn[c].file \notin Listed /\ conn[c].file \notin asked /\ conn[c].file \notin reported
           /\ \A d \in Conns : d # c => conn[d].file # conn[c].file
<1>1. NewToAll(c) /\ conn[c].file \in Files
  BY DEF Inv, ReceivedFilesAreNew, ConnsHaveProcesses, Types, ConnType
<1> QED
  BY <1>1 DEF NewToAll, Listed

LEMMA UnlistedKeepDisk == ASSUME Inv, OnDisk, NEW c \in Conns, Unlisted(c) PROVE OnDisk'
<1>1. Receives(c)
  BY UnlistedReceive
<1>2. UNCHANGED <<records, proc, asked, gone>>
  BY <1>1 DEF Receives, Rest
<1>3. \A f \in Files : f \in Listed \/ f \in asked => folders'[f] = folders[f]
  BY <1>1, NotBeingReceived DEF Receives
<1>4. gone \subseteq Files /\ \A p \in Procs : Ids(records[p]) \subseteq Files /\ Ids(records[p]) \subseteq Listed
  BY DEF Inv, Types, Rec, Ids, Listed
<1>5. GoneWereAsked' /\ DeletedFilesStayGone'
  BY <1>2, <1>3, <1>4 DEF OnDisk, GoneWereAsked, DeletedFilesStayGone, Ids
<1>6. ListedFilesArePresent'
  BY <1>2, <1>3, <1>4 DEF OnDisk, ListedFilesArePresent, Ids
<1>7. CopiesAreInPlace'
  <2> SUFFICES ASSUME NEW d \in Conns, conn'[d].at = "listing", proc'[conn'[d].proc] = "open"
               PROVE  folders'[conn'[d].file] = "file"
    BY DEF CopiesAreInPlace
  <2>1. conn'[d].file = conn[d].file /\ conn'[d].proc = conn[d].proc
    BY <1>1 DEF Receives
  <2>2. CASE d = c
    BY <1>1, <2>1, <2>2 DEF Receives
  <2>3. CASE d # c
    <3>1. conn[d].at = "listing" /\ folders[conn[d].file] = "file"
      BY <1>1, <1>2, <2>1, <2>3 DEF Receives, OnDisk, CopiesAreInPlace
    <3>2. conn[d].file \in Files
      BY <3>1, NotBeingReceived DEF Receiving
    <3>3. Receiving(c) => conn[d].file # conn[c].file
      BY <2>3, NotBeingReceived
    <3> QED
      BY <1>1, <2>1, <3>1, <3>2, <3>3 DEF Receives
  <2> QED
    BY <2>2, <2>3
<1> QED
  BY <1>5, <1>6, <1>7 DEF OnDisk

\* Nor does a step that changes no folder, lists no file and moves no share.
LEMMA OthersKeepDisk ==
    ASSUME OnDisk, UNCHANGED <<folders, asked, gone>>,
           \A p \in Procs : proc'[p] = "open" => proc[p] = "open" /\ Ids(records'[p]) \subseteq Ids(records[p]),
           \A d \in Conns : conn'[d].at = "listing" => conn'[d] = conn[d] /\ (proc'[conn[d].proc] = "open" => proc[conn[d].proc] = "open")
    PROVE  OnDisk'
<1>1. \A p \in Procs : Ids(records[p])' = Ids(records'[p])
  BY DEF Ids
<1>2. GoneWereAsked' /\ DeletedFilesStayGone' /\ ListedFilesArePresent'
  BY <1>1 DEF OnDisk, GoneWereAsked, DeletedFilesStayGone, ListedFilesArePresent
<1>3. CopiesAreInPlace'
  BY DEF OnDisk, CopiesAreInPlace
<1> QED
  BY <1>2, <1>3 DEF OnDisk

LEMMA CommitListKeepsDisk == ASSUME Inv, OnDisk, NEW c \in Conns, CommitList(c) PROVE OnDisk'
<1>1. PICK p, f : /\ Listing(c, p, f)
                  /\ Completed(c, p, f) \/ Undone(c, p, f)
                  /\ UNCHANGED <<incoming, proc, term, live, misreads, asked, gone>>
  BY CommitListDoes
<1>2. /\ p \in Procs /\ f \in Files /\ conn \in [Conns -> ConnType] /\ folders \in [Files -> {"none", "empty", "file"}]
      /\ records \in [Procs -> SUBSET Rec] /\ Idle.at = "none" /\ conn[c] \in ConnType
      /\ f = conn[c].file /\ Receiving(c) /\ p = conn[c].proc
  BY <1>1 DEF Listing, Inv, Types, Idle, Receiving
<1>3. /\ f \notin Listed /\ f \notin asked /\ \A d \in Conns : d # c => conn[d].file # f
      /\ NewRecord(c).id = f
  BY <1>1, <1>2, NotBeingReceived, TheNewRecord
<1>4. \A g \in Files : g # f => folders'[g] = folders[g]
  BY <1>1, <1>2 DEF Completed, Undone
<1>5. \A d \in Conns : d # c => conn'[d] = conn[d]
  BY <1>1, <1>2 DEF Completed, Undone, Leave
<1>6. conn'[c].at # "listing"
  <2>1. CASE Undone(c, p, f)
    BY <1>2, <2>1 DEF Undone, Leave
  <2>2. CASE Completed(c, p, f)
    <3>1. conn'[c] = [conn[c] EXCEPT !.at = "header", !.file = None, !.stored = @ \cup {f}]
      BY <1>2, <2>2 DEF Completed
    <3> QED
      BY <1>2, <3>1 DEF ConnType
  <2> QED
    BY <1>1, <2>1, <2>2
<1>7. /\ gone \subseteq Files
      /\ \A q \in Procs : Ids(records[q]) \subseteq Files /\ Ids(records[q]) \subseteq Listed
      /\ \A q \in Procs : Ids(records[q])' = Ids(records'[q])
  BY DEF Inv, Types, Rec, Ids, Listed
<1>8. \A q \in Procs : q # p => records'[q] = records[q]
  BY <1>1, <1>2 DEF Completed, Undone
<1>9. CopiesAreInPlace'
  <2> SUFFICES ASSUME NEW d \in Conns, conn'[d].at = "listing", proc'[conn'[d].proc] = "open"
               PROVE  folders'[conn'[d].file] = "file"
    BY DEF CopiesAreInPlace
  <2>1. d # c /\ conn'[d] = conn[d]
    BY <1>5, <1>6
  <2>2. folders[conn[d].file] = "file" /\ conn[d].file # f
    BY <1>1, <1>3, <2>1 DEF OnDisk, CopiesAreInPlace
  <2>3. conn[d].file \in Files
    BY <2>1, NotBeingReceived DEF Receiving
  <2> QED
    BY <1>4, <2>1, <2>2, <2>3
<1>10. \A q \in Procs : Ids(records'[q]) \subseteq Ids(records[q]) \cup {f}
  <2>1. records'[p] \subseteq records[p] \cup {NewRecord(c)}
    BY <1>1, <1>2 DEF Completed, Undone
  <2>2. Ids(records'[p]) \subseteq Ids(records[p]) \cup {f}
    BY <1>3, <2>1 DEF Ids
  <2> QED
    BY <1>8, <2>2
<1>11. \A q \in Procs : proc[q] = "open" /\ f \in Ids(records'[q]) => folders'[f] = "file"
  <2>1. \A q \in Procs : f \notin Ids(records[q])
    BY <1>3, <1>7
  <2>2. CASE Undone(c, p, f)
    BY <2>1, <2>2 DEF Undone
  <2>3. CASE Completed(c, p, f)
    BY <1>1, <1>2, <2>3 DEF Completed, OnDisk, CopiesAreInPlace, Listing
  <2> QED
    BY <1>1, <2>2, <2>3
<1>12. GoneWereAsked' /\ DeletedFilesStayGone'
  <2>1. gone' = gone /\ asked' = asked /\ f \notin gone /\ proc' = proc
    BY <1>1, <1>3 DEF OnDisk, GoneWereAsked
  <2> QED
    BY <1>4, <1>7, <1>10, <2>1 DEF OnDisk, GoneWereAsked, DeletedFilesStayGone
<1>13. ListedFilesArePresent'
  <2> SUFFICES ASSUME NEW q \in Procs, proc'[q] = "open", NEW g \in Ids(records'[q])
               PROVE  folders'[g] = "file" \/ g \in asked'
    BY <1>7 DEF ListedFilesArePresent
  <2>1. CASE g = f
    BY <1>1, <1>11, <2>1
  <2>2. CASE g # f
    <3>1. g \in Ids(records[q]) /\ g \in Files
      BY <1>7, <1>10, <2>2
    <3> QED
      BY <1>1, <1>4, <2>2, <3>1 DEF OnDisk, ListedFilesArePresent
  <2> QED
    BY <2>1, <2>2
<1> QED
  BY <1>9, <1>12, <1>13 DEF OnDisk

LEMMA DeleteKeepsDisk == ASSUME Inv, OnDisk, NEW p \in Procs, NEW ids, Delete(p, ids) PROVE OnDisk'
<1>1. PICK deleted : Deletes(p, ids, deleted)
  BY DeleteDoes DEF Inv
<1> DEFINE wanted == {r \in records[p] : r.id \in ids}
<1>2. /\ records \in [Procs -> SUBSET Rec] /\ conn \in [Conns -> ConnType] /\ gone \subseteq Files
      /\ \A q \in Procs : Ids(records[q])' = Ids(records'[q])
      /\ \A q \in Procs : Ids(records[q]) \subseteq Files /\ Ids(records[q]) \subseteq Listed
  BY DEF Inv, Types, Rec, Ids, Listed
<1>3. /\ proc[p] = "open" /\ deleted \subseteq wanted /\ proc' = proc /\ conn' = conn
      /\ \A f \in Files : /\ f \in Ids(deleted) => folders'[f] = "none"
                          /\ f \notin Ids(wanted) => folders'[f] = folders[f]
      /\ records' = [records EXCEPT ![p] = @ \ deleted]
      /\ gone' = gone \cup Ids(deleted) /\ asked' = asked \cup Ids(wanted)
  BY <1>1 DEF Deletes
<1>4. wanted \subseteq records[p] /\ Ids(deleted) \subseteq Ids(wanted) /\ Ids(wanted) \subseteq Ids(records[p])
  BY <1>3 DEF Ids
<1>5. \A f \in Ids(deleted) : f \notin Ids(records'[p])
  <2>1. Unique(records[p]) /\ deleted \subseteq records[p] /\ records'[p] = records[p] \ deleted
    BY <1>2, <1>3, <1>4 DEF Inv, IDsAreUnique
  <2> QED
    BY <2>1 DEF Unique, Ids
<1>6. \A q \in Procs : /\ Ids(records'[q]) \subseteq Ids(records[q])
                       /\ proc[q] = "open" => q = p
  <2>1. \A q \in Procs : records'[q] \subseteq records[q]
    BY <1>2, <1>3
  <2> QED
    BY <1>3, <2>1 DEF Inv, OneOpen, Ids
<1> HIDE DEF wanted
<1>7. GoneWereAsked'
  BY <1>3, <1>4 DEF OnDisk, GoneWereAsked
<1>8. DeletedFilesStayGone'
  <2> SUFFICES ASSUME NEW f \in gone'
               PROVE  folders'[f] = "none" /\ \A q \in Procs : proc'[q] = "open" => f \notin Ids(records'[q])
    BY <1>2 DEF DeletedFilesStayGone
  <2>1. CASE f \in Ids(deleted)
    BY <1>2, <1>3, <1>4, <1>5, <1>6, <2>1
  <2>2. CASE f \in gone
    <3>1. folders[f] = "none" /\ f \notin Ids(records[p]) /\ f \in Files
      BY <1>2, <1>3, <2>2 DEF OnDisk, DeletedFilesStayGone
    <3> QED
      BY <1>3, <1>4, <1>6, <3>1
  <2> QED
    BY <1>3, <2>1, <2>2
<1>9. ListedFilesArePresent'
  <2> SUFFICES ASSUME NEW q \in Procs, proc'[q] = "open", NEW f \in Ids(records'[q])
               PROVE  folders'[f] = "file" \/ f \in asked'
    BY <1>2 DEF ListedFilesArePresent
  <2>1. f \in Ids(records[q]) /\ f \in Files /\ proc[q] = "open"
    BY <1>2, <1>3, <1>6
  <2> QED
    BY <1>3, <2>1 DEF OnDisk, ListedFilesArePresent
<1>10. CopiesAreInPlace'
  <2> SUFFICES ASSUME NEW d \in Conns, conn[d].at = "listing", proc[conn[d].proc] = "open"
               PROVE  folders'[conn[d].file] = "file"
    BY <1>3 DEF CopiesAreInPlace
  <2>1. folders[conn[d].file] = "file" /\ conn[d].file \in Files /\ conn[d].file \notin Listed
    BY NotBeingReceived DEF OnDisk, CopiesAreInPlace, Receiving
  <2> QED
    BY <1>2, <1>3, <1>4, <2>1
<1> QED
  BY <1>7, <1>8, <1>9, <1>10 DEF OnDisk

\* A process that opens the folder lists only files that are there, and clears
\* nothing of what was deleted.
LEMMA OpenKeepsDisk == ASSUME Inv, OnDisk, NEW p \in Procs, Open(p) PROVE OnDisk'
<1>1. PICK found : Opens(p, found)
  BY OpenDoes DEF Inv
<1>2. /\ records \in [Procs -> SUBSET Rec] /\ proc \in [Procs -> {"off", "open", "closed"}]
      /\ folders \in [Files -> {"none", "empty", "file"}] /\ gone \subseteq Files
      /\ \A q \in Procs : Ids(records[q])' = Ids(records'[q])
  BY DEF Inv, Types, Ids
<1>3. /\ records'[p] = found /\ \A q \in Procs : proc'[q] = "open" => q = p
      /\ \A q \in Procs : proc[q] # "open"
      /\ \A f \in Ids(found) : folders[f] = "file"
      /\ folders' = [f \in Files |-> IF f \in Ids(found) THEN folders[f] ELSE "none"]
      /\ UNCHANGED <<asked, gone, conn>>
  BY <1>1, <1>2 DEF Opens, history
<1>4. Ids(found) \subseteq Files
  BY <1>1 DEF Opens, Inv, Types, Rec, Ids
<1>5. GoneWereAsked'
  BY <1>3 DEF OnDisk, GoneWereAsked
<1>6. DeletedFilesStayGone'
  <2>1. \A f \in gone : folders[f] = "none" /\ f \notin Ids(found) /\ f \in Files
    BY <1>2, <1>3 DEF OnDisk, DeletedFilesStayGone
  <2> QED
    BY <1>2, <1>3, <2>1 DEF DeletedFilesStayGone
<1>7. ListedFilesArePresent'
  BY <1>2, <1>3, <1>4 DEF ListedFilesArePresent
<1>8. CopiesAreInPlace'
  <2>1. \A d \in Conns : conn[d].at = "listing" => conn[d].proc \in Procs /\ conn[d].proc # p
    BY <1>1 DEF Opens, Inv, OffIsEmpty, ConnsHaveProcesses
  <2> QED
    BY <1>3, <2>1 DEF CopiesAreInPlace
<1> QED
  BY <1>5, <1>6, <1>7, <1>8 DEF OnDisk

LEMMA OpenFailsKeepsDisk == ASSUME Inv, OnDisk, NEW p \in Procs, OpenFails(p) PROVE OnDisk'
<1>1. OpensPartly
  BY OpenFailsDoes DEF Inv
<1>2. gone \subseteq Files /\ \A q \in Procs : Ids(records[q])' = Ids(records'[q])
  BY DEF Inv, Types, Ids
<1>3. \A d \in Conns : conn[d].at = "listing" => conn[d].proc \in Procs
  BY DEF Inv, ConnsHaveProcesses
<1> QED
  BY <1>1, <1>2, <1>3 DEF OpensPartly, history, OnDisk, GoneWereAsked, DeletedFilesStayGone,
                          ListedFilesArePresent, CopiesAreInPlace

LEMMA EndKeepsDisk == ASSUME Inv, OnDisk, NEW p \in Procs, End(p) PROVE OnDisk'
<1>1. Ends(p)
  BY DEF End, Ends, disk, bounds, history
<1>2. /\ records \in [Procs -> SUBSET Rec] /\ proc \in [Procs -> {"off", "open", "closed"}]
      /\ conn \in [Conns -> ConnType] /\ Idle.at = "none"
  BY DEF Inv, Types, Idle
<1>3. \A q \in Procs : proc'[q] = "open" => proc[q] = "open" /\ records'[q] = records[q]
  BY <1>1, <1>2 DEF Ends
<1>4. \A d \in Conns : conn'[d].at = "listing" => conn'[d] = conn[d] /\ conn[d].proc \in Procs
  BY <1>1, <1>2 DEF Ends, Inv, ConnsHaveProcesses
<1> QED
  BY <1>1, <1>3, <1>4, OthersKeepDisk DEF Ends

LEMMA NextKeepsDisk == ASSUME Inv, HomesHaveProcesses, OnDisk, [Next]_vars PROVE OnDisk'
<1>0. \A d \in Conns : conn[d].at = "listing" => conn[d].proc \in Procs
  BY DEF Inv, ConnsHaveProcesses
<1>1. ASSUME NEW p \in Procs, Open(p) \/ OpenFails(p) \/ Close(p) \/ End(p) PROVE OnDisk'
  <2>1. CASE Close(p)
    <3>1. /\ \A q \in Procs : proc'[q] = "open" => proc[q] = "open"
          /\ UNCHANGED <<folders, records, conn, asked, gone>>
      BY <2>1 DEF Close, disk, store, history, Inv, Types
    <3> QED
      BY <1>0, <3>1, OthersKeepDisk
  <2> QED
    BY <1>1, <2>1, OpenKeepsDisk, OpenFailsKeepsDisk, EndKeepsDisk
<1>2. ASSUME NEW p \in Procs, NEW ids \in SUBSET Files, Delete(p, ids) PROVE OnDisk'
  BY <1>2, DeleteKeepsDisk
<1>3. ASSUME NEW c \in Conns, ShareStep(c) \/ (\E p \in Procs : Accept(c, p)) \/ (\E f \in Files : Begin(c, f))
      PROVE  OnDisk'
  BY <1>3, UnlistedKeepDisk, CommitListKeepsDisk DEF ShareStep, Unlisted
<1>4. ASSUME NEW h \in Homes, NEW v \in View, SetView(h, v) PROVE OnDisk'
  <2>1. PICK p \in Procs : Views(h, v, p)
    BY <1>4, SetViewDoes DEF Inv
  <2>2. \A q \in Procs : Ids(records'[q]) \subseteq Ids(records[q])
    <3>1. /\ records' = records \/ records' = [records EXCEPT ![p] = Updated(p, v)]
          /\ records \in [Procs -> SUBSET Rec] /\ Ids(Updated(p, v)) = Ids(records[p])
      BY <2>1, UpdatedLists DEF Views, Inv, Types
    <3> QED
      BY <3>1
  <2> QED
    BY <1>0, <2>1, <2>2, OthersKeepDisk DEF Views, history
<1>5. ASSUME UNCHANGED <<folders, proc, records, conn, asked, gone>> PROVE OnDisk'
  BY <1>0, <1>5, OthersKeepDisk
<1>6. ASSUME NEW h \in Homes, (\E p \in Procs : HomeOpen(h, p)) \/ HomeSignal(h) \/ HomeList(h) \/ HomeClose(h) PROVE OnDisk'
  BY <1>5, <1>6 DEF HomeOpen, HomeSignal, HomeList, HomeClose, disk, store, history
<1>7. ASSUME Replace \/ Follow \/ UNCHANGED vars PROVE OnDisk'
  BY <1>5, <1>7 DEF Replace, Follow, vars, disk, store, history
<1> QED
  BY <1>1, <1>2, <1>3, <1>4, <1>6, <1>7, ShownAreViews DEF Next

\* What the lists, the deletes and the folders say of each other holds in every
\* state (store.go:187-241, 420-608).
THEOREM SharesOnDisk == Spec => []OnDisk
<1>1. Init => OnDisk
  <2>1. \A d \in Conns : Idle.at # "listing"
    BY DEF Idle
  <2> QED
    BY <2>1 DEF Init, OnDisk, GoneWereAsked, DeletedFilesStayGone, ListedFilesArePresent, CopiesAreInPlace, Ids
<1>2. Inv /\ (\A h \in Homes : HomeOK(h)) /\ OnDisk /\ [Next]_vars => OnDisk'
  BY NextKeepsDisk, HomesOKShow DEF Inv
<1> QED
  BY <1>1, <1>2, SharesBase, PTL DEF Spec

\* A file reported as deleted never comes back, whichever process opens the
\* folder later and whatever index it reads (store.go:420-462, 187-241).
THEOREM DeletedFilesNeverReturn == Spec => []DeletedFilesStayGone
<1>1. OnDisk => DeletedFilesStayGone
  BY DEF OnDisk
<1> QED
  BY <1>1, SharesOnDisk, PTL

\* A file the store lists can be opened, unless a delete of it failed halfway:
\* the part of StorageAgrees that is not about counters (store.go:187-241,
\* 420-462, 541-608).
THEOREM ListedFilesStayPresent == Spec => []ListedFilesArePresent
<1>1. OnDisk => ListedFilesArePresent
  BY DEF OnDisk
<1> QED
  BY <1>1, SharesOnDisk, PTL

-----------------------------------------------------------------------------
(***************************************************************************)
(* A file reported as shared stays until a delete names it.                *)
(***************************************************************************)

\* A file is kept by a step that leaves its folder, and the lists that name it.
LEMMA KeepsKept ==
    ASSUME NEW f, Kept(f), folders'[f] = folders[f],
           f \in Ids(index'),
           \A p \in Procs : proc'[p] # "off" => f \in Ids(records'[p])
    PROVE  Kept(f)'
BY DEF Kept, Ids

LEMMA CommitListKeepsKept ==
    ASSUME Inv, OnDisk, OneProcess, NEW c \in Conns, CommitList(c), NEW f \in reported', f \notin asked',
           f \in reported => Kept(f)
    PROVE  Kept(f)'
<1>1. PICK p, g : /\ Listing(c, p, g)
                  /\ Completed(c, p, g) \/ Undone(c, p, g)
                  /\ UNCHANGED <<incoming, proc, term, live, misreads, asked, gone>>
  BY CommitListDoes
<1>2. /\ p \in Procs /\ g \in Files /\ records \in [Procs -> SUBSET Rec] /\ proc[p] # "off"
      /\ g = conn[c].file /\ Receiving(c) /\ NewRecord(c).id = g /\ p = conn[c].proc /\ conn[c].at = "listing"
      /\ folders \in [Files -> {"none", "empty", "file"}] /\ reported \subseteq Files
  BY <1>1, TheNewRecord DEF Listing, Inv, Types, Receiving
<1>3. g \notin reported
  BY <1>2, NotBeingReceived
<1>4. PICK list : list = records[p] \cup {NewRecord(c)}
  OBVIOUS
<1>5. Ids(list) = Ids(records[p]) \cup {g}
  BY <1>2, <1>4 DEF Ids
<1>6. CASE f = g
  <2>1. Completed(c, p, g)
    BY <1>1, <1>3, <1>6 DEF Undone
  <2>2. folders'[g] = "file" /\ index' = list /\ records' = [records EXCEPT ![p] = list]
    BY <1>2, <1>4, <2>1 DEF Completed, OnDisk, CopiesAreInPlace
  <2>3. \A q \in Procs : records'[q] = list
    BY <1>2, <2>2 DEF OneProcess
  <2> QED
    BY <1>5, <1>6, <2>2, <2>3 DEF Kept, Ids
<1>7. CASE f # g
  <2>1. f \in reported /\ Kept(f) /\ f \in Files
    BY <1>1, <1>2, <1>7 DEF Completed, Undone
  <2>2. folders'[f] = folders[f]
    BY <1>1, <1>2, <1>7, <2>1 DEF Completed, Undone
  <2>3. f \in Ids(list)
    BY <1>2, <1>5, <2>1 DEF Kept
  <2>4. index' \in {index, list} /\ (records' = records \/ records' = [records EXCEPT ![p] = list])
    BY <1>1, <1>4 DEF Completed, Undone
  <2>5. f \in Ids(index')
    BY <2>1, <2>3, <2>4 DEF Kept
  <2>6. \A q \in Procs : proc'[q] # "off" => f \in Ids(records'[q])
    BY <1>1, <1>2, <2>1, <2>3, <2>4 DEF Kept
  <2> QED
    BY <2>1, <2>2, <2>5, <2>6, KeepsKept
<1> QED
  BY <1>6, <1>7

LEMMA DeleteKeepsKept ==
    ASSUME Inv, NEW p \in Procs, NEW ids, Delete(p, ids), NEW f \in reported, f \notin asked', Kept(f)
    PROVE  Kept(f)'
<1>1. PICK deleted : Deletes(p, ids, deleted)
  BY DeleteDoes DEF Inv
<1> DEFINE wanted == {r \in records[p] : r.id \in ids}
<1>2. PICK list : list = records[p] \ deleted
  OBVIOUS
<1>3. /\ records \in [Procs -> SUBSET Rec] /\ f \in Files /\ proc' = proc /\ proc[p] = "open"
      /\ deleted \subseteq wanted /\ f \notin Ids(wanted)
      /\ folders'[f] = folders[f]
      /\ records' = [records EXCEPT ![p] = list] /\ index' \in {index, list}
  BY <1>1, <1>2 DEF Deletes, Inv, Types
<1>4. f \in Ids(list)
  BY <1>2, <1>3 DEF Kept, Ids
<1>5. f \in Ids(index') /\ \A q \in Procs : proc'[q] # "off" => f \in Ids(records'[q])
  BY <1>3, <1>4 DEF Kept
<1> QED
  BY <1>3, <1>5, KeepsKept

LEMMA OpenKeepsKept ==
    ASSUME Inv, OneProcess, NEW p \in Procs, Open(p), misreads' = 0, NEW f \in reported, Kept(f)
    PROVE  Kept(f)'
<1>1. PICK found : Opens(p, found)
  BY OpenDoes DEF Inv
<1>2. f \in Files /\ records \in [Procs -> SUBSET Rec] /\ folders[f] = "file" /\ f \in Ids(index)
  BY DEF Inv, Types, Kept
<1>3. f \in Ids(found)
  BY <1>1, <1>2 DEF Opens, Ids
<1>4. folders'[f] = folders[f] /\ index' = found /\ records' = [records EXCEPT ![p] = found]
  BY <1>1, <1>2, <1>3 DEF Opens
<1>5. \A q \in Procs : records'[q] = found
  BY <1>2, <1>4 DEF OneProcess
<1> QED
  BY <1>3, <1>4, <1>5, KeepsKept

LEMMA NextKeepsReported ==
    ASSUME Inv, OnDisk, OneProcess, HomesHaveProcesses, ReportedFilesAreKept, [Next]_vars
    PROVE  ReportedFilesAreKept'
<1> SUFFICES ASSUME misreads' = 0, NEW f \in reported', f \notin asked' PROVE Kept(f)'
  BY DEF ReportedFilesAreKept
<1>0. misreads \in Nat /\ records \in [Procs -> SUBSET Rec] /\ reported \subseteq Files
  BY DEF Inv, Types
<1>1. ASSUME misreads' = misreads, asked' = asked, reported' = reported, folders'[f] = folders[f],
             Ids(index) \subseteq Ids(index'),
             \A p \in Procs : proc'[p] # "off" => proc[p] # "off" /\ Ids(records[p]) \subseteq Ids(records'[p])
      PROVE  Kept(f)'
  <2>1. Kept(f)
    BY <1>1 DEF ReportedFilesAreKept
  <2>2. f \in Ids(index') /\ \A p \in Procs : proc'[p] # "off" => f \in Ids(records'[p])
    BY <1>1, <2>1 DEF Kept
  <2> QED
    BY <1>1, <2>1, <2>2, KeepsKept
<1>2. ASSUME NEW p \in Procs, Open(p) PROVE Kept(f)'
  <2>1. PICK found : Opens(p, found)
    BY <1>2, OpenDoes DEF Inv
  <2>2. misreads = 0 /\ reported' = reported /\ asked' = asked
    BY <1>0, <2>1 DEF Opens, history
  <2>3. Kept(f)
    BY <2>2 DEF ReportedFilesAreKept
  <2> QED
    BY <1>2, <2>2, <2>3, OpenKeepsKept
<1>3. ASSUME NEW p \in Procs, OpenFails(p) PROVE Kept(f)'
  <2>1. OpensPartly
    BY <1>3, OpenFailsDoes DEF Inv
  <2>2. Kept(f) /\ f \in Files
    BY <1>0, <2>1 DEF OpensPartly, history, ReportedFilesAreKept
  <2>3. f \in Ids({r \in index : folders[r.id] = "file"})
    BY <2>2 DEF Kept, Ids
  <2>4. folders'[f] = folders[f] /\ f \in Ids(index')
    BY <2>1, <2>2, <2>3 DEF OpensPartly, Kept
  <2>5. \A q \in Procs : proc'[q] # "off" => f \in Ids(records'[q])
    BY <2>1, <2>2 DEF OpensPartly, Kept
  <2> QED
    BY <2>2, <2>4, <2>5, KeepsKept
<1>4. ASSUME NEW p \in Procs, Close(p) PROVE Kept(f)'
  <2>1. /\ \A q \in Procs : proc'[q] # "off" => proc[q] # "off"
        /\ UNCHANGED <<index, folders, records, misreads, asked, reported>>
    BY <1>4 DEF Close, disk, store, bounds, history, Inv, Types
  <2> QED
    BY <1>1, <2>1
<1>5. ASSUME NEW p \in Procs, End(p) PROVE Kept(f)'
  <2>1. Ends(p) /\ proc \in [Procs -> {"off", "open", "closed"}]
    BY <1>5 DEF End, Ends, disk, bounds, history, Inv, Types
  <2>2. \A q \in Procs : proc'[q] # "off" => proc[q] # "off" /\ records'[q] = records[q]
    BY <1>0, <2>1 DEF Ends
  <2> QED
    BY <1>1, <2>1, <2>2 DEF Ends
<1>6. ASSUME NEW p \in Procs, NEW ids, Delete(p, ids) PROVE Kept(f)'
  <2>1. PICK deleted : Deletes(p, ids, deleted)
    BY <1>6, DeleteDoes DEF Inv
  <2>2. f \in reported /\ f \notin asked /\ misreads = 0
    BY <2>1 DEF Deletes
  <2>3. Kept(f)
    BY <2>2 DEF ReportedFilesAreKept
  <2> QED
    BY <1>6, <2>2, <2>3, DeleteKeepsKept
<1>7. ASSUME NEW c \in Conns, Unlisted(c) PROVE Kept(f)'
  <2>1. Receives(c)
    BY <1>7, UnlistedReceive
  <2>2. f \in reported /\ f \in Files
    BY <1>0, <2>1 DEF Receives, Rest
  <2>3. folders'[f] = folders[f]
    BY <2>1, <2>2, NotBeingReceived DEF Receives
  <2> QED
    BY <1>1, <2>1, <2>3 DEF Receives, Rest
<1>8. ASSUME NEW c \in Conns, CommitList(c) PROVE Kept(f)'
  <2>1. PICK p, g : UNCHANGED <<incoming, proc, term, live, misreads, asked, gone>>
    BY <1>8, CommitListDoes
  <2>2. f \in reported => Kept(f)
    BY <2>1 DEF ReportedFilesAreKept
  <2> QED
    BY <1>8, <2>2, CommitListKeepsKept
<1>9. ASSUME NEW h \in Homes, NEW v \in View, SetView(h, v) PROVE Kept(f)'
  <2>1. PICK p \in Procs : p = home[h].proc /\ Views(h, v, p)
    BY <1>9, SetViewDoes DEF Inv
  <2>2. proc[p] # "off" /\ Ids(Updated(p, v)) = Ids(records[p])
    BY <2>1, UpdatedLists DEF Inv, OffIsEmpty
  <2>3. /\ UNCHANGED <<folders, proc, misreads, asked, reported>>
        /\ index' \in {index, Updated(p, v)}
        /\ records' = records \/ records' = [records EXCEPT ![p] = Updated(p, v)]
    BY <2>1 DEF Views, history
  <2>4. Kept(f)
    BY <2>3 DEF ReportedFilesAreKept
  <2>5. f \in Ids(index')
    BY <2>2, <2>3, <2>4 DEF Kept
  <2>6. \A q \in Procs : proc'[q] # "off" => f \in Ids(records'[q])
    BY <1>0, <2>2, <2>3, <2>4 DEF Kept
  <2> QED
    BY <2>3, <2>4, <2>5, <2>6, KeepsKept
<1>10. ASSUME UNCHANGED <<index, folders, proc, records, misreads, asked, reported>> PROVE Kept(f)'
  BY <1>1, <1>10
<1>11. ASSUME NEW h \in Homes, (\E p \in Procs : HomeOpen(h, p)) \/ HomeSignal(h) \/ HomeList(h) \/ HomeClose(h)
       PROVE  Kept(f)'
  BY <1>10, <1>11 DEF HomeOpen, HomeSignal, HomeList, HomeClose, disk, store, bounds, history
<1>12. ASSUME Replace \/ Follow \/ UNCHANGED vars PROVE Kept(f)'
  BY <1>10, <1>12 DEF Replace, Follow, vars, disk, store, bounds, history
<1>13. ASSUME NEW c \in Conns, ShareStep(c) \/ (\E p \in Procs : Accept(c, p)) \/ (\E g \in Files : Begin(c, g))
       PROVE  Kept(f)'
  BY <1>7, <1>8, <1>13 DEF ShareStep, Unlisted
<1> QED
  BY <1>2, <1>3, <1>4, <1>5, <1>6, <1>9, <1>11, <1>12, <1>13, ShownAreViews DEF Next

\* "Shepherdr keeps each copy until they delete it": a file whose command was
\* told it is shared stays listed, on disk and in the index, through failed
\* writes, crashes and restarts, until a delete names it, when the folder is
\* given to one Shepherdr after the other has ended (store.go:187-241, 270-310,
\* 420-608).  A closed process that has not ended may still write the index
\* under the next one (main.go:377): the theorem says nothing of that.
THEOREM SharedFilesStay == OneProcess => (Spec => []ReportedFilesStay)
<1> SUFFICES ASSUME OneProcess PROVE Spec => []ReportedFilesStay
  OBVIOUS
<1>1. Init => ReportedFilesAreKept
  BY DEF Init, ReportedFilesAreKept
<1>2. Inv /\ (\A h \in Homes : HomeOK(h)) /\ OnDisk /\ ReportedFilesAreKept /\ [Next]_vars => ReportedFilesAreKept'
  BY NextKeepsReported, HomesOKShow DEF Inv
<1>3. ReportedFilesAreKept => ReportedFilesStay
  BY DEF ReportedFilesAreKept, ReportedFilesStay, Kept
<1> QED
  BY <1>1, <1>2, <1>3, SharesBase, SharesOnDisk, PTL DEF Spec

-----------------------------------------------------------------------------
(***************************************************************************)
(* Bytes.                                                                  *)
(***************************************************************************)

\* Finitely many bytes.
Few(ids) == IsFiniteSet(Units(ids))

LEMMA BytesOne == ASSUME NEW f \in Files PROVE Few({f}) /\ Bytes({f}) = Size[f]
<1>1. Size[f] \in Nat /\ Units({f}) = {f} \X (1 .. Size[f])
  BY SizesAreNaturals DEF Units
<1>2. IsFiniteSet({f}) /\ Cardinality({f}) = 1
  BY FS_Singleton
<1>3. IsFiniteSet(1 .. Size[f])
  BY <1>1, FS_Interval
<1>4. Cardinality(1 .. Size[f]) = IF 1 > Size[f] THEN 0 ELSE Size[f] - 1 + 1
  BY <1>1, FS_Interval
<1>5. IsFiniteSet({f} \X (1 .. Size[f]))
      /\ Cardinality({f} \X (1 .. Size[f])) = Cardinality({f}) * Cardinality(1 .. Size[f])
  BY <1>2, <1>3, FS_Product
<1>6. Cardinality({f} \X (1 .. Size[f])) = Size[f]
  BY <1>1, <1>2, <1>4, <1>5
<1> QED
  BY <1>1, <1>5, <1>6 DEF Few, Bytes

LEMMA BytesNone == Few({}) /\ Bytes({}) = 0
<1>1. Units({}) = {}
  BY DEF Units
<1> QED
  BY <1>1, FS_EmptySet DEF Few, Bytes

LEMMA BytesOfSome ==
    ASSUME NEW ids, Few(ids), NEW some \in SUBSET ids
    PROVE  Few(some) /\ Bytes(some) <= Bytes(ids) /\ Bytes(some) \in Nat /\ Bytes(ids) \in Nat
<1>1. Units(some) \in SUBSET Units(ids)
  BY DEF Units
<1> QED
  BY <1>1, FS_Subset, FS_CardinalityType DEF Few, Bytes

LEMMA BytesTogether ==
    ASSUME NEW A, NEW B, Few(A), Few(B)
    PROVE  /\ Few(A \cup B)
           /\ Bytes(A \cup B) <= Bytes(A) + Bytes(B)
           /\ A \cap B = {} => Bytes(A \cup B) = Bytes(A) + Bytes(B)
<1>1. Units(A \cup B) = Units(A) \cup Units(B)
  BY DEF Units
<1>2. A \cap B = {} => Units(A) \cap Units(B) = {}
  BY DEF Units
<1>3. /\ IsFiniteSet(Units(A) \cup Units(B))
      /\ Cardinality(Units(A) \cup Units(B))
           = Cardinality(Units(A)) + Cardinality(Units(B)) - Cardinality(Units(A) \cap Units(B))
  BY FS_Union DEF Few
<1>4. Cardinality(Units(A)) \in Nat /\ Cardinality(Units(B)) \in Nat /\ Cardinality({}) = 0
  BY FS_CardinalityType, FS_EmptySet DEF Few
<1>5. Cardinality(Units(A) \cap Units(B)) \in Nat
  BY FS_Intersection, FS_CardinalityType DEF Few
<1>6. A \cap B = {} => Cardinality(Units(A) \cap Units(B)) = 0
  BY <1>2, <1>4
<1>7. /\ IsFiniteSet(Units(A \cup B))
      /\ Cardinality(Units(A \cup B))
           = Cardinality(Units(A)) + Cardinality(Units(B)) - Cardinality(Units(A) \cap Units(B))
  BY <1>1, <1>3
<1> QED
  BY <1>4, <1>5, <1>6, <1>7 DEF Few, Bytes

LEMMA BytesWithout ==
    ASSUME NEW ids, Few(ids), NEW some \in SUBSET ids
    PROVE  Few(ids \ some) /\ Bytes(ids \ some) = Bytes(ids) - Bytes(some)
<1>1. Few(some) /\ Few(ids \ some) /\ Bytes(some) \in Nat /\ Bytes(ids \ some) \in Nat
  BY BytesOfSome
<1>2. ids = (ids \ some) \cup some /\ (ids \ some) \cap some = {}
  OBVIOUS
<1>3. Bytes((ids \ some) \cup some) = Bytes(ids \ some) + Bytes(some)
  BY <1>1, <1>2, BytesTogether
<1>4. Bytes(ids) = Bytes(ids \ some) + Bytes(some)
  BY <1>2, <1>3, Zenon
<1> QED
  BY <1>1, <1>4

LEMMA BytesWithOneMore ==
    ASSUME NEW ids, Few(ids), NEW f \in Files, f \notin ids
    PROVE  Few(ids \cup {f}) /\ Bytes(ids \cup {f}) = Bytes(ids) + Size[f]
<1>1. ids \cap {f} = {}
  OBVIOUS
<1> QED
  BY <1>1, BytesOne, BytesTogether

-----------------------------------------------------------------------------
(***************************************************************************)
(* What the store counts, and what is really on disk.                      *)
(***************************************************************************)

\* The files a process is receiving, and those with bytes on disk.
Received(p) == {conn[c].file : c \in {d \in Conns : conn[d].proc = p /\ Receiving(d)}}
Held == incoming \cup {f \in Files : folders[f] = "file"}

FewFiles == Few(Held) /\ \A p \in Procs : Few(Ids(records[p])) /\ Few(Received(p))

\* While no call failed, what is on disk is listed or being received by the
\* process that has the folder, which keeps to the limit.
WithinTotal ==
    faults = 0 =>
        /\ Bytes(Held) <= Total
        /\ \A p \in Procs : proc[p] = "open" =>
              Held \subseteq Ids(records[p]) \cup Received(p) /\ kept[p] + reserved[p] <= Total

Accounts ==
    /\ faults \in Nat /\ kept \in [Procs -> Nat] /\ reserved \in [Procs -> Nat]
    /\ FewFiles /\ AccountingAgrees /\ WithinTotal

\* A file is in one place: it is not still being received when it is listed,
\* and has no folder with its copy before it is moved there.
CopiedOnce ==
    /\ \A f \in incoming : f \notin Ids(index) /\ \A p \in Procs : f \notin Ids(records[p])
    /\ \A c \in Conns : /\ conn[c].at = "listing" => conn[c].file \notin incoming
                        /\ conn[c].at = "copying" => folders[conn[c].file] # "file"

\* Connections that receive what they did leave the files received as they are.
LEMMA ReceivedStays ==
    ASSUME \A d \in Conns : Receiving(d)' <=> Receiving(d),
           \A d \in Conns : Receiving(d) => conn'[d].proc = conn[d].proc /\ conn'[d].file = conn[d].file
    PROVE  \A p \in Procs : Received(p)' = Received(p)
BY DEF Received

\* One that is done takes its file with it, as no other has that file.
LEMMA ReceivedLeaves ==
    ASSUME ReceivedFilesAreNew, NEW c \in Conns, Receiving(c), ~Receiving(c)',
           \A d \in Conns : d # c => conn'[d] = conn[d]
    PROVE  /\ conn[c].file \in Received(conn[c].proc)
           /\ \A p \in Procs : Received(p)' = IF p = conn[c].proc THEN Received(p) \ {conn[c].file} ELSE Received(p)
<1>1. \A d \in Conns : d # c => conn[d].file # conn[c].file
  BY DEF ReceivedFilesAreNew, NewToAll
<1>2. \A d \in Conns : d # c => (Receiving(d)' <=> Receiving(d))
  BY DEF Receiving
<1>3. conn[c].file \in Received(conn[c].proc)
  BY DEF Received
<1>4. ASSUME NEW p \in Procs, NEW f PROVE f \in Received(p)' <=> f \in Received(p) /\ ~(p = conn[c].proc /\ f = conn[c].file)
  BY <1>1, <1>2 DEF Received
<1> QED
  BY <1>3, <1>4

\* One that begins adds its file.
LEMMA ReceivedBegins ==
    ASSUME NEW c \in Conns, ~Receiving(c), Receiving(c)', conn'[c].proc = conn[c].proc,
           \A d \in Conns : d # c => conn'[d] = conn[d]
    PROVE  \A p \in Procs : Received(p)' = IF p = conn[c].proc THEN Received(p) \cup {conn'[c].file} ELSE Received(p)
<1>2. \A d \in Conns : d # c => (Receiving(d)' <=> Receiving(d))
  BY DEF Receiving
<1>4. ASSUME NEW p \in Procs, NEW f PROVE f \in Received(p)' <=> f \in Received(p) \/ (p = conn[c].proc /\ f = conn'[c].file)
  BY <1>2 DEF Received
<1> QED
  BY <1>4

LEMMA Reserves ==
    ASSUME Accounts, NEW p \in Procs
    PROVE  /\ kept[p] = Bytes(Ids(records[p])) /\ reserved[p] = Bytes(Received(p))
           /\ kept[p] \in Nat /\ reserved[p] \in Nat
           /\ Few(Ids(records[p])) /\ Few(Received(p))
BY DEF Accounts, AccountingAgrees, FewFiles, Received

\* A step puts nothing on disk but what the process with the folder receives.
HoldsNoMore ==
    \/ Held' \subseteq Held
    \/ \E p \in Procs : proc[p] = "open" /\ Held' \subseteq Held \cup Received(p)

\* A step that lists and receives the same files, and leaves no more on disk
\* than that.
LEMMA SameFilesAreCounted ==
    ASSUME Accounts, OneOpen,
           faults' \in Nat, faults' = 0 => faults = 0, kept' = kept, reserved' = reserved,
           \A p \in Procs : Ids(records'[p]) = Ids(records[p]),
           \A p \in Procs : Received(p)' = Received(p),
           faults' = 0 => HoldsNoMore, Few(Held'),
           \A p \in Procs : proc'[p] = "open" => proc[p] = "open"
    PROVE  Accounts'
<1>1. \A p \in Procs : Ids(records[p])' = Ids(records[p])
  BY DEF Ids
<1>2. FewFiles'
  BY <1>1 DEF Accounts, FewFiles, Few
<1>3. AccountingAgrees'
  BY <1>1, Reserves DEF AccountingAgrees, Received
<1>4. ASSUME faults' = 0
      PROVE  Bytes(Held)' <= Total /\ \A q \in Procs : proc[q] = "open" => Held' \subseteq Ids(records[q]) \cup Received(q)
  <2>1. Few(Held) /\ Bytes(Held) <= Total
    BY <1>4 DEF Accounts, FewFiles, WithinTotal
  <2>2. CASE Held' \subseteq Held
    <3>1. Held' \in SUBSET Held
      BY <2>2
    <3>2. Bytes(Held') <= Bytes(Held) /\ Bytes(Held') \in Nat /\ Bytes(Held) \in Nat
      BY <2>1, <3>1, BytesOfSome
    <3>3. Bytes(Held') <= Total
      BY <2>1, <3>2, ShareBoundsAreNaturals
    <3>4. \A q \in Procs : proc[q] = "open" => Held' \subseteq Ids(records[q]) \cup Received(q)
      BY <1>4, <2>2 DEF Accounts, WithinTotal
    <3> QED
      BY <3>3, <3>4 DEF Bytes, Units
  <2>3. CASE \E p \in Procs : proc[p] = "open" /\ Held' \subseteq Held \cup Received(p)
    <3>1. PICK p \in Procs : proc[p] = "open" /\ Held' \subseteq Held \cup Received(p)
      BY <2>3
    <3>2. PICK all : all = Ids(records[p]) \cup Received(p)
      OBVIOUS
    <3>3. Held' \in SUBSET all /\ kept[p] + reserved[p] <= Total
      BY <1>4, <3>1, <3>2 DEF Accounts, WithinTotal
    <3>4. /\ Few(Ids(records[p])) /\ Few(Received(p)) /\ kept[p] = Bytes(Ids(records[p]))
          /\ reserved[p] = Bytes(Received(p)) /\ kept[p] \in Nat /\ reserved[p] \in Nat
      BY Reserves
    <3>5. Few(all) /\ Bytes(all) <= Bytes(Ids(records[p])) + Bytes(Received(p))
      BY <3>2, <3>4, BytesTogether
    <3>6. Bytes(Held') <= Bytes(all) /\ Bytes(Held') \in Nat /\ Bytes(all) \in Nat
      BY <3>3, <3>5, BytesOfSome
    <3>7. Bytes(Held') <= Total
      BY <3>3, <3>4, <3>5, <3>6, ShareBoundsAreNaturals
    <3>8. \A q \in Procs : proc[q] = "open" => q = p
      BY <3>1 DEF OneOpen
    <3> QED
      BY <3>2, <3>3, <3>7, <3>8 DEF Bytes, Units
  <2> QED
    BY <1>4, <2>2, <2>3 DEF HoldsNoMore
<1>5. WithinTotal'
  <2> SUFFICES ASSUME faults' = 0
               PROVE  /\ Bytes(Held)' <= Total
                      /\ \A q \in Procs : proc'[q] = "open" =>
                           Held' \subseteq Ids(records[q])' \cup Received(q)' /\ kept'[q] + reserved'[q] <= Total
    BY DEF WithinTotal
  <2>1. \A q \in Procs : proc[q] = "open" => kept'[q] + reserved'[q] <= Total
    BY DEF Accounts, WithinTotal
  <2> QED
    BY <1>1, <1>4, <2>1
<1> QED
  BY <1>2, <1>3, <1>5 DEF Accounts

\* A share that ends gives its room back.
LEMMA ReleasesAreCounted ==
    ASSUME Inv, Accounts, NEW c \in Conns, NEW p, NEW f, p = conn[c].proc, f = conn[c].file,
           Receiving(c), ~Receiving(c)', \A d \in Conns : d # c => conn'[d] = conn[d],
           faults' \in Nat, faults' = 0 => faults = 0,
           kept' = kept, reserved' = [reserved EXCEPT ![p] = @ - Size[f]],
           \A q \in Procs : Ids(records'[q]) = Ids(records[q]), proc' = proc,
           faults' = 0 => Held' \subseteq Held /\ (proc[p] = "open" => f \notin Held'), Few(Held')
    PROVE  Accounts'
<1>1. p \in Procs /\ f \in Files
  BY DEF Inv, Types, ConnsHaveProcesses, ConnType, Receiving
<1>2. /\ f \in Received(p)
      /\ \A q \in Procs : Received(q)' = IF q = p THEN Received(q) \ {f} ELSE Received(q)
  BY ReceivedLeaves DEF Inv
<1>3. /\ Few({f}) /\ Bytes({f}) = Size[f] /\ {f} \in SUBSET Received(p) /\ Few(Received(p)) /\ Size[f] \in Nat
      /\ reserved[p] = Bytes(Received(p)) /\ reserved[p] \in Nat
  BY <1>1, <1>2, BytesOne, Reserves, SizesAreNaturals
<1>4. Few(Received(p) \ {f}) /\ Bytes(Received(p) \ {f}) = Bytes(Received(p)) - Bytes({f})
  BY <1>3, BytesWithout
<1>5. Few(Received(p) \ {f}) /\ Bytes(Received(p) \ {f}) \in Nat
  BY <1>3, BytesOfSome
<1>6. Bytes(Received(p) \ {f}) = reserved[p] - Size[f]
  BY <1>3, <1>4
<1>7. reserved \in [Procs -> Nat]
  BY DEF Accounts
<1>8. reserved' \in [Procs -> Nat] /\ reserved'[p] = reserved[p] - Size[f] /\ \A q \in Procs : q # p => reserved'[q] = reserved[q]
  BY <1>1, <1>5, <1>6, <1>7
<1>9. \A q \in Procs : Ids(records[q])' = Ids(records[q])
  BY DEF Ids
<1>10. FewFiles'
  <2>1. \A q \in Procs : Few(Ids(records[q])) /\ Few(Received(q))
    BY DEF Accounts, FewFiles
  <2>2. \A q \in Procs : Few(Received(q)')
    BY <1>2, <1>5, <2>1
  <2> QED
    BY <1>9, <2>1, <2>2 DEF FewFiles, Few
<1>11. AccountingAgrees'
  <2>1. \A q \in Procs : kept[q] = Bytes(Ids(records[q])) /\ reserved[q] = Bytes(Received(q))
    BY Reserves
  <2>2. \A q \in Procs : reserved'[q] = Bytes(Received(q)')
    <3> SUFFICES ASSUME NEW q \in Procs PROVE reserved'[q] = Bytes(Received(q)')
      OBVIOUS
    <3>1. CASE q = p
      <4>1. Received(q)' = Received(p) \ {f}
        BY <1>1, <1>2, <3>1
      <4> QED
        BY <1>6, <1>8, <3>1, <4>1
    <3>2. CASE q # p
      <4>1. Received(q)' = Received(q)
        BY <1>2, <3>2
      <4> QED
        BY <1>8, <2>1, <3>2, <4>1
    <3> QED
      BY <3>1, <3>2
  <2>3. \A q \in Procs : kept'[q] = Bytes(Ids(records[q])')
    BY <1>9, <2>1
  <2> QED
    BY <2>2, <2>3 DEF AccountingAgrees, Received, Bytes, Units
<1>12. ASSUME faults' = 0 PROVE Bytes(Held)' <= Total
  <2>1. Few(Held) /\ Bytes(Held) <= Total /\ Held' \in SUBSET Held
    BY <1>12 DEF Accounts, FewFiles, WithinTotal
  <2>2. Bytes(Held') <= Bytes(Held) /\ Bytes(Held') \in Nat /\ Bytes(Held) \in Nat
    BY <2>1, BytesOfSome
  <2>3. Bytes(Held') <= Total
    BY <2>1, <2>2, ShareBoundsAreNaturals
  <2> QED
    BY <2>3 DEF Bytes, Units
<1>13. ASSUME faults' = 0, NEW q \in Procs, proc'[q] = "open"
       PROVE  Held' \subseteq Ids(records[q])' \cup Received(q)' /\ kept'[q] + reserved'[q] <= Total
  <2>1. Held \subseteq Ids(records[q]) \cup Received(q) /\ kept[q] + reserved[q] <= Total
    BY <1>13 DEF Accounts, WithinTotal
  <2>2. Held' \subseteq Ids(records[q])' \cup Received(q)'
    BY <1>2, <1>9, <1>13, <2>1
  <2>3. kept[q] \in Nat /\ reserved[q] \in Nat /\ reserved'[q] \in Nat /\ reserved'[q] <= reserved[q]
    BY <1>3, <1>7, <1>8 DEF Accounts
  <2> QED
    BY <2>1, <2>2, <2>3, ShareBoundsAreNaturals
<1> QED
  BY <1>8, <1>10, <1>11, <1>12, <1>13 DEF Accounts, WithinTotal

-----------------------------------------------------------------------------
(***************************************************************************)
(* Shares in progress.                                                     *)
(***************************************************************************)

\* Lists that gained files of S alone, and no copy, keep a file in one place.
LEMMA StaysCopiedOnce ==
    ASSUME CopiedOnce, NEW S, \A f \in S : f \notin incoming',
           incoming' \subseteq incoming,
           Ids(index') \subseteq Listed \cup S, \A p \in Procs : Ids(records'[p]) \subseteq Listed \cup S,
           \A d \in Conns : conn'[d].at \in {"listing", "copying"} =>
               conn'[d].at = conn[d].at /\ conn'[d].file = conn[d].file,
           \A d \in Conns : conn[d].at = "copying" /\ conn'[d].at = "copying" =>
               (folders'[conn[d].file] = "file" => folders[conn[d].file] = "file")
    PROVE  CopiedOnce'
<1>1. Ids(index)' = Ids(index') /\ \A p \in Procs : Ids(records[p])' = Ids(records'[p])
  BY DEF Ids
<1>2. \A f \in incoming : f \notin Listed
  BY DEF CopiedOnce, Listed
<1>3. ASSUME NEW f \in incoming' PROVE f \notin Ids(index)' /\ \A p \in Procs : f \notin Ids(records[p])'
  BY <1>1, <1>2, <1>3
<1>4. ASSUME NEW d \in Conns
      PROVE  /\ conn'[d].at = "listing" => conn'[d].file \notin incoming'
             /\ conn'[d].at = "copying" => folders'[conn'[d].file] # "file"
  BY <1>4 DEF CopiedOnce
<1> QED
  BY <1>3, <1>4 DEF CopiedOnce

\* A share that ends before it is listed: its room is given back, and its copy
\* goes unless a call failed; the index may have been written with it
\* (store.go:492-625).
Aborts(c, p, f) ==
    /\ Receiving(c) /\ p = conn[c].proc /\ f = conn[c].file
    /\ conn' = [conn EXCEPT ![c] = Idle]
    /\ kept' = kept /\ reserved' = [reserved EXCEPT ![p] = @ - Size[f]]
    /\ incoming' \subseteq incoming
    /\ \A g \in Files : folders'[g] = "file" => folders[g] = "file"
    /\ faults' \in {faults, faults + 1}
    /\ proc[p] = "open" /\ faults' = faults =>
         conn[c].at = "copying" /\ incoming' = incoming \ {f} /\ folders' = folders
    /\ index' = index \/ (conn[c].at = "listing" /\ Ids(index') \subseteq Listed \cup {f})
    /\ UNCHANGED <<proc, records>>

LEMMA ReceivesFrom ==
    ASSUME Inv, NEW c \in Conns, Receiving(c)
    PROVE  /\ conn[c].proc \in Procs /\ conn[c].file \in Files
           /\ \A d \in Conns : d # c => conn[d].file # conn[c].file
<1>1. conn[c].proc \in Procs
  BY DEF Inv, ConnsHaveProcesses, Receiving
<1> QED
  BY <1>1, NotBeingReceived

LEMMA AbortsAreCounted ==
    ASSUME Inv, Accounts, CopiedOnce, NEW c \in Conns, NEW p, NEW f, Aborts(c, p, f)
    PROVE  Accounts' /\ CopiedOnce'
<1>1. p \in Procs /\ f \in Files /\ \A d \in Conns : d # c => conn[d].file # f
  BY ReceivesFrom DEF Aborts
<1>2. conn'[c] = Idle /\ \A d \in Conns : d # c => conn'[d] = conn[d]
  BY OthersStay DEF Inv, Types, Aborts
<1>3. Idle.at = "none"
  BY DEF Idle
<1>4. Held' \subseteq Held
  BY DEF Aborts, Held
<1>5. Held' \in SUBSET Held /\ Few(Held)
  BY <1>4 DEF Accounts, FewFiles
<1>6. Few(Held')
  BY <1>5, BytesOfSome
<1>7. faults' \in Nat /\ (faults' = 0 => faults = 0 /\ faults' = faults)
  BY DEF Aborts, Accounts
<1>8. faults' = 0 /\ proc[p] = "open" => f \notin Held'
  BY <1>7 DEF Aborts, Held, CopiedOnce
<1>9. ~Receiving(c)' /\ Receiving(c)
  BY <1>2, <1>3 DEF Receiving, Aborts
<1>10. /\ \A q \in Procs : Ids(records'[q]) = Ids(records[q])
       /\ p = conn[c].proc /\ f = conn[c].file /\ proc' = proc
       /\ kept' = kept /\ reserved' = [reserved EXCEPT ![p] = @ - Size[f]]
  BY DEF Aborts
<1>11. faults' = 0 => Held' \subseteq Held /\ (proc[p] = "open" => f \notin Held')
  BY <1>4, <1>8
<1>12. Accounts'
  BY <1>2, <1>6, <1>7, <1>9, <1>10, <1>11, ReleasesAreCounted
<1>13. \A d \in Conns : conn'[d].at \in {"listing", "copying"} =>
          conn'[d].at = conn[d].at /\ conn'[d].file = conn[d].file
  BY <1>2, <1>3
<1>14. \A d \in Conns : conn[d].at = "copying" => conn[d].file \in Files
  BY ReceivesFrom DEF Receiving
<1> PICK S : S = IF index' = index THEN {} ELSE {f}
  OBVIOUS
<1>15. /\ Ids(index') \subseteq Listed \cup S /\ \A q \in Procs : Ids(records'[q]) \subseteq Listed \cup S
       /\ incoming' \subseteq incoming
  BY DEF Aborts, Listed
<1>16. /\ \A d \in Conns : conn[d].at = "copying" /\ conn'[d].at = "copying" =>
               (folders'[conn[d].file] = "file" => folders[conn[d].file] = "file")
       /\ \A g \in S : g \notin incoming'
  BY <1>14 DEF Aborts, CopiedOnce
<1>17. CopiedOnce'
  BY <1>13, <1>15, <1>16, StaysCopiedOnce
<1> QED
  BY <1>12, <1>17

\* A share that comes one step closer to being listed (store.go:541-590).
Advances(c, f) ==
    /\ Receiving(c) /\ f = conn[c].file /\ proc[conn[c].proc] = "open"
    /\ \/ /\ folders' = [folders EXCEPT ![f] = "empty"] /\ incoming' = incoming
          /\ conn' = [conn EXCEPT ![c] = [conn[c] EXCEPT !.at = "moving"]]
       \/ /\ folders' = [folders EXCEPT ![f] = "file"] /\ incoming' = incoming \ {f}
          /\ conn' = [conn EXCEPT ![c] = [conn[c] EXCEPT !.at = "listing"]]
    /\ UNCHANGED <<index, proc, records, kept, reserved, faults>>

LEMMA AdvancesAreCounted ==
    ASSUME Inv, Accounts, CopiedOnce, NEW c \in Conns, NEW f, Advances(c, f)
    PROVE  Accounts' /\ CopiedOnce'
<1>1. conn[c].proc \in Procs /\ f \in Files /\ \A d \in Conns : d # c => conn[d].file # f
  BY ReceivesFrom DEF Advances
<1>2. conn \in [Conns -> ConnType] /\ folders \in [Files -> {"none", "empty", "file"}]
  BY DEF Inv, Types
<1>3. /\ \A d \in Conns : d # c => conn'[d] = conn[d]
      /\ conn'[c].file = f /\ conn'[c].proc = conn[c].proc /\ conn'[c].at \in {"moving", "listing"}
  BY <1>2 DEF Advances, ConnType
<1>4. \A q \in Procs : Received(q)' = Received(q)
  <2>1. \A d \in Conns : Receiving(d)' <=> Receiving(d)
    BY <1>3 DEF Receiving, Advances
  <2>2. \A d \in Conns : conn'[d].proc = conn[d].proc /\ conn'[d].file = conn[d].file
    BY <1>3 DEF Advances
  <2> QED
    BY <2>1, <2>2, ReceivedStays
<1>5. Held' \subseteq Held \cup {f}
  BY <1>1, <1>2 DEF Held, Advances
<1>6. f \in Received(conn[c].proc)
  BY DEF Received, Advances
<1>7. Few(Held')
  <2>1. Few(Held) /\ Few({f})
    BY <1>1, BytesOne DEF Accounts, FewFiles
  <2>2. Few(Held \cup {f}) /\ Held' \in SUBSET (Held \cup {f})
    BY <1>5, <2>1, BytesTogether
  <2> QED
    BY <2>2, BytesOfSome
<1>8. HoldsNoMore
  BY <1>1, <1>5, <1>6 DEF Advances, HoldsNoMore
<1>9. /\ faults' \in Nat /\ (faults' = 0 => faults = 0) /\ kept' = kept /\ reserved' = reserved
      /\ \A q \in Procs : Ids(records'[q]) = Ids(records[q])
      /\ \A q \in Procs : proc'[q] = "open" => proc[q] = "open"
      /\ OneOpen
  BY DEF Advances, Accounts, Inv
<1>10. Accounts'
  BY <1>4, <1>7, <1>8, <1>9, SameFilesAreCounted
<1>11. CopiedOnce'
  <2>1. \A d \in Conns : d # c => (conn[d].at = "copying" => folders'[conn[d].file] = folders[conn[d].file])
    <3>1. \A d \in Conns : conn[d].at = "copying" => conn[d].file \in Files
      BY ReceivesFrom DEF Receiving
    <3> QED
      BY <1>1, <1>2, <3>1 DEF Advances
  <2>2. conn'[c].at = "listing" => f \notin incoming'
    BY <1>2 DEF Advances, ConnType
  <2>3. Ids(index)' = Ids(index) /\ \A q \in Procs : Ids(records[q])' = Ids(records[q])
    BY DEF Ids, Advances
  <2>4. incoming' \subseteq incoming
    BY DEF Advances
  <2> QED
    BY <1>3, <2>1, <2>2, <2>3, <2>4 DEF CopiedOnce
<1> QED
  BY <1>10, <1>11

LEMMA UnlistedSharesDo ==
    ASSUME Inv, Accounts, NEW c \in Conns, CopyFails(c) \/ CommitMkdir(c) \/ CommitRename(c)
    PROVE  \E p, f : Aborts(c, p, f) \/ Advances(c, f)
<1> PICK p, f : p = conn[c].proc /\ f = conn[c].file
  OBVIOUS
<1>1. Receiving(c) /\ proc[p] # "off"
  BY DEF CopyFails, CommitMkdir, CommitRename, At, Receiving
<1>2. p \in Procs /\ f \in Files
  BY <1>1, ReceivesFrom
<1>3. /\ conn \in [Conns -> ConnType] /\ folders \in [Files -> {"none", "empty", "file"}]
      /\ proc[p] \in {"open", "closed"} /\ faults \in Nat
  BY <1>1, <1>2 DEF Inv, Types, Accounts
<1>4. UNCHANGED <<index, proc, records, kept>>
  BY DEF CopyFails, CommitMkdir, CommitRename
<1>5. ASSUME Abort(c) PROVE
        /\ conn' = [conn EXCEPT ![c] = Idle] /\ reserved' = [reserved EXCEPT ![p] = @ - Size[f]]
        /\ incoming' \in {incoming, incoming \ {f}}
  BY <1>5 DEF Abort, Leave, release
<1>6. CASE CopyFails(c)
  <2>1. Abort(c) /\ folders' = folders /\ conn[c].at = "copying"
    BY <1>6 DEF CopyFails, At
  <2>2. /\ faults' \in {faults, faults + 1}
        /\ proc[p] = "open" /\ faults' = faults => incoming' # incoming
    BY <1>3, <1>6 DEF CopyFails, Count
  <2> QED
    BY <1>1, <1>4, <1>5, <2>1, <2>2 DEF Aborts
<1>7. CASE CommitMkdir(c)
  <2>1. CASE Abort(c) /\ Count(p, TRUE) /\ folders' = folders
    <3>1. faults' \in {faults, faults + 1} /\ ~(proc[p] = "open" /\ faults' = faults)
      BY <1>3, <2>1 DEF Count
    <3> QED
      BY <1>1, <1>4, <1>5, <2>1, <3>1 DEF Aborts
  <2>2. CASE /\ proc[p] = "open" /\ folders' = [folders EXCEPT ![f] = "empty"]
             /\ conn' = [conn EXCEPT ![c].at = "moving"] /\ UNCHANGED <<incoming, reserved, faults>>
    <3>1. conn' = [conn EXCEPT ![c] = [conn[c] EXCEPT !.at = "moving"]]
      BY <1>3, <2>2
    <3> QED
      BY <1>1, <1>4, <2>2, <3>1 DEF Advances
  <2> QED
    BY <1>7, <2>1, <2>2 DEF CommitMkdir
<1>8. CASE CommitRename(c)
  <2>1. CASE /\ Abort(c) /\ Count(p, TRUE)
             /\ \E left \in RemoveAll(p, f) : folders' = [folders EXCEPT ![f] = left]
    <3>1. faults' \in {faults, faults + 1} /\ ~(proc[p] = "open" /\ faults' = faults)
      BY <1>3, <2>1 DEF Count
    <3>2. \A g \in Files : folders'[g] = "file" => folders[g] = "file"
      BY <1>3, <2>1 DEF RemoveAll
    <3> QED
      BY <1>1, <1>4, <1>5, <3>1, <3>2, <2>1 DEF Aborts
  <2>2. CASE /\ proc[p] = "open" /\ folders' = [folders EXCEPT ![f] = "file"] /\ incoming' = incoming \ {f}
             /\ conn' = [conn EXCEPT ![c].at = "listing"] /\ UNCHANGED <<reserved, faults>>
    <3>1. conn' = [conn EXCEPT ![c] = [conn[c] EXCEPT !.at = "listing"]]
      BY <1>3, <2>2
    <3> QED
      BY <1>1, <1>4, <2>2, <3>1 DEF Advances
  <2> QED
    BY <1>8, <2>1, <2>2 DEF CommitRename
<1> QED
  BY <1>6, <1>7, <1>8

\* A share that begins reserves its room within the limit (store.go:464-491).
LEMMA BeginIsCounted ==
    ASSUME Inv, Accounts, CopiedOnce, NEW c \in Conns, NEW f \in Files, Begin(c, f)
    PROVE  Accounts' /\ CopiedOnce'
<1> PICK p : p = conn[c].proc
  OBVIOUS
<1>1. /\ p \in Procs /\ proc[p] = "open" /\ Fresh(f) /\ conn[c].at = "header"
      /\ reserved' = [reserved EXCEPT ![p] = @ + Size[f]] /\ incoming' = incoming \cup {f}
      /\ UNCHANGED <<index, folders, proc, records, kept, faults>>
      /\ kept[p] + reserved[p] <= Total - Size[f]
  BY DEF Begin, At, Admits, bounds, Inv, ConnsHaveProcesses
<1>2. conn' = [conn EXCEPT ![c] = [conn[c] EXCEPT !.at = "copying", !.file = f]] /\ conn \in [Conns -> ConnType]
  BY DEF Begin, Inv, Types
<1>3. /\ \A d \in Conns : d # c => conn'[d] = conn[d]
      /\ conn'[c].at = "copying" /\ conn'[c].file = f /\ conn'[c].proc = p
  BY <1>2 DEF ConnType
<1>4. /\ \A d \in Conns : conn[d].file # f
      /\ folders[f] = "none" /\ f \notin Ids(index) /\ f \notin incoming
      /\ \A q \in Procs : f \notin Ids(records[q])
  BY <1>1 DEF Fresh
<1>5. \A q \in Procs : Received(q)' = IF q = p THEN Received(q) \cup {f} ELSE Received(q)
  <2>1. ~Receiving(c) /\ Receiving(c)'
    BY <1>1, <1>3 DEF Receiving
  <2> QED
    BY <1>3, <2>1, ReceivedBegins
<1>6. f \notin Received(p)
  BY <1>4 DEF Received
<1>7. /\ Few(Received(p)) /\ Few(Ids(records[p])) /\ reserved[p] = Bytes(Received(p))
      /\ kept[p] \in Nat /\ reserved[p] \in Nat /\ Size[f] \in Nat
  BY <1>1, Reserves, SizesAreNaturals
<1>8. Few(Received(p) \cup {f}) /\ Bytes(Received(p) \cup {f}) = reserved[p] + Size[f]
  <2>1. Few(Received(p) \cup {f}) /\ Bytes(Received(p) \cup {f}) = Bytes(Received(p)) + Size[f]
    BY <1>6, <1>7, BytesWithOneMore
  <2> QED
    BY <1>7, <2>1
<1>9. /\ reserved' \in [Procs -> Nat] /\ reserved'[p] = reserved[p] + Size[f]
      /\ \A q \in Procs : q # p => reserved'[q] = reserved[q]
  BY <1>1, <1>7 DEF Accounts
<1>10. Held' = Held \cup {f} /\ f \notin Held
  BY <1>1, <1>4 DEF Held
<1>11. Few(Held') /\ Few(Held) /\ Bytes(Held') = Bytes(Held) + Size[f]
  <2>1. Few(Held) /\ Few(Held \cup {f}) /\ Bytes(Held \cup {f}) = Bytes(Held) + Size[f]
    BY <1>10, BytesWithOneMore DEF Accounts, FewFiles
  <2> QED
    BY <1>10, <2>1
<1>12. \A q \in Procs : Ids(records[q])' = Ids(records[q])
  BY <1>1 DEF Ids
<1>13. FewFiles'
  <2>1. \A q \in Procs : Few(Received(q)')
    BY <1>5, <1>8 DEF Accounts, FewFiles
  <2> QED
    BY <1>11, <1>12, <2>1 DEF FewFiles, Few, Accounts
<1>14. AccountingAgrees'
  <2>1. ASSUME NEW q \in Procs PROVE reserved'[q] = Bytes(Received(q)')
    <3>1. CASE q = p
      <4>1. Received(q)' = Received(p) \cup {f}
        BY <1>5, <3>1
      <4> QED
        BY <1>8, <1>9, <3>1, <4>1
    <3>2. CASE q # p
      <4>1. Received(q)' = Received(q) /\ reserved[q] = Bytes(Received(q))
        BY <1>5, <3>2, Reserves
      <4> QED
        BY <1>9, <3>2, <4>1
    <3> QED
      BY <3>1, <3>2
  <2>2. \A q \in Procs : kept'[q] = Bytes(Ids(records[q])')
    BY <1>1, <1>12, Reserves
  <2> QED
    BY <2>1, <2>2 DEF AccountingAgrees, Received, Bytes, Units
<1>15. ASSUME faults' = 0 PROVE WithinTotal'
  <2>1. /\ Held \subseteq Ids(records[p]) \cup Received(p) /\ kept[p] + reserved[p] <= Total
        /\ \A q \in Procs : proc[q] = "open" => q = p
    BY <1>1, <1>15 DEF Accounts, WithinTotal, Inv, OneOpen
  <2>2. Held' \subseteq Ids(records[p]) \cup (Received(p) \cup {f})
    BY <1>10, <2>1
  <2>3. kept[p] + reserved'[p] <= Total
    BY <1>1, <1>7, <1>9, ShareBoundsAreNaturals
  <2>4. PICK all : all = Ids(records[p]) \cup Received(p)
    OBVIOUS
  <2>5. Few(all) /\ Bytes(all) <= Bytes(Ids(records[p])) + Bytes(Received(p)) /\ kept[p] = Bytes(Ids(records[p]))
    BY <1>1, <1>7, <2>4, BytesTogether, Reserves
  <2>6. Bytes(Held) <= Bytes(all) /\ Bytes(Held) \in Nat /\ Bytes(all) \in Nat
    <3>1. Held \in SUBSET all
      BY <2>1, <2>4
    <3> QED
      BY <2>5, <3>1, BytesOfSome
  <2>7. Bytes(Held) <= kept[p] + reserved[p]
    BY <1>7, <2>5, <2>6
  <2>8. Bytes(Held') <= Total
    BY <1>1, <1>7, <1>11, <2>6, <2>7, ShareBoundsAreNaturals
  <2>9. /\ Bytes(Held)' <= Total
        /\ \A q \in Procs : proc'[q] = "open" => Held' \subseteq Ids(records[q])' \cup Received(q)' /\ kept'[q] + reserved'[q] <= Total
    <3>1. Bytes(Held)' <= Total
      BY <2>8 DEF Bytes, Units
    <3>2. Received(p)' = Received(p) \cup {f}
      BY <1>1, <1>5
    <3> QED
      BY <1>1, <1>12, <2>1, <2>2, <2>3, <3>1, <3>2
  <2> QED
    BY <2>9 DEF WithinTotal
<1>16. Accounts'
  <2>1. WithinTotal'
    BY <1>15 DEF WithinTotal
  <2> QED
    BY <1>1, <1>9, <1>13, <1>14, <2>1 DEF Accounts
<1>17. CopiedOnce'
  <2>1. Ids(index)' = Ids(index)
    BY <1>1 DEF Ids
  <2> QED
    BY <1>1, <1>3, <1>4, <1>12, <2>1 DEF CopiedOnce
<1> QED
  BY <1>16, <1>17

LEMMA ListedIds ==
    ASSUME Inv, NEW c \in Conns, NEW p, NEW f, Listing(c, p, f)
    PROVE  /\ Ids(records[p] \cup {NewRecord(c)}) = Ids(records[p]) \cup {f}
           /\ f \notin Listed /\ Ids(records[p]) \subseteq Listed
<1>1. NewRecord(c).id = f /\ f \notin Listed
  BY TheNewRecord
<1>2. \A recs, r : Ids(recs \cup {r}) = Ids(recs) \cup {r.id}
  BY DEF Ids
<1>3. Ids(records[p] \cup {NewRecord(c)}) = Ids(records[p]) \cup {f}
  BY <1>1, <1>2
<1> QED
  BY <1>1, <1>3 DEF Listing, Listed

\* A share that is listed: its room is now what the file takes (store.go:541-608).
LEMMA CompletedIsCounted ==
    ASSUME Inv, Accounts, CopiedOnce, NEW c \in Conns, NEW p, NEW f, Listing(c, p, f), Completed(c, p, f),
           kept' = [kept EXCEPT ![p] = @ + Size[f]], reserved' = [reserved EXCEPT ![p] = @ - Size[f]],
           faults' = faults, incoming' = incoming, proc' = proc
    PROVE  Accounts' /\ CopiedOnce'
<1> PICK list : list = records[p] \cup {NewRecord(c)}
  OBVIOUS
<1>1. /\ p \in Procs /\ f \in Files /\ p = conn[c].proc /\ f = conn[c].file /\ conn[c].at = "listing"
      /\ Receiving(c) /\ proc[p] = "open"
  BY DEF Listing, Completed, Receiving
<1>2. Ids(list) = Ids(records[p]) \cup {f} /\ f \notin Listed
  BY ListedIds
<1>3. /\ records' = [records EXCEPT ![p] = list] /\ index' = list /\ folders' = folders
      /\ \A q \in Procs : Ids(records[q])' = IF q = p THEN Ids(records[p]) \cup {f} ELSE Ids(records[q])
  <2>1. records' = [records EXCEPT ![p] = list] /\ records \in [Procs -> SUBSET Rec]
    BY DEF Completed, Inv, Types
  <2>2. \A q \in Procs : records'[q] = IF q = p THEN list ELSE records[q]
    BY <1>1, <2>1
  <2>3. \A q \in Procs : Ids(records'[q]) = IF q = p THEN Ids(records[p]) \cup {f} ELSE Ids(records[q])
    BY <1>2, <2>2
  <2> QED
    BY <2>1, <2>3 DEF Ids, Completed
<1>4. /\ \A d \in Conns : d # c => conn'[d] = conn[d]
      /\ conn'[c].at = "header" /\ conn'[c].file = None /\ ~Receiving(c)'
  <2>1. conn \in [Conns -> ConnType]
    BY DEF Inv, Types
  <2>2. conn'[c].at = "header" /\ conn'[c].file = None /\ \A d \in Conns : d # c => conn'[d] = conn[d]
    BY <2>1 DEF Completed, ConnType
  <2> QED
    BY <2>2 DEF Receiving
<1>5. /\ f \in Received(p)
      /\ \A q \in Procs : Received(q)' = IF q = p THEN Received(q) \ {f} ELSE Received(q)
  BY <1>1, <1>4, ReceivedLeaves DEF Inv
<1>6. /\ Few(Received(p)) /\ Few(Ids(records[p])) /\ reserved[p] = Bytes(Received(p)) /\ kept[p] = Bytes(Ids(records[p]))
      /\ kept[p] \in Nat /\ reserved[p] \in Nat /\ Size[f] \in Nat
  BY <1>1, Reserves, SizesAreNaturals
<1>7. Few(Ids(records[p]) \cup {f}) /\ Bytes(Ids(records[p]) \cup {f}) = kept[p] + Size[f]
  <2>1. f \notin Ids(records[p])
    BY <1>1, <1>2 DEF Listed
  <2>2. /\ Few(Ids(records[p]) \cup {f}) /\ Bytes(Ids(records[p]) \cup {f}) = Bytes(Ids(records[p])) + Size[f]
    BY <1>1, <1>6, <2>1, BytesWithOneMore
  <2> QED
    BY <1>6, <2>2
<1>8. /\ Few(Received(p) \ {f}) /\ Bytes(Received(p) \ {f}) = reserved[p] - Size[f]
      /\ reserved[p] - Size[f] \in Nat
  <2>1. {f} \in SUBSET Received(p) /\ Bytes({f}) = Size[f]
    BY <1>1, <1>5, BytesOne
  <2>2. /\ Few(Received(p) \ {f}) /\ Bytes(Received(p) \ {f}) = Bytes(Received(p)) - Bytes({f})
    BY <1>6, <2>1, BytesWithout
  <2>3. Received(p) \ {f} \in SUBSET Received(p)
    OBVIOUS
  <2>4. Bytes(Received(p) \ {f}) \in Nat
    BY <1>6, <2>3, BytesOfSome
  <2>5. Bytes(Received(p) \ {f}) = reserved[p] - Size[f]
    BY <1>6, <2>1, <2>2
  <2> QED
    BY <2>2, <2>4, <2>5
<1>9. /\ kept' \in [Procs -> Nat] /\ reserved' \in [Procs -> Nat]
      /\ kept'[p] = kept[p] + Size[f] /\ reserved'[p] = reserved[p] - Size[f]
      /\ \A q \in Procs : q # p => kept'[q] = kept[q] /\ reserved'[q] = reserved[q]
  BY <1>1, <1>6, <1>8 DEF Accounts
<1>10. Held' = Held
  BY <1>3 DEF Held
<1>11. FewFiles'
  <2>1. \A q \in Procs : Few(Received(q)') /\ Few(Ids(records[q])')
    BY <1>3, <1>5, <1>7, <1>8 DEF Accounts, FewFiles
  <2>2. Few(Held')
    BY <1>10 DEF Accounts, FewFiles
  <2> QED
    BY <2>1, <2>2 DEF FewFiles, Few
<1>12. AccountingAgrees'
  <2>1. ASSUME NEW q \in Procs PROVE reserved'[q] = Bytes(Received(q)') /\ kept'[q] = Bytes(Ids(records[q])')
    <3>1. CASE q = p
      <4>1. Received(q)' = Received(p) \ {f} /\ Ids(records[q])' = Ids(records[p]) \cup {f}
        BY <1>3, <1>5, <3>1
      <4> QED
        BY <1>7, <1>8, <1>9, <3>1, <4>1
    <3>2. CASE q # p
      <4>1. /\ Received(q)' = Received(q) /\ reserved[q] = Bytes(Received(q))
            /\ Ids(records[q])' = Ids(records[q]) /\ kept[q] = Bytes(Ids(records[q]))
        BY <1>3, <1>5, <3>2, Reserves
      <4> QED
        BY <1>9, <3>2, <4>1
    <3> QED
      BY <3>1, <3>2
  <2> QED
    BY <2>1 DEF AccountingAgrees, Received, Bytes, Units
<1>13. ASSUME faults' = 0
       PROVE  /\ Bytes(Held)' <= Total
              /\ \A q \in Procs : proc'[q] = "open" => Held' \subseteq Ids(records[q])' \cup Received(q)' /\ kept'[q] + reserved'[q] <= Total
  <2>1. /\ Held \subseteq Ids(records[p]) \cup Received(p) /\ kept[p] + reserved[p] <= Total
        /\ \A q \in Procs : proc[q] = "open" => q = p
        /\ Bytes(Held) <= Total
    BY <1>1, <1>13 DEF Accounts, WithinTotal, Inv, OneOpen
  <2>2. Bytes(Held)' <= Total
    BY <1>10, <2>1 DEF Bytes, Units
  <2>3. Held' \subseteq Ids(records[p])' \cup Received(p)'
    BY <1>1, <1>3, <1>5, <1>10, <2>1
  <2>4. kept'[p] + reserved'[p] <= Total
    BY <1>6, <1>9, <2>1, ShareBoundsAreNaturals
  <2> QED
    BY <2>1, <2>2, <2>3, <2>4
<1>14. Accounts'
  <2>1. WithinTotal'
    BY <1>13 DEF WithinTotal
  <2>2. faults' \in Nat
    BY DEF Accounts
  <2> QED
    BY <1>9, <1>11, <1>12, <2>1, <2>2 DEF Accounts
<1>15. CopiedOnce'
  <2> PICK S : S = {f}
    OBVIOUS
  <2>1. \A g \in S : g \notin incoming'
    BY <1>1 DEF CopiedOnce
  <2>2. Ids(records[p]) \subseteq Listed
    BY <1>1 DEF Listed
  <2>3. Ids(index') \subseteq Listed \cup S
    BY <1>2, <1>3, <2>2
  <2>4. \A q \in Procs : Ids(records'[q]) \subseteq Listed \cup S
    <3>1. \A q \in Procs : Ids(records'[q]) = Ids(records[q])'
      BY DEF Ids
    <3>2. \A q \in Procs : Ids(records[q]) \subseteq Listed
      BY DEF Listed
    <3>3. ASSUME NEW q \in Procs PROVE Ids(records[q])' \subseteq Listed \cup {f}
      <4>1. CASE q = p
        BY <1>1, <1>3, <2>2, <4>1
      <4>2. CASE q # p
        <5>1. Ids(records[q])' = Ids(records[q])
          BY <1>3, <4>2
        <5> QED
          BY <3>2, <5>1
      <4> QED
        BY <4>1, <4>2
    <3> QED
      BY <3>1, <3>3
  <2>5. /\ incoming' \subseteq incoming
        /\ \A d \in Conns : conn'[d].at \in {"listing", "copying"} =>
               conn'[d].at = conn[d].at /\ conn'[d].file = conn[d].file
        /\ \A d \in Conns : conn[d].at = "copying" /\ conn'[d].at = "copying" =>
               (folders'[conn[d].file] = "file" => folders[conn[d].file] = "file")
    BY <1>3, <1>4
  <2> QED
    BY <2>1, <2>3, <2>4, <2>5, StaysCopiedOnce
<1> QED
  BY <1>14, <1>15

LEMMA CommitListIsCounted ==
    ASSUME Inv, Accounts, CopiedOnce, NEW c \in Conns, CommitList(c)
    PROVE  Accounts' /\ CopiedOnce'
<1> PICK p, f : p = conn[c].proc /\ f = conn[c].file
  OBVIOUS
<1>1. conn[c].at = "listing" /\ proc[p] # "off" /\ Receiving(c) /\ UNCHANGED <<incoming, proc>>
  BY DEF CommitList, At, Receiving
<1>2. p \in Procs /\ f \in Files
  BY <1>1, ReceivesFrom
<1>3. PICK outcome \in Writes(p) :
         /\ writeIndex(p, records[p] \cup {NewRecord(c)}, outcome)
         /\ Count(p, outcome # "done")
         /\ \/ /\ outcome = "done"
               /\ records' = [records EXCEPT ![p] = records[p] \cup {NewRecord(c)}]
               /\ kept' = [kept EXCEPT ![p] = @ + Size[f]]
               /\ home' = Notified(p)
               /\ reported' = reported \cup {f}
               /\ conn' = [conn EXCEPT ![c].at = "header", ![c].file = None, ![c].stored = @ \cup {f}]
               /\ UNCHANGED <<folders>>
            \/ /\ outcome # "done"
               /\ \E left \in RemoveAll(p, f) : folders' = [folders EXCEPT ![f] = left]
               /\ Leave(c)
               /\ UNCHANGED <<records, kept, home, reported>>
  BY DEF CommitList
<1>4. /\ reserved' = [reserved EXCEPT ![p] = @ - Size[f]]
      /\ faults \in Nat /\ proc[p] \in {"open", "closed"} /\ folders \in [Files -> {"none", "empty", "file"}]
  BY <1>1, <1>2 DEF CommitList, release, Accounts, Inv, Types
<1>5. Listing(c, p, f)
  BY <1>1, <1>2 DEF Listing
<1>6. CASE outcome = "done"
  <2>1. proc[p] = "open"
    BY <1>3, <1>4, <1>6 DEF Writes
  <2>2. index' = records[p] \cup {NewRecord(c)} /\ faults' = faults
    BY <1>3, <1>6 DEF writeIndex, Count
  <2>3. conn' = [conn EXCEPT ![c] = [conn[c] EXCEPT !.at = "header", !.file = None, !.stored = @ \cup {f}]]
    BY <1>3, <1>6
  <2>4. Completed(c, p, f)
    BY <1>3, <1>6, <2>1, <2>2, <2>3 DEF Completed
  <2>5. kept' = [kept EXCEPT ![p] = @ + Size[f]]
    BY <1>3, <1>6
  <2> QED
    BY <1>1, <1>4, <1>5, <2>2, <2>4, <2>5, CompletedIsCounted
<1>7. CASE outcome # "done"
  <2>1. faults' \in {faults, faults + 1} /\ ~(proc[p] = "open" /\ faults' = faults)
    BY <1>3, <1>4, <1>7 DEF Count
  <2>2. \A g \in Files : folders'[g] = "file" => folders[g] = "file"
    BY <1>3, <1>4, <1>7 DEF RemoveAll
  <2>3. index' = index \/ Ids(index') \subseteq Listed \cup {f}
    <3>1. Ids(records[p] \cup {NewRecord(c)}) \subseteq Listed \cup {f}
      BY <1>5, ListedIds
    <3>2. index' = index \/ index' = records[p] \cup {NewRecord(c)}
      BY <1>3 DEF writeIndex
    <3> QED
      BY <3>1, <3>2
  <2>4. conn' = [conn EXCEPT ![c] = Idle] /\ records' = records /\ kept' = kept
    BY <1>3, <1>7 DEF Leave
  <2>5. Aborts(c, p, f)
    BY <1>1, <1>4, <2>1, <2>2, <2>3, <2>4 DEF Aborts
  <2> QED
    BY <2>5, AbortsAreCounted
<1> QED
  BY <1>6, <1>7

\* Every other step of a connection, of Home and of the terminal moves no file,
\* keeps the files that are listed and leaves shares in progress alone.
LEMMA NothingMoves ==
    ASSUME Inv, Accounts, CopiedOnce,
           kept' = kept, reserved' = reserved, incoming' = incoming, folders' = folders,
           \A q \in Procs : Ids(records'[q]) = Ids(records[q]), Ids(index') \subseteq Listed,
           faults' \in {faults, faults + 1},
           \A q \in Procs : proc'[q] = "open" => proc[q] = "open",
           \A d \in Conns : conn'[d] = conn[d] \/ (~Receiving(d) /\ ~Receiving(d)')
    PROVE  Accounts' /\ CopiedOnce'
<1>1. \A q \in Procs : Received(q)' = Received(q)
  <2>1. \A d \in Conns : Receiving(d)' <=> Receiving(d)
    BY DEF Receiving
  <2>2. \A d \in Conns : Receiving(d) => conn'[d].proc = conn[d].proc /\ conn'[d].file = conn[d].file
    OBVIOUS
  <2> QED
    BY <2>1, <2>2, ReceivedStays
<1>2. Held' = Held /\ Few(Held') /\ HoldsNoMore
  BY DEF Held, HoldsNoMore, Accounts, FewFiles
<1>3. faults' \in Nat /\ (faults' = 0 => faults = 0) /\ OneOpen
  BY DEF Accounts, Inv
<1>4. Accounts'
  BY <1>1, <1>2, <1>3, SameFilesAreCounted
<1>5. CopiedOnce'
  <2> PICK S : S = {}
    OBVIOUS
  <2>1. /\ \A g \in S : g \notin incoming'
        /\ incoming' \subseteq incoming /\ Ids(index') \subseteq Listed \cup S
        /\ \A q \in Procs : Ids(records'[q]) \subseteq Listed \cup S
    BY DEF Listed
  <2>2. /\ \A d \in Conns : conn'[d].at \in {"listing", "copying"} =>
               conn'[d].at = conn[d].at /\ conn'[d].file = conn[d].file
        /\ \A d \in Conns : conn[d].at = "copying" /\ conn'[d].at = "copying" =>
               (folders'[conn[d].file] = "file" => folders[conn[d].file] = "file")
    BY DEF Receiving
  <2> QED
    BY <2>1, <2>2, StaysCopiedOnce
<1> QED
  BY <1>4, <1>5

LEMMA ConnStepsAreCounted ==
    ASSUME Inv, Accounts, CopiedOnce, NEW c \in Conns,
           (\E p \in Procs : Accept(c, p)) \/ Attribute(c) \/ Hangup(c)
    PROVE  Accounts' /\ CopiedOnce'
<1>1. UNCHANGED <<index, folders, incoming, records, kept, reserved, proc, faults>>
  BY DEF Accept, Attribute, Hangup, disk, store, bounds
<1>2. conn \in [Conns -> ConnType]
  BY DEF Inv, Types
<1>3. \E new : /\ conn' = [conn EXCEPT ![c] = new] /\ new.at \in {"none", "opening", "header"}
               /\ conn[c].at \in {"none", "opening", "header"}
  <2>1. ASSUME NEW p \in Procs, Accept(c, p)
        PROVE  conn' = [conn EXCEPT ![c] = [Idle EXCEPT !.at = "opening", !.proc = p]] /\ conn[c].at = "none"
    BY <2>1 DEF Accept
  <2>2. \A p : [Idle EXCEPT !.at = "opening", !.proc = p].at = "opening"
    BY DEF Idle
  <2>3. ASSUME NEW s, conn' = [conn EXCEPT ![c].at = "header", ![c].src = s]
        PROVE  /\ conn' = [conn EXCEPT ![c] = [conn[c] EXCEPT !.at = "header", !.src = s]]
               /\ [conn[c] EXCEPT !.at = "header", !.src = s].at = "header"
    BY <1>2, <2>3 DEF ConnType
  <2>4. Hangup(c) => conn' = [conn EXCEPT ![c] = Idle] /\ Idle.at = "none" /\ conn[c].at \in {"opening", "header"}
    BY DEF Hangup, Leave, At, Idle
  <2>5. ASSUME Attribute(c) PROVE (\E s : conn' = [conn EXCEPT ![c].at = "header", ![c].src = s]) /\ conn[c].at = "opening"
    BY <2>5 DEF Attribute, At
  <2> QED
    BY <2>1, <2>2, <2>3, <2>4, <2>5
<1>4. \A d \in Conns : conn'[d] = conn[d] \/ (~Receiving(d) /\ ~Receiving(d)')
  BY <1>2, <1>3 DEF Receiving
<1>5. /\ \A q \in Procs : Ids(records'[q]) = Ids(records[q])
      /\ \A q \in Procs : proc'[q] = "open" => proc[q] = "open"
      /\ Ids(index') \subseteq Listed /\ faults' \in {faults, faults + 1}
      /\ kept' = kept /\ reserved' = reserved /\ incoming' = incoming /\ folders' = folders
  BY <1>1 DEF Listed
<1> QED
  BY <1>4, <1>5, NothingMoves

LEMMA HomeStepsAreCounted ==
    ASSUME Inv, Accounts, CopiedOnce,
           \/ \E h \in Homes, p \in Procs : HomeOpen(h, p)
           \/ \E h \in Homes : HomeSignal(h) \/ HomeList(h) \/ HomeClose(h)
           \/ \E p \in Procs : Close(p)
           \/ Replace \/ Follow \/ UNCHANGED vars
    PROVE  Accounts' /\ CopiedOnce'
<1>1. /\ UNCHANGED <<index, folders, incoming, records, kept, reserved, conn, faults>>
      /\ proc' = proc \/ \E p \in Procs : proc' = [proc EXCEPT ![p] = "closed"]
  BY DEF HomeOpen, HomeSignal, HomeList, HomeClose, Close, Replace, Follow, vars, disk, store, bounds
<1>2. \A q \in Procs : proc'[q] = "open" => proc[q] = "open"
  BY <1>1 DEF Inv, Types
<1>3. /\ \A q \in Procs : Ids(records'[q]) = Ids(records[q])
      /\ Ids(index') \subseteq Listed /\ faults' \in {faults, faults + 1}
      /\ kept' = kept /\ reserved' = reserved /\ incoming' = incoming /\ folders' = folders
      /\ \A d \in Conns : conn'[d] = conn[d] \/ (~Receiving(d) /\ ~Receiving(d)')
  BY <1>1 DEF Listed
<1> QED
  BY <1>2, <1>3, NothingMoves

LEMMA SetViewIsCounted ==
    ASSUME Inv, Accounts, CopiedOnce, NEW h \in Homes, NEW v, SetView(h, v)
    PROVE  Accounts' /\ CopiedOnce'
<1> PICK p \in Procs : Views(h, v, p)
  BY SetViewDoes DEF Inv
<1>1. Ids(Updated(p, v)) = Ids(records[p]) /\ records \in [Procs -> SUBSET Rec] /\ Ids(records[p]) \subseteq Listed
      /\ Ids(index) \subseteq Listed
  BY UpdatedLists DEF Inv, Types, Listed
<1>2. \A q \in Procs : Ids(records'[q]) = Ids(records[q])
  <2>1. records' = records \/ records' = [records EXCEPT ![p] = Updated(p, v)]
    BY DEF Views
  <2> QED
    BY <1>1, <2>1
<1>3. Ids(index') \subseteq Listed
  <2>1. index' = index \/ index' = Updated(p, v)
    BY DEF Views
  <2> QED
    BY <1>1, <2>1
<1>4. faults' \in {faults, faults + 1}
  BY DEF SetView, Count
<1>5. kept' = kept /\ reserved' = reserved
  BY DEF SetView
<1>6. /\ incoming' = incoming /\ folders' = folders
      /\ \A q \in Procs : proc'[q] = "open" => proc[q] = "open"
      /\ \A d \in Conns : conn'[d] = conn[d] \/ (~Receiving(d) /\ ~Receiving(d)')
  BY DEF Views
<1> QED
  BY <1>2, <1>3, <1>4, <1>5, <1>6, NothingMoves

\* Deleting files takes their bytes from the count and from the disk
\* (store.go:420-462).
LEMMA DeleteIsCounted ==
    ASSUME Inv, Accounts, CopiedOnce, NEW p \in Procs, NEW ids, Delete(p, ids)
    PROVE  Accounts' /\ CopiedOnce'
<1>1. PICK deleted : Deletes(p, ids, deleted)
  BY DeleteDoes DEF Inv
<1>2. /\ deleted \in SUBSET records[p] /\ records \in [Procs -> SUBSET Rec] /\ Unique(records[p])
      /\ proc[p] = "open" /\ UNCHANGED <<incoming, proc, conn>>
      /\ kept' = [kept EXCEPT ![p] = @ - Bytes(Ids(deleted))] /\ reserved' = reserved
      /\ records' = [records EXCEPT ![p] = @ \ deleted] /\ index' \in {index, records[p] \ deleted}
      /\ faults' \in {faults, faults + 1}
  BY <1>1 DEF Deletes, Inv, Types, IDsAreUnique
<1> PICK mine, dead : mine = Ids(records[p]) /\ dead = Ids(deleted)
  OBVIOUS
<1>3. /\ dead \in SUBSET mine /\ Ids(records[p] \ deleted) = mine \ dead
      /\ mine \subseteq Files
  <2>1. dead \in SUBSET mine /\ mine \subseteq Files
    BY <1>2 DEF Ids, Rec
  <2>2. \A r \in records[p], s \in deleted : r.id = s.id => r = s
    BY <1>2 DEF Unique
  <2>3. Ids(records[p] \ deleted) = mine \ dead
    BY <1>2, <2>2 DEF Ids
  <2> QED
    BY <2>1, <2>3
<1>4. \A q \in Procs : Ids(records[q])' = IF q = p THEN mine \ dead ELSE Ids(records[q])
  <2>1. \A q \in Procs : records'[q] = IF q = p THEN records[p] \ deleted ELSE records[q]
    BY <1>2
  <2>2. \A q \in Procs : Ids(records'[q]) = IF q = p THEN mine \ dead ELSE Ids(records[q])
    BY <1>3, <2>1
  <2> QED
    BY <2>2 DEF Ids
<1>5. \A q \in Procs : Received(q)' = Received(q)
  <2>1. /\ \A d \in Conns : Receiving(d)' <=> Receiving(d)
        /\ \A d \in Conns : Receiving(d) => conn'[d].proc = conn[d].proc /\ conn'[d].file = conn[d].file
    BY <1>2 DEF Receiving
  <2> QED
    BY <2>1, ReceivedStays
<1>6. kept[p] = Bytes(mine) /\ Few(mine) /\ kept[p] \in Nat /\ reserved[p] \in Nat
  BY Reserves
<1>7. Few(mine \ dead) /\ Bytes(mine \ dead) = kept[p] - Bytes(dead) /\ Bytes(mine \ dead) \in Nat /\ Bytes(dead) \in Nat
  <2>1. Few(mine \ dead) /\ Bytes(mine \ dead) = Bytes(mine) - Bytes(dead)
    BY <1>3, <1>6, BytesWithout
  <2>2. Few(dead) /\ Bytes(dead) \in Nat
    BY <1>3, <1>6, BytesOfSome
  <2>3. mine \ dead \in SUBSET mine
    OBVIOUS
  <2>4. Bytes(mine \ dead) \in Nat
    BY <1>6, <2>3, BytesOfSome
  <2>5. Bytes(mine \ dead) = kept[p] - Bytes(dead)
    BY <1>6, <2>1
  <2> QED
    BY <2>1, <2>2, <2>4, <2>5
<1>8. kept' \in [Procs -> Nat] /\ kept'[p] = Bytes(mine \ dead) /\ kept'[p] <= kept[p] /\ \A q \in Procs : q # p => kept'[q] = kept[q]
  <2>1. kept \in [Procs -> Nat] /\ kept' = [kept EXCEPT ![p] = kept[p] - Bytes(dead)]
    BY <1>2 DEF Accounts
  <2>2. kept[p] - Bytes(dead) \in Nat /\ kept[p] - Bytes(dead) <= kept[p] /\ kept[p] - Bytes(dead) = Bytes(mine \ dead)
    BY <1>6, <1>7
  <2> QED
    BY <2>1, <2>2
<1>9. Held' \subseteq Held /\ \A f \in dead : f \notin Held'
  <2>1. \A f \in Files : f \in dead => folders'[f] = "none"
    BY <1>1 DEF Deletes
  <2>2. \A f \in Files : folders'[f] = "file" => folders[f] = "file"
    BY <1>1 DEF Deletes
  <2>3. \A f \in dead : f \notin incoming'
    BY <1>2, <1>3 DEF CopiedOnce
  <2> QED
    BY <1>2, <2>1, <2>2, <2>3 DEF Held
<1>10. Few(Held) /\ Few(Held') /\ Bytes(Held') <= Bytes(Held) /\ Bytes(Held) \in Nat /\ Bytes(Held') \in Nat
  <2>1. Few(Held) /\ Held' \in SUBSET Held
    BY <1>9 DEF Accounts, FewFiles
  <2> QED
    BY <2>1, BytesOfSome
<1>11. FewFiles'
  <2>1. \A q \in Procs : Few(Received(q)') /\ Few(Ids(records[q])')
    BY <1>4, <1>5, <1>7 DEF Accounts, FewFiles
  <2> QED
    BY <1>10, <2>1 DEF FewFiles, Few
<1>12. AccountingAgrees'
  <2>1. ASSUME NEW q \in Procs PROVE reserved'[q] = Bytes(Received(q)') /\ kept'[q] = Bytes(Ids(records[q])')
    <3>1. reserved'[q] = Bytes(Received(q)')
      BY <1>2, <1>5, Reserves
    <3>2. CASE q = p
      BY <1>4, <1>8, <3>1, <3>2
    <3>3. CASE q # p
      <4>1. Ids(records[q])' = Ids(records[q]) /\ kept[q] = Bytes(Ids(records[q]))
        BY <1>4, <3>3, Reserves
      <4> QED
        BY <1>8, <3>1, <3>3, <4>1
    <3> QED
      BY <3>2, <3>3
  <2> QED
    BY <2>1 DEF AccountingAgrees, Received, Bytes, Units
<1>13. faults' \in Nat /\ (faults' = 0 => faults = 0)
  BY <1>2 DEF Accounts
<1>14. ASSUME faults' = 0
       PROVE  /\ Bytes(Held)' <= Total
              /\ \A q \in Procs : proc'[q] = "open" => Held' \subseteq Ids(records[q])' \cup Received(q)' /\ kept'[q] + reserved'[q] <= Total
  <2>1. /\ Held \subseteq mine \cup Received(p) /\ kept[p] + reserved[p] <= Total
        /\ \A q \in Procs : proc'[q] = "open" => q = p
        /\ Bytes(Held) <= Total
    BY <1>2, <1>13, <1>14 DEF Accounts, WithinTotal, Inv, OneOpen
  <2>2. Bytes(Held') <= Total
    BY <1>10, <2>1, ShareBoundsAreNaturals
  <2>3. Bytes(Held)' <= Total
    BY <2>2 DEF Bytes, Units
  <2>4. Held' \subseteq (mine \ dead) \cup Received(p)
    BY <1>9, <2>1
  <2>5. Ids(records[p])' = mine \ dead /\ Received(p)' = Received(p)
    BY <1>4, <1>5
  <2>6. kept'[p] \in Nat
    BY <1>8
  <2>7. kept'[p] + reserved'[p] <= Total
    BY <1>2, <1>6, <1>8, <2>1, <2>6, ShareBoundsAreNaturals
  <2> QED
    BY <2>1, <2>3, <2>4, <2>5, <2>7
<1>15. Accounts'
  <2>1. WithinTotal'
    BY <1>14 DEF WithinTotal
  <2> QED
    BY <1>2, <1>8, <1>11, <1>12, <1>13, <2>1 DEF Accounts
<1>16. CopiedOnce'
  <2> PICK S : S = {}
    OBVIOUS
  <2>1. mine \subseteq Listed /\ Ids(index) \subseteq Listed
    BY DEF Listed
  <2>2. Ids(index') \subseteq Listed \cup S
    BY <1>2, <1>3, <2>1
  <2>3. \A q \in Procs : Ids(records'[q]) \subseteq Listed \cup S
    <3>1. \A q \in Procs : Ids(records'[q]) = Ids(records[q])' /\ Ids(records[q]) \subseteq Listed
      BY DEF Ids, Listed
    <3>2. ASSUME NEW q \in Procs PROVE Ids(records'[q]) \subseteq Listed
      <4>1. CASE q = p
        BY <1>4, <2>1, <3>1, <4>1
      <4>2. CASE q # p
        <5>1. Ids(records'[q]) = Ids(records[q])
          BY <1>4, <3>1, <4>2
        <5> QED
          BY <3>1, <5>1
      <4> QED
        BY <4>1, <4>2
    <3> QED
      BY <3>2
  <2>4. /\ \A g \in S : g \notin incoming'
        /\ incoming' \subseteq incoming
        /\ \A d \in Conns : conn'[d].at \in {"listing", "copying"} =>
               conn'[d].at = conn[d].at /\ conn'[d].file = conn[d].file
    BY <1>2
  <2>5. \A d \in Conns : conn[d].at = "copying" /\ conn'[d].at = "copying" =>
               (folders'[conn[d].file] = "file" => folders[conn[d].file] = "file")
    <3>1. \A d \in Conns : conn[d].at = "copying" => conn[d].file \in Files
      BY ReceivesFrom DEF Receiving
    <3> QED
      BY <1>1, <3>1 DEF Deletes
  <2> QED
    BY <2>2, <2>3, <2>4, <2>5, StaysCopiedOnce
<1> QED
  BY <1>15, <1>16

\* The folder is opened with the files it lists, and nothing else on disk
\* (store.go:187-241).
LEMMA OpenIsCounted ==
    ASSUME Inv, Accounts, CopiedOnce, NEW p \in Procs, Open(p)
    PROVE  Accounts' /\ CopiedOnce'
<1>1. PICK found : Opens(p, found)
  BY OpenDoes DEF Inv
<1> PICK ids : ids = Ids(found)
  OBVIOUS
<1>2. /\ proc[p] = "off" /\ (\A q \in Procs : proc[q] # "open") /\ found \subseteq index
      /\ (\A f \in ids : folders[f] = "file") /\ index' = found /\ records' = [records EXCEPT ![p] = found]
      /\ incoming' = {} /\ folders' = [f \in Files |-> IF f \in ids THEN folders[f] ELSE "none"]
      /\ proc' = [proc EXCEPT ![p] = "open"] /\ kept' = [kept EXCEPT ![p] = Bytes(ids)]
      /\ conn' = conn /\ reserved' = reserved /\ faults' = faults
  BY <1>1 DEF Opens
<1>3. records \in [Procs -> SUBSET Rec] /\ index \in SUBSET Rec /\ proc \in [Procs -> {"off", "open", "closed"}]
      /\ ids \subseteq Ids(index) /\ ids \subseteq Files
  BY <1>2 DEF Inv, Types, Ids, Rec
<1>4. \A q \in Procs : Ids(records[q])' = IF q = p THEN ids ELSE Ids(records[q])
  <2>1. \A q \in Procs : records'[q] = IF q = p THEN found ELSE records[q]
    BY <1>2, <1>3
  <2>2. \A q \in Procs : Ids(records'[q]) = IF q = p THEN ids ELSE Ids(records[q])
    BY <2>1
  <2> QED
    BY <2>2 DEF Ids
<1>5. /\ \A q \in Procs : Received(q)' = Received(q)
      /\ Received(p) = {} /\ reserved[p] = 0
  <2>1. \A q \in Procs : Received(q)' = Received(q)
    BY <1>2 DEF Received, Receiving
  <2>2. Received(p) = {}
    BY <1>2 DEF Inv, OffIsEmpty, Received
  <2>3. reserved[p] = Bytes(Received(p))
    BY Reserves
  <2> QED
    BY <2>1, <2>2, <2>3, BytesNone
<1>6. ids \in SUBSET Held /\ Held' = ids
  BY <1>2, <1>3 DEF Held
<1>7. Few(ids) /\ Bytes(ids) \in Nat /\ Bytes(Held) \in Nat /\ Bytes(ids) <= Bytes(Held)
  BY <1>6, BytesOfSome DEF Accounts, FewFiles
<1>8. kept' \in [Procs -> Nat] /\ kept'[p] = Bytes(ids) /\ \A q \in Procs : q # p => kept'[q] = kept[q]
  BY <1>2, <1>7 DEF Accounts
<1>9. FewFiles'
  <2>1. \A q \in Procs : Few(Received(q)') /\ Few(Ids(records[q])')
    BY <1>4, <1>5, <1>7 DEF Accounts, FewFiles
  <2>2. Few(Held')
    BY <1>6, <1>7
  <2> QED
    BY <2>1, <2>2 DEF FewFiles, Few
<1>10. AccountingAgrees'
  <2>1. ASSUME NEW q \in Procs PROVE reserved'[q] = Bytes(Received(q)') /\ kept'[q] = Bytes(Ids(records[q])')
    <3>1. reserved'[q] = Bytes(Received(q)')
      BY <1>2, <1>5, Reserves
    <3>2. CASE q = p
      BY <1>4, <1>8, <3>1, <3>2
    <3>3. CASE q # p
      <4>1. Ids(records[q])' = Ids(records[q]) /\ kept[q] = Bytes(Ids(records[q]))
        BY <1>4, <3>3, Reserves
      <4> QED
        BY <1>8, <3>1, <3>3, <4>1
    <3> QED
      BY <3>2, <3>3
  <2> QED
    BY <2>1 DEF AccountingAgrees, Received, Bytes, Units
<1>11. ASSUME faults' = 0
       PROVE  /\ Bytes(Held)' <= Total
              /\ \A q \in Procs : proc'[q] = "open" => Held' \subseteq Ids(records[q])' \cup Received(q)' /\ kept'[q] + reserved'[q] <= Total
  <2>1. Bytes(Held) <= Total
    BY <1>2, <1>11 DEF Accounts, WithinTotal
  <2>2. Bytes(ids) <= Total
    BY <1>7, <2>1, ShareBoundsAreNaturals
  <2>3. Bytes(Held') <= Total
    BY <1>6, <2>2
  <2>4. Bytes(Held)' <= Total
    BY <2>3 DEF Bytes, Units
  <2>5. \A q \in Procs : proc'[q] = "open" => q = p
    BY <1>2, <1>3
  <2>6. Held' \subseteq Ids(records[p])' \cup Received(p)'
    BY <1>4, <1>6
  <2>7. kept'[p] + reserved'[p] <= Total
    BY <1>2, <1>5, <1>7, <1>8, <2>2, ShareBoundsAreNaturals
  <2> QED
    BY <2>4, <2>5, <2>6, <2>7
<1>12. Accounts'
  <2>1. WithinTotal'
    BY <1>11 DEF WithinTotal
  <2> QED
    BY <1>2, <1>8, <1>9, <1>10, <2>1 DEF Accounts
<1>13. CopiedOnce'
  <2>1. \A d \in Conns : conn[d].at = "copying" => conn[d].file \in Files
    BY ReceivesFrom DEF Receiving
  <2>2. \A d \in Conns : conn[d].at = "copying" => folders'[conn[d].file] # "file"
    BY <1>2, <2>1 DEF CopiedOnce
  <2> QED
    BY <1>2, <2>2 DEF CopiedOnce
<1> QED
  BY <1>12, <1>13

\* One that fails counts a failed call, and at most drops what is on disk.
LEMMA OpenFailsIsCounted ==
    ASSUME Inv, Accounts, CopiedOnce, NEW p \in Procs, OpenFails(p)
    PROVE  Accounts' /\ CopiedOnce'
<1>1. OpensPartly
  BY OpenFailsDoes DEF Inv
<1>2. Held' \subseteq Held
  BY <1>1 DEF OpensPartly, Held
<1>3. HoldsNoMore /\ Few(Held')
  <2>1. Few(Held) /\ Held' \in SUBSET Held
    BY <1>2 DEF Accounts, FewFiles
  <2>2. Few(Held')
    BY <2>1, BytesOfSome
  <2> QED
    BY <1>2, <2>2 DEF HoldsNoMore
<1>4. \A q \in Procs : Received(q)' = Received(q)
  BY <1>1 DEF OpensPartly, Received, Receiving
<1>5. /\ faults' \in Nat /\ (faults' = 0 => faults = 0) /\ OneOpen
      /\ kept' = kept /\ reserved' = reserved
      /\ \A q \in Procs : Ids(records'[q]) = Ids(records[q])
      /\ \A q \in Procs : proc'[q] = "open" => proc[q] = "open"
  BY <1>1 DEF OpensPartly, Accounts, Inv
<1>6. Accounts'
  BY <1>3, <1>4, <1>5, SameFilesAreCounted
<1>7. CopiedOnce'
  <2> PICK S : S = {}
    OBVIOUS
  <2>1. /\ \A g \in S : g \notin incoming'
        /\ incoming' \subseteq incoming
        /\ \A q \in Procs : Ids(records'[q]) \subseteq Listed \cup S
        /\ \A d \in Conns : conn'[d].at \in {"listing", "copying"} =>
               conn'[d].at = conn[d].at /\ conn'[d].file = conn[d].file
    BY <1>1 DEF OpensPartly, Listed
  <2>2. Ids(index') \subseteq Listed \cup S
    BY <1>1 DEF OpensPartly, Ids, Listed
  <2>3. \A d \in Conns : conn[d].at = "copying" /\ conn'[d].at = "copying" =>
               (folders'[conn[d].file] = "file" => folders[conn[d].file] = "file")
    <3>1. \A d \in Conns : conn[d].at = "copying" => conn[d].file \in Files
      BY ReceivesFrom DEF Receiving
    <3> QED
      BY <1>1, <3>1 DEF OpensPartly
  <2> QED
    BY <2>1, <2>2, <2>3, StaysCopiedOnce
<1> QED
  BY <1>6, <1>7

\* A process that ends keeps no count.
LEMMA EndIsCounted ==
    ASSUME Inv, Accounts, CopiedOnce, NEW p \in Procs, End(p)
    PROVE  Accounts' /\ CopiedOnce'
<1>1. Ends(p)
  BY DEF End, Ends, disk, bounds, history
<1>2. /\ records \in [Procs -> SUBSET Rec] /\ proc \in [Procs -> {"off", "open", "closed"}]
      /\ conn \in [Conns -> ConnType] /\ Idle.at = "none" /\ kept \in [Procs -> Nat] /\ reserved \in [Procs -> Nat]
  BY DEF Inv, Types, Idle, Accounts
<1>3. /\ \A q \in Procs : /\ records'[q] = IF q = p THEN {} ELSE records[q]
                          /\ kept'[q] = IF q = p THEN 0 ELSE kept[q]
                          /\ reserved'[q] = IF q = p THEN 0 ELSE reserved[q]
                          /\ proc'[q] = "open" => q # p /\ proc[q] = "open"
      /\ \A d \in Conns : conn'[d] = IF conn[d].proc = p THEN Idle ELSE conn[d]
      /\ kept' \in [Procs -> Nat] /\ reserved' \in [Procs -> Nat]
      /\ UNCHANGED <<index, incoming, folders, faults>>
  BY <1>1, <1>2 DEF Ends
<1>4. \A q \in Procs : Received(q)' = IF q = p THEN {} ELSE Received(q)
  <2>1. \A d \in Conns : Receiving(d)' <=> Receiving(d) /\ conn[d].proc # p
    BY <1>2, <1>3 DEF Receiving
  <2>2. \A d \in Conns : Receiving(d)' => conn'[d] = conn[d] /\ conn[d].proc # p
    BY <1>3, <2>1
  <2>3. ASSUME NEW q \in Procs, NEW f PROVE f \in Received(q)' <=> q # p /\ f \in Received(q)
    BY <1>3, <2>1, <2>2 DEF Received
  <2> QED
    BY <2>3
<1>5. \A q \in Procs : Ids(records[q])' = IF q = p THEN {} ELSE Ids(records[q])
  <2>1. \A q \in Procs : Ids(records'[q]) = IF q = p THEN {} ELSE Ids(records[q])
    BY <1>3 DEF Ids
  <2> QED
    BY <2>1 DEF Ids
<1>6. Held' = Held
  BY <1>3 DEF Held
<1>7. FewFiles'
  <2>1. \A q \in Procs : Few(Received(q)') /\ Few(Ids(records[q])')
    BY <1>4, <1>5, BytesNone DEF Accounts, FewFiles
  <2>2. Few(Held')
    BY <1>6 DEF Accounts, FewFiles
  <2> QED
    BY <2>1, <2>2 DEF FewFiles, Few
<1>8. AccountingAgrees'
  <2>1. ASSUME NEW q \in Procs PROVE reserved'[q] = Bytes(Received(q)') /\ kept'[q] = Bytes(Ids(records[q])')
    <3>1. CASE q = p
      <4>1. Received(q)' = {} /\ Ids(records[q])' = {}
        BY <1>4, <1>5, <3>1
      <4> QED
        BY <1>3, <3>1, <4>1, BytesNone
    <3>2. CASE q # p
      <4>1. /\ Received(q)' = Received(q) /\ reserved[q] = Bytes(Received(q))
            /\ Ids(records[q])' = Ids(records[q]) /\ kept[q] = Bytes(Ids(records[q]))
        BY <1>4, <1>5, <3>2, Reserves
      <4> QED
        BY <1>3, <3>2, <4>1
    <3> QED
      BY <3>1, <3>2
  <2> QED
    BY <2>1 DEF AccountingAgrees, Received, Bytes, Units
<1>9. ASSUME faults' = 0
      PROVE  /\ Bytes(Held)' <= Total
             /\ \A q \in Procs : proc'[q] = "open" => Held' \subseteq Ids(records[q])' \cup Received(q)' /\ kept'[q] + reserved'[q] <= Total
  <2>1. /\ Bytes(Held) <= Total
        /\ \A q \in Procs : proc[q] = "open" => Held \subseteq Ids(records[q]) \cup Received(q) /\ kept[q] + reserved[q] <= Total
    BY <1>3, <1>9 DEF Accounts, WithinTotal
  <2>2. Bytes(Held)' <= Total
    BY <1>6, <2>1 DEF Bytes, Units
  <2>3. \A q \in Procs : proc'[q] = "open" => Ids(records[q])' = Ids(records[q]) /\ Received(q)' = Received(q)
    BY <1>3, <1>4, <1>5
  <2> QED
    BY <1>3, <1>6, <2>1, <2>2, <2>3
<1>10. Accounts'
  <2>1. WithinTotal'
    BY <1>9 DEF WithinTotal
  <2>2. faults' \in Nat
    BY <1>3 DEF Accounts
  <2> QED
    BY <1>3, <1>7, <1>8, <2>1, <2>2 DEF Accounts
<1>11. CopiedOnce'
  <2>1. Ids(index)' = Ids(index)
    BY <1>3 DEF Ids
  <2> QED
    BY <1>2, <1>3, <1>5, <2>1 DEF CopiedOnce
<1> QED
  BY <1>10, <1>11

-----------------------------------------------------------------------------
(***************************************************************************)
(* The processes that shared.                                              *)
(***************************************************************************)

\* A list of records of processes that have run in the terminal, or outside.
Sourced(recs) == \A r \in recs : r.src \in Sources \cup {Outside}
SourcesOK ==
    /\ term \in Sources /\ Sourced(index)
    /\ \A p \in Procs : Sourced(records[p])
    /\ \A c \in Conns : conn[c].src \in Sources \cup {Outside}
    /\ \A h \in Homes : Sourced(home[h].sent)

LEMMA SourcesGiveTypes == Inv /\ Accounts /\ SourcesOK => SharesTypeOK
<1> SUFFICES ASSUME Inv, Accounts, SourcesOK PROVE SharesTypeOK
  OBVIOUS
<1>1. \A recs : recs \in SUBSET Rec /\ Sourced(recs) => recs \in SUBSET Record
  BY DEF Rec, Record, Sourced
<1>2. index \subseteq Record /\ records \in [Procs -> SUBSET Record]
  BY <1>1 DEF Inv, Types, SourcesOK
<1>3. \A h \in Homes : home[h].view \in View /\ home[h].sent \subseteq Record
  BY <1>1 DEF Inv, Types, HomeType, SourcesOK
<1>4. \A c \in Conns :
         /\ conn[c].at \in {"none", "opening", "header", "copying", "moving", "listing"}
         /\ conn[c].proc \in Procs \cup {None} /\ conn[c].src \in Sources \cup {Outside}
         /\ conn[c].file \in Files \cup {None} /\ conn[c].stored \subseteq Files
  BY DEF Inv, Types, ConnType, SourcesOK
<1>5. /\ incoming \subseteq Files /\ folders \in [Files -> {"none", "empty", "file"}]
      /\ proc \in [Procs -> {"off", "open", "closed"}] /\ kept \in [Procs -> Nat] /\ reserved \in [Procs -> Nat]
      /\ term \in Sources /\ live \in BOOLEAN
  BY DEF Inv, Types, Accounts, SourcesOK
<1> QED
  BY <1>2, <1>3, <1>4, <1>5 DEF SharesTypeOK

\* A step of a connection gives its share the process in the terminal, or none.
LEMMA SharesKeepSources ==
    ASSUME Inv, Accounts, SourcesOK, NEW c \in Conns,
           ShareStep(c) \/ (\E p \in Procs : Accept(c, p)) \/ (\E f \in Files : Begin(c, f))
    PROVE  SourcesOK'
<1>1. conn \in [Conns -> ConnType] /\ home \in [Homes -> HomeType] /\ Idle.src = Outside
  BY DEF Inv, Types, Idle
<1>2. ASSUME UNCHANGED <<index, records, home, term>>, NEW new, conn' = [conn EXCEPT ![c] = new],
             new.src \in Sources \cup {Outside}
      PROVE  SourcesOK'
  BY <1>1, <1>2 DEF SourcesOK, Sourced
<1>3. ASSUME NEW p \in Procs, Accept(c, p) PROVE SourcesOK'
  <2>1. [Idle EXCEPT !.at = "opening", !.proc = p].src = Outside
    BY DEF Idle
  <2> QED
    BY <1>2, <1>3, <2>1 DEF Accept, disk, store
<1>4. ASSUME NEW f \in Files, Begin(c, f) PROVE SourcesOK'
  <2>1. /\ conn' = [conn EXCEPT ![c] = [conn[c] EXCEPT !.at = "copying", !.file = f]]
        /\ [conn[c] EXCEPT !.at = "copying", !.file = f].src = conn[c].src
    <3>1. conn' = [conn EXCEPT ![c].at = "copying", ![c].file = f]
      BY <1>4 DEF Begin
    <3> QED
      BY <1>1, <3>1 DEF ConnType
  <2>2. conn[c].src \in Sources \cup {Outside}
    BY DEF SourcesOK
  <2> QED
    BY <1>2, <1>4, <2>1, <2>2 DEF Begin
<1>5. ASSUME Attribute(c) PROVE SourcesOK'
  <2>1. PICK s \in {Outside, term} : conn' = [conn EXCEPT ![c].at = "header", ![c].src = s]
    BY <1>5 DEF Attribute
  <2>2. /\ conn' = [conn EXCEPT ![c] = [conn[c] EXCEPT !.at = "header", !.src = s]]
        /\ [conn[c] EXCEPT !.at = "header", !.src = s].src = s
    BY <1>1, <2>1 DEF ConnType
  <2>3. s \in Sources \cup {Outside}
    BY DEF SourcesOK
  <2> QED
    BY <1>2, <1>5, <2>2, <2>3 DEF Attribute, disk, store
<1>6. ASSUME Hangup(c) PROVE SourcesOK'
  BY <1>1, <1>2, <1>6 DEF Hangup, Leave, disk, store
<1>7. ASSUME CopyFails(c) \/ CommitMkdir(c) \/ CommitRename(c) PROVE SourcesOK'
  <2>1. UNCHANGED <<index, records, home, term>>
    BY <1>7 DEF CopyFails, CommitMkdir, CommitRename
  <2>2. PICK p, f : Aborts(c, p, f) \/ Advances(c, f)
    BY <1>7, UnlistedSharesDo
  <2>3. CASE Aborts(c, p, f)
    BY <1>1, <1>2, <2>1, <2>3 DEF Aborts
  <2>4. CASE Advances(c, f)
    <3>1. /\ [conn[c] EXCEPT !.at = "moving"].src = conn[c].src
          /\ [conn[c] EXCEPT !.at = "listing"].src = conn[c].src
          /\ conn[c].src \in Sources \cup {Outside}
      BY <1>1 DEF ConnType, SourcesOK
    <3> QED
      BY <1>2, <2>1, <2>4, <3>1 DEF Advances
  <2> QED
    BY <2>2, <2>3, <2>4
<1>8. ASSUME CommitList(c) PROVE SourcesOK'
  <2>1. PICK p, f : /\ Listing(c, p, f)
                    /\ Completed(c, p, f) \/ Undone(c, p, f)
                    /\ UNCHANGED <<incoming, proc, term, live, misreads, asked, gone>>
    BY <1>8, CommitListDoes
  <2> PICK list : list = records[p] \cup {NewRecord(c)}
    OBVIOUS
  <2>2. Sourced(list)
    <3>1. NewRecord(c).src = conn[c].src /\ p \in Procs
      BY <2>1, TheNewRecord DEF Listing
    <3> QED
      BY <3>1 DEF SourcesOK, Sourced
  <2>3. index' \in {index, list} /\ (records' = records \/ records' = [records EXCEPT ![p] = list])
    BY <2>1 DEF Completed, Undone
  <2>4. Sourced(index') /\ \A q \in Procs : Sourced(records'[q])
    <3>1. records \in [Procs -> SUBSET Rec]
      BY DEF Inv, Types
    <3> QED
      BY <2>2, <2>3, <3>1 DEF SourcesOK
  <2>5. \A d \in Conns : conn'[d].src \in Sources \cup {Outside}
    <3>1. [conn[c] EXCEPT !.at = "header", !.file = None, !.stored = @ \cup {f}].src = conn[c].src
      BY <1>1 DEF ConnType
    <3>2. PICK new : conn' = [conn EXCEPT ![c] = new] /\ new.src \in {Outside, conn[c].src}
      BY <1>1, <2>1, <3>1 DEF Completed, Undone, Leave
    <3> QED
      BY <1>1, <3>2 DEF SourcesOK
  <2>6. \A h \in Homes : home'[h].sent = home[h].sent
    BY <2>1, NotifiedHomes DEF Completed, Undone, Listing, Inv
  <2> QED
    BY <2>1, <2>4, <2>5, <2>6 DEF SourcesOK, Sourced
<1> QED
  BY <1>3, <1>4, <1>5, <1>6, <1>7, <1>8 DEF ShareStep

LEMMA NextKeepsSources == ASSUME Inv, HomesHaveProcesses, Accounts, SourcesOK, [Next]_vars PROVE SourcesOK'
<1>0. /\ records \in [Procs -> SUBSET Rec] /\ conn \in [Conns -> ConnType] /\ home \in [Homes -> HomeType]
      /\ Idle.src = Outside /\ NoHome.sent = {}
  BY DEF Inv, Types, Idle, NoHome
<1>1. ASSUME term' = term, Sourced(index'), \A q \in Procs : Sourced(records'[q]),
             \A c \in Conns : conn'[c].src \in {conn[c].src, Outside},
             \A h \in Homes : Sourced(home'[h].sent)
      PROVE  SourcesOK'
  BY <1>1 DEF SourcesOK, Sourced
<1>2. \A recs, some : Sourced(recs) /\ some \subseteq recs => Sourced(some)
  BY DEF Sourced
<1>3. ASSUME NEW p \in Procs, Open(p) \/ OpenFails(p) \/ Close(p) \/ End(p) PROVE SourcesOK'
  <2>1. CASE Open(p)
    <3>1. PICK found : Opens(p, found)
      BY <2>1, OpenDoes DEF Inv
    <3>2. Sourced(found)
      BY <1>2, <3>1 DEF Opens, SourcesOK
    <3>3. \A q \in Procs : Sourced(records'[q])
      BY <1>0, <3>1, <3>2 DEF Opens, SourcesOK
    <3> QED
      BY <1>1, <3>1, <3>2, <3>3 DEF Opens, SourcesOK
  <2>2. CASE OpenFails(p)
    <3>1. OpensPartly
      BY <2>2, OpenFailsDoes DEF Inv
    <3>2. Sourced(index')
      BY <1>2, <3>1 DEF OpensPartly, SourcesOK
    <3> QED
      BY <1>1, <3>1, <3>2 DEF OpensPartly, SourcesOK
  <2>3. CASE Close(p)
    BY <1>1, <2>3 DEF Close, disk, store, SourcesOK
  <2>4. CASE End(p)
    <3>1. Ends(p)
      BY <2>4 DEF End, Ends, disk, bounds, history
    <3>2. Sourced({})
      BY DEF Sourced
    <3>3. /\ \A q \in Procs : Sourced(records'[q])
          /\ \A c \in Conns : conn'[c].src \in {conn[c].src, Outside}
          /\ \A h \in Homes : Sourced(home'[h].sent)
      BY <1>0, <3>1, <3>2 DEF Ends, SourcesOK
    <3> QED
      BY <1>1, <3>1, <3>3 DEF Ends, SourcesOK
  <2> QED
    BY <1>3, <2>1, <2>2, <2>3, <2>4
<1>4. ASSUME NEW p \in Procs, NEW ids \in SUBSET Files, Delete(p, ids) PROVE SourcesOK'
  <2>1. PICK deleted : Deletes(p, ids, deleted)
    BY <1>4, DeleteDoes DEF Inv
  <2>2. Sourced(records[p] \ deleted)
    BY <1>2 DEF SourcesOK
  <2>3. Sourced(index') /\ \A q \in Procs : Sourced(records'[q])
    BY <1>0, <2>1, <2>2 DEF Deletes, SourcesOK
  <2>4. \A h \in Homes : home'[h].sent = home[h].sent
    BY <2>1, NotifiedHomes DEF Deletes, Inv
  <2> QED
    BY <1>1, <2>1, <2>3, <2>4 DEF Deletes, SourcesOK
<1>5. ASSUME NEW h \in Homes, NEW v \in View, SetView(h, v) PROVE SourcesOK'
  <2>1. PICK p \in Procs : Views(h, v, p)
    BY <1>5, SetViewDoes DEF Inv
  <2>2. Sourced(Updated(p, v))
    <3>1. \A r \in Rec : [r EXCEPT !.seen = TRUE].src = r.src
      BY DEF Rec
    <3>2. Marked(p, v) \subseteq records[p] /\ records[p] \subseteq Rec
      BY <1>0 DEF Marked
    <3>3. \A r \in records[p] : r.src \in Sources \cup {Outside}
      BY DEF SourcesOK, Sourced
    <3>4. \A r \in Marked(p, v) : [r EXCEPT !.seen = TRUE].src \in Sources \cup {Outside}
      BY <3>1, <3>2, <3>3
    <3>5. \A u \in Updated(p, v) : u \in records[p] \/ \E r \in Marked(p, v) : u = [r EXCEPT !.seen = TRUE]
      BY DEF Updated
    <3>6. \A u \in Updated(p, v) : u.src \in Sources \cup {Outside}
      BY <3>3, <3>4, <3>5
    <3> QED
      BY <3>6 DEF Sourced
  <2>3. Sourced(index') /\ \A q \in Procs : Sourced(records'[q])
    BY <1>0, <2>1, <2>2 DEF Views, SourcesOK
  <2>4. \A g \in Homes : home'[g].sent = home[g].sent
    BY <2>1, ViewsAreHomes
  <2> QED
    BY <1>1, <2>1, <2>3, <2>4 DEF Views, SourcesOK
<1>6. ASSUME NEW h \in Homes, (\E p \in Procs : HomeOpen(h, p)) \/ HomeSignal(h) \/ HomeList(h) \/ HomeClose(h)
      PROVE  SourcesOK'
  <2>1. HomeList(h) => home[h].proc \in Procs
    BY <1>0 DEF HomeList, HomesHaveProcesses, HomeType
  <2>2. UNCHANGED <<index, records, conn, term>>
    BY <1>6 DEF HomeOpen, HomeSignal, HomeList, HomeClose, disk, store
  <2>3. \E new : home' = [home EXCEPT ![h] = new] /\ Sourced(new.sent)
    <3>1. Sourced({}) /\ Sourced(home[h].sent) /\ (HomeList(h) => Sourced(records[home[h].proc]))
      BY <2>1 DEF Sourced, SourcesOK
    <3>2. ASSUME NEW p \in Procs, HomeOpen(h, p) PROVE \E new : home' = [home EXCEPT ![h] = new] /\ Sourced(new.sent)
      <4>1. [NoHome EXCEPT !.proc = p, !.reading = TRUE].sent = {}
        BY DEF NoHome
      <4> QED
        BY <3>1, <3>2, <4>1 DEF HomeOpen
    <3>3. ASSUME HomeSignal(h) PROVE \E new : home' = [home EXCEPT ![h] = new] /\ Sourced(new.sent)
      <4>1. /\ home' = [home EXCEPT ![h] = [home[h] EXCEPT !.pending = FALSE, !.reading = TRUE]]
            /\ [home[h] EXCEPT !.pending = FALSE, !.reading = TRUE].sent = home[h].sent
        BY <1>0, <3>3 DEF HomeSignal, HomeType
      <4> QED
        BY <3>1, <4>1
    <3>4. ASSUME HomeList(h) PROVE \E new : home' = [home EXCEPT ![h] = new] /\ Sourced(new.sent)
      <4>1. /\ home' = [home EXCEPT ![h] = [home[h] EXCEPT !.reading = FALSE, !.sent = records[home[h].proc]]]
            /\ [home[h] EXCEPT !.reading = FALSE, !.sent = records[home[h].proc]].sent = records[home[h].proc]
        BY <1>0, <3>4 DEF HomeList, HomeType
      <4> QED
        BY <3>1, <3>4, <4>1
    <3>5. ASSUME HomeClose(h) PROVE \E new : home' = [home EXCEPT ![h] = new] /\ Sourced(new.sent)
      BY <1>0, <3>1, <3>5 DEF HomeClose
    <3> QED
      BY <1>6, <3>2, <3>3, <3>4, <3>5
  <2>4. \A g \in Homes : Sourced(home'[g].sent)
    BY <1>0, <2>3 DEF SourcesOK
  <2> QED
    BY <1>1, <2>2, <2>4 DEF SourcesOK
<1>7. ASSUME Replace \/ Follow \/ UNCHANGED vars PROVE SourcesOK'
  <2>1. UNCHANGED <<index, records, conn, home>> /\ term' \in Sources
    <3>1. term \in Sources /\ MaxTerm \in Nat
      BY ShareBoundsAreNaturals DEF SourcesOK
    <3>2. CASE Replace
      BY <3>1, <3>2 DEF Replace, disk, store, Sources
    <3>3. CASE Follow \/ UNCHANGED vars
      BY <3>1, <3>3 DEF Follow, vars, disk, store
    <3> QED
      BY <1>7, <3>2, <3>3
  <2> QED
    BY <2>1 DEF SourcesOK, Sourced
<1>8. ASSUME NEW c \in Conns, ShareStep(c) \/ (\E p \in Procs : Accept(c, p)) \/ (\E f \in Files : Begin(c, f))
      PROVE  SourcesOK'
  BY <1>8, SharesKeepSources
<1> QED
  BY <1>3, <1>4, <1>5, <1>6, <1>7, <1>8, ShownAreViews DEF Next

-----------------------------------------------------------------------------
(***************************************************************************)
(* Storage.                                                                *)
(***************************************************************************)

LEMMA InitIsCounted == Init => Accounts /\ CopiedOnce /\ SourcesOK
<1> SUFFICES ASSUME Init PROVE Accounts /\ CopiedOnce /\ SourcesOK
  OBVIOUS
<1>1. Idle.at = "none" /\ Idle.src = Outside /\ NoHome.sent = {}
  BY DEF Idle, NoHome
<1>2. \A p \in Procs : Received(p) = {} /\ Ids(records[p]) = {}
  BY <1>1 DEF Init, Received, Receiving, Ids
<1>3. Held = {}
  BY DEF Init, Held
<1>4. FewFiles /\ AccountingAgrees
  <2>1. \A p \in Procs : kept[p] = 0 /\ reserved[p] = 0
    BY DEF Init
  <2> QED
    BY <1>2, <1>3, <2>1, BytesNone DEF FewFiles, AccountingAgrees, Received
<1>5. WithinTotal
  <2>1. 0 <= Total /\ \A p \in Procs : proc[p] # "open"
    BY ShareBoundsAreNaturals DEF Init
  <2> QED
    BY <1>3, <2>1, BytesNone DEF WithinTotal
<1>6. Accounts
  BY <1>4, <1>5 DEF Accounts, Init
<1>7. CopiedOnce
  BY <1>1 DEF Init, CopiedOnce
<1>8. SourcesOK
  <2>1. 1 \in Sources
    BY TheTerminalRuns, ShareBoundsAreNaturals DEF Sources
  <2> QED
    BY <1>1, <2>1 DEF Init, SourcesOK, Sourced
<1> QED
  BY <1>6, <1>7, <1>8

LEMMA NextIsCounted ==
    ASSUME Inv, Accounts, CopiedOnce, [Next]_vars
    PROVE  Accounts' /\ CopiedOnce'
<1>1. ASSUME NEW p \in Procs, Open(p) \/ OpenFails(p) \/ Close(p) \/ End(p) PROVE Accounts' /\ CopiedOnce'
  BY <1>1, OpenIsCounted, OpenFailsIsCounted, HomeStepsAreCounted, EndIsCounted
<1>2. ASSUME NEW p \in Procs, NEW ids \in SUBSET Files, Delete(p, ids) PROVE Accounts' /\ CopiedOnce'
  BY <1>2, DeleteIsCounted
<1>3. ASSUME NEW c \in Conns, NEW p \in Procs, Accept(c, p) PROVE Accounts' /\ CopiedOnce'
  BY <1>3, ConnStepsAreCounted
<1>4. ASSUME NEW c \in Conns, ShareStep(c) PROVE Accounts' /\ CopiedOnce'
  <2>1. CASE Attribute(c) \/ Hangup(c)
    BY <2>1, ConnStepsAreCounted
  <2>2. CASE CopyFails(c) \/ CommitMkdir(c) \/ CommitRename(c)
    <3>1. PICK p, f : Aborts(c, p, f) \/ Advances(c, f)
      BY <2>2, UnlistedSharesDo
    <3> QED
      BY <3>1, AbortsAreCounted, AdvancesAreCounted
  <2>3. CASE CommitList(c)
    BY <2>3, CommitListIsCounted
  <2> QED
    BY <1>4, <2>1, <2>2, <2>3 DEF ShareStep
<1>5. ASSUME NEW c \in Conns, NEW f \in Files, Begin(c, f) PROVE Accounts' /\ CopiedOnce'
  BY <1>5, BeginIsCounted
<1>6. ASSUME NEW h \in Homes, NEW v, SetView(h, v) PROVE Accounts' /\ CopiedOnce'
  BY <1>6, SetViewIsCounted
<1>7. ASSUME \/ \E h \in Homes, p \in Procs : HomeOpen(h, p)
             \/ \E h \in Homes : HomeSignal(h) \/ HomeList(h) \/ HomeClose(h)
             \/ Replace \/ Follow \/ UNCHANGED vars
      PROVE  Accounts' /\ CopiedOnce'
  BY <1>7, HomeStepsAreCounted
<1> QED
  BY <1>1, <1>2, <1>3, <1>4, <1>5, <1>6, <1>7 DEF Next

\* The counters are what the lists and the shares in progress add up to, what
\* is on disk stays within the limit while no removal failed, and listed files
\* can be opened, whichever processes open, close and crash over the folder
\* (store.go:187-241, 420-625).
THEOREM StorageStaysInAgreement == Spec => []StorageAgrees
<1>1. Inv /\ (\A h \in Homes : HomeOK(h)) /\ Accounts /\ CopiedOnce /\ SourcesOK /\ [Next]_vars
        => Accounts' /\ CopiedOnce' /\ SourcesOK'
  BY NextIsCounted, NextKeepsSources, HomesOKShow DEF Inv
<1>2. Inv /\ Accounts /\ SourcesOK /\ ListedFilesArePresent => StorageAgrees
  <2> SUFFICES ASSUME Inv, Accounts, SourcesOK, ListedFilesArePresent PROVE StorageAgrees
    OBVIOUS
  <2>1. SharesTypeOK
    BY SourcesGiveTypes
  <2>2. DiskWithinTotal
    BY DEF Accounts, WithinTotal, DiskWithinTotal, Held
  <2>3. AccountingAgrees
    BY DEF Accounts
  <2> QED
    BY <2>1, <2>2, <2>3 DEF StorageAgrees
<1> QED
  BY <1>1, <1>2, InitIsCounted, SharesBase, ListedFilesStayPresent, PTL DEF Spec
=============================================================================
