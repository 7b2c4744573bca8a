--------------------------- MODULE TerminalBridge ---------------------------
(***************************************************************************)
(* The bridge that carries browser terminals to the Herdr TUI              *)
(* (internal/server/terminal_bridge.go), the batches that share a control  *)
(* session's stdin (terminal_batch.go) and the keys that go around it      *)
(* (terminal_keys.go, SendKeys of internal/herdr/actions.go).              *)
(*                                                                         *)
(* One terminal and one sign-in.  A stream is a browser's control socket   *)
(* with its child process; a send is a file send, through a stream's       *)
(* handle or with a control session of its own; an input is one command    *)
(* typed into a stream.  The authority that a write needs is held during   *)
(* it (withCommitAuthority), so a chunk is checked and written in one      *)
(* step; between the chunks of a batch anything else may happen.           *)
(***************************************************************************)
EXTENDS Naturals, Sequences, FiniteSets

CONSTANTS
    Streams,   \* browser control streams
    Sends,     \* file sends
    Inputs,    \* commands typed into streams: text, keys and releases
    Chunks,    \* chunks of a text batch
    MaxFaults, \* bound: how often something ends a session, or the authority for it
    None       \* no session, no batch

ASSUME ChunksAssumption == Chunks \in Nat \ {0}
ASSUME BridgeBounds == MaxFaults \in Nat
ASSUME BridgeNames == None \notin Streams \cup Sends \cup Inputs
ASSUME BridgeKinds == Streams \cap Sends = {} /\ Streams \cap Inputs = {} /\ Sends \cap Inputs = {}

VARIABLES
    bridge,    \* "open", "closing" (Close waits for the children) or "closed"
    signedIn,  \* whether the browser's session is valid
    current,   \* whether the terminal is where Home showed it: its leases are valid
    attached,  \* the session Herdr lets control the terminal
    waits,     \* TerminalBridge.wait
    session,   \* the control sessions, of streams and of sends
    gone,      \* streams and sends whose request context is done
    batch,     \* what each send and input is doing
    faults     \* how often a session or its authority was ended

vars == <<bridge, signedIn, current, attached, waits, session, gone, batch, faults>>

Sessions == Streams \cup Sends
Batches  == Sends \cup Inputs

NoSession == [at |-> "new", child |-> "none", controlled |-> FALSE, active |-> FALSE,
              lock |-> None, typing |-> None, stopped |-> FALSE, written |-> <<>>]
NoBatch   == [at |-> "new", kind |-> "text", on |-> None, sent |-> 0, effect |-> "none",
              outcome |-> "pending"]

Init ==
    /\ bridge = "open" /\ signedIn = TRUE /\ current = TRUE
    /\ attached = None /\ waits = 0 /\ gone = {} /\ faults = 0
    /\ session = [s \in Sessions |-> NoSession]
    /\ batch = [b \in Batches |-> NoBatch]

-----------------------------------------------------------------------------
(***************************************************************************)
(* Sessions and their children.                                            *)
(***************************************************************************)

\* reserve: no child starts once Close has begun.
reserve == bridge = "open"

\* Mutant: a child that cannot start is not forgotten.
waitsAfterFailedStart == waits + 1
\* startTerminalSession reserved the child and forgets it.
waitsAfterFailure == waits

\* startTerminalSession: refused, failed to start, or with its child running.
Start(s, started, failed) ==
    \/ /\ ~reserve
       /\ session' = [session EXCEPT ![s] = failed] /\ UNCHANGED waits
    \/ /\ reserve
       /\ session' = [session EXCEPT ![s] = failed] /\ waits' = waitsAfterFailure
    \/ /\ reserve
       /\ session' = [session EXCEPT ![s] = started] /\ waits' = waits + 1

\* productionSocket: the target's lease is acquired first.
OpenStream(s) ==
    /\ session[s].at = "new" /\ current /\ signedIn
    /\ Start(s, [NoSession EXCEPT !.at = "starting", !.child = "running"], [NoSession EXCEPT !.at = "closed"])
    /\ UNCHANGED <<bridge, signedIn, current, attached, gone, batch, faults>>

\* Mutant: the session's context follows the request and the lease only.
CancelledByRequest(s) == s \in gone \/ ~current \/ session[s].at \in {"reap", "closed"}
\* The child has ended, or is made to: the session's context follows the
\* request, the lease and the bridge.
Cancelled(s) == s \in gone \/ ~current \/ bridge # "open" \/ session[s].at \in {"reap", "closed"}

Fault == faults < MaxFaults /\ faults' = faults + 1

\* The child exits: its scanner reaps it and forgets it.
Exit(s) ==
    /\ session[s].child = "running"
    /\ IF Cancelled(s) THEN UNCHANGED faults ELSE Fault
    /\ session' = [session EXCEPT ![s].child = "exited"]
    /\ waits' = waits - 1
    /\ attached' = IF attached = s THEN None ELSE attached
    /\ UNCHANGED <<bridge, signedIn, current, gone, batch>>
Reap(s) == Cancelled(s) /\ Exit(s)

\* Herdr lets a session control the terminal.  If another one did, it is taken
\* over and its child ends.
Attach(s, now) ==
    /\ attached' = s
    /\ session' = [q \in Sessions |-> CASE q = s -> now
                                       [] q = attached /\ q # s -> [session[q] EXCEPT !.child = "exited"]
                                       [] OTHER -> session[q]]
    /\ waits' = IF attached # None THEN waits - 1 ELSE waits

\* The stream's first valid frame: it has control, and a handle is registered
\* and written.
FirstFrame(s) ==
    /\ session[s].at = "starting" /\ session[s].child = "running" /\ current
    /\ Attach(s, [session[s] EXCEPT !.at = "open", !.controlled = TRUE, !.active = TRUE])
    /\ UNCHANGED <<bridge, signedIn, current, gone, batch, faults>>

\* serveSocket returns: the browser has left, or it has to.  The request's
\* context is ended first.
MustEnd(s) == \/ Cancelled(s) \/ ~signedIn
              \/ session[s].child = "exited"
              \/ session[s].stopped
End(s) ==
    /\ session[s].at \in {"starting", "open"}
    /\ IF MustEnd(s) THEN UNCHANGED faults ELSE Fault
    /\ session' = [session EXCEPT ![s].at = "unregister"]
    /\ gone' = gone \cup {s}
    /\ UNCHANGED <<bridge, signedIn, current, attached, waits, batch>>

\* unregisterController, which waits for the batch that holds stdin.
Unregister(s) ==
    /\ session[s].at = "unregister" /\ session[s].lock = None
    /\ session' = [session EXCEPT ![s].at = "close", ![s].active = FALSE]
    /\ UNCHANGED <<bridge, signedIn, current, attached, waits, gone, batch, faults>>

\* terminalChildSession.close: control ends with a release, after the batch
\* that holds stdin.  A send's session that never had control sends none.
Close(s) ==
    /\ session[s].at = "close" /\ session[s].lock = None
    /\ session' = [session EXCEPT ![s].at = "reap", ![s].controlled = FALSE,
          ![s].written = IF session[s].child = "running" /\ (s \in Streams \/ session[s].controlled)
                         THEN Append(@, None) ELSE @]
    /\ UNCHANGED <<bridge, signedIn, current, attached, waits, gone, batch, faults>>

\* It waits for the child, not longer than its two deadlines, and the session
\* is forgotten.
Closed(s) ==
    /\ session[s].at = "reap"
    /\ session' = [session EXCEPT ![s] = [NoSession EXCEPT !.at = "closed", !.child = session[s].child,
                                                           !.typing = session[s].typing]]
    /\ UNCHANGED <<bridge, signedIn, current, attached, waits, gone, batch, faults>>

-----------------------------------------------------------------------------
(***************************************************************************)
(* Batches.                                                                *)
(***************************************************************************)

\* The lock a batch has on its session's stdin is given up with its outcome.
\* The input goroutine stops after a release and after a text that was not
\* forwarded; a release leaves no control whatever became of it.

\* A release ends control under the lock it was written with.
LeavesControl(b) == b \in Inputs /\ batch[b].kind = "release"

Answered(b, outcome) ==
    /\ batch' = [batch EXCEPT ![b] = [NoBatch EXCEPT !.at = "answered", !.effect = batch[b].effect, !.outcome = outcome]]
    /\ LET s == batch[b].on IN
       session' = IF s = None THEN session
                  ELSE [session EXCEPT
                     ![s].lock = IF @ = b THEN None ELSE @,
                     ![s].typing = IF @ = b THEN None ELSE @,
                     ![s].controlled = @ /\ ~LeavesControl(b),
                     ![s].stopped = @ \/ (/\ b \in Inputs
                                          /\ \/ batch[b].kind = "release"
                                             \/ batch[b].kind = "text" /\ outcome # "forwarded"),
                     ![s].at = IF s = b THEN "close" ELSE @]

\* The input goroutine takes the next command of its stream.
Type(b) ==
    /\ batch[b].at = "new"
    /\ \E s \in Streams, kind \in {"text", "key", "release"} :
          /\ session[s].at \notin {"new", "closed"} /\ session[s].typing = None /\ ~session[s].stopped
          /\ session' = [session EXCEPT ![s].typing = b]
          /\ batch' = [batch EXCEPT ![b] = [NoBatch EXCEPT !.at = "lock", !.kind = kind, !.on = s]]
    /\ UNCHANGED <<bridge, signedIn, current, attached, waits, gone, faults>>

\* sendControllerBatch looks the handle up; the controller may end before it
\* has the lock.
SendByHandle(b) ==
    /\ batch[b].at = "new" /\ b \notin gone
    /\ \E s \in Streams :
          /\ session[s].active
          /\ batch' = [batch EXCEPT ![b] = [NoBatch EXCEPT !.at = "lock", !.on = s]]
    /\ UNCHANGED <<bridge, signedIn, current, attached, waits, session, gone, faults>>

\* SendBatch starts a control session of its own, b by name.
SendAlone(b) ==
    /\ batch[b].at = "new" /\ b \notin gone /\ current
    /\ Start(b, [NoSession EXCEPT !.at = "own", !.child = "running"], [NoSession EXCEPT !.at = "closed"])
    /\ batch' = [batch EXCEPT ![b] = IF session'[b].at = "own"
                                     THEN [NoBatch EXCEPT !.at = "attach", !.on = b]
                                     ELSE [NoBatch EXCEPT !.at = "answered", !.outcome = "not_sent"]]
    /\ UNCHANGED <<bridge, signedIn, current, attached, gone, faults>>

\* Its first event: control, or another client has it, or an end.
AttachAlone(b) ==
    /\ batch[b].at = "attach" /\ UNCHANGED <<bridge, signedIn, current, gone, faults>>
    /\ \/ /\ session[b].child = "running"
          /\ Attach(b, [session[b] EXCEPT !.controlled = TRUE])
          /\ batch' = [batch EXCEPT ![b].at = "write"]
       \/ /\ session[b].child = "running" /\ attached # None
          /\ Answered(b, "occupied") /\ UNCHANGED <<attached, waits, faults>>
       \/ /\ session[b].child = "exited" \/ Cancelled(b)
          /\ Answered(b, "not_sent") /\ UNCHANGED <<attached, waits, faults>>

\* Mutant: a file send does not wait for the input that is being written.
LockHeldNever(s) == FALSE
\* Both inputs and file sends take the session's writeMutex.
LockHeld(s) == session[s].lock # None

\* sendControllerBatch, and again controllerWrite for every chunk: the stream
\* has control and lives.
StillControlled(b) ==
    LET s == batch[b].on IN
    b \in Sends /\ s # b => /\ session[s].active /\ session[s].controlled
                            /\ s \notin gone /\ session[s].child = "running"

\* A batch gets the lock.  Without control nothing is written.
Lock(b) ==
    LET s == batch[b].on IN
    /\ batch[b].at = "lock" /\ ~LockHeld(s)
    /\ \/ /\ batch[b].kind = "key"
          /\ session' = [session EXCEPT ![s].lock = b]
          /\ batch' = [batch EXCEPT ![b].at = "read"]
       \/ /\ batch[b].kind # "key" /\ session[s].controlled /\ StillControlled(b)
          /\ session' = [session EXCEPT ![s].lock = b]
          /\ batch' = [batch EXCEPT ![b].at = "write"]
       \/ /\ batch[b].kind # "key" /\ ~(session[s].controlled /\ StillControlled(b))
          /\ Answered(b, "not_sent")
    /\ UNCHANGED <<bridge, signedIn, current, attached, waits, gone, faults>>

Size(b) == IF batch[b].kind = "text" THEN Chunks ELSE 1
\* The request a batch belongs to, by its context.
Left(b) == IF b \in Sends THEN b \in gone ELSE batch[b].on \in gone

\* Before every chunk: the request lives, the terminal is current and the
\* sign-in valid.
MayWrite(b) == ~Left(b) /\ current /\ signedIn

\* Mutant: only chunks that were written in full count.
AnythingWrittenInFull(b) == batch[b].sent > 0
\* counter.written
AnythingWritten(b) == batch[b].effect # "none"

\* A batch that stops: nothing was written, or that is left open.
Stop(b) == Answered(b, IF AnythingWritten(b) THEN "unknown" ELSE "not_sent")

\* A chunk is written, in full or in part; a child that has ended takes none.
\* One that does not read makes the write to a stream's stdin end at its
\* deadline; the write to a send's own stdin has none.
Write(b) ==
    LET s == batch[b].on
        now == batch[b].sent + 1
    IN
    /\ batch[b].at = "write" /\ batch[b].sent < Size(b)
    /\ MayWrite(b) /\ StillControlled(b)
    /\ session[s].child = "running"
    /\ session' = [session EXCEPT ![s].written = Append(@, IF batch[b].kind = "release" THEN None ELSE b)]
    /\ \/ batch' = [batch EXCEPT ![b].sent = now, ![b].effect = IF now = Size(b) THEN "all" ELSE "some"]
       \/ batch' = [batch EXCEPT ![b].at = "broken", ![b].effect = "some"]
    /\ UNCHANGED <<bridge, signedIn, current, attached, waits, gone, faults>>

\* forwardTerminalBatch stops at a failed check or write, or is through; a
\* send's own session ends with one more look at the sign-in.
Finish(b) ==
    /\ \/ /\ batch[b].at \in {"write", "broken"}
          /\ batch[b].at = "broken" \/ batch[b].sent < Size(b)
          /\ Stop(b)
       \/ /\ batch[b].at = "write" /\ batch[b].sent = Size(b)
          /\ Answered(b, IF batch[b].on = b /\ ~signedIn THEN "unknown" ELSE "forwarded")
    /\ UNCHANGED <<bridge, signedIn, current, attached, waits, gone, faults>>

\* sendTerminalKey checks control and reads where the terminal is.
MayPress(b) == LET s == batch[b].on IN
    /\ ~Left(b) /\ bridge = "open" /\ current
    /\ session[s].controlled /\ session[s].child = "running"

ReadForKey(b) ==
    /\ batch[b].at = "read"
    /\ \/ Answered(b, "not_sent")
       \/ MayPress(b) /\ batch' = [batch EXCEPT ![b].at = "press"] /\ UNCHANGED session
    /\ UNCHANGED <<bridge, signedIn, current, attached, waits, gone, faults>>

\* MutationMayHaveRun: the request was submitted and no answer came.
LostAnswer == "unknown"

\* The key is pressed inside the authority guard: refused or never submitted,
\* pressed and answered, or without an answer.
Press(b) ==
    /\ batch[b].at = "press" /\ UNCHANGED <<bridge, signedIn, current, attached, waits, gone, faults>>
    /\ \/ Answered(b, "not_sent")
       \/ /\ MayPress(b) /\ signedIn
          /\ \E pressed \in BOOLEAN, outcome \in {"forwarded", LostAnswer} :
                /\ outcome = "forwarded" => pressed
                /\ LET s == batch[b].on IN
                   /\ session' = [session EXCEPT ![s].lock = None, ![s].typing = None]
                   /\ batch' = [batch EXCEPT ![b].at = "answered", ![b].outcome = outcome, ![b].on = None,
                                             ![b].effect = IF pressed THEN "all" ELSE "none",
                                             ![b].kind = "text", ![b].on = None]

-----------------------------------------------------------------------------
(***************************************************************************)
(* What happens around them.                                               *)
(***************************************************************************)

\* A send's request is cancelled.
Leave(r) ==
    /\ r \notin gone /\ batch[r].at # "answered" /\ Fault
    /\ gone' = gone \cup {r}
    /\ UNCHANGED <<bridge, signedIn, current, attached, waits, session, batch>>

\* The session ends, which waits for a write that holds its authority.
SignOut ==
    /\ signedIn /\ signedIn' = FALSE /\ Fault
    /\ UNCHANGED <<bridge, current, attached, waits, session, gone, batch>>

\* Home shows the terminal elsewhere, or lost Herdr.
Replace ==
    /\ current /\ current' = FALSE /\ Fault
    /\ UNCHANGED <<bridge, signedIn, attached, waits, session, gone, batch>>

\* Close of the bridge: no more children, and it returns after the last one.
Shutdown ==
    /\ bridge = "open" /\ bridge' = "closing"
    /\ UNCHANGED <<signedIn, current, attached, waits, session, gone, batch, faults>>
ShutdownReturns ==
    /\ bridge = "closing" /\ waits = 0 /\ bridge' = "closed"
    /\ UNCHANGED <<signedIn, current, attached, waits, session, gone, batch, faults>>

BatchStep(b)  == Lock(b) \/ Write(b) \/ Finish(b) \/ ReadForKey(b) \/ Press(b)
SessionEnd(s) == Unregister(s) \/ Close(s) \/ Closed(s)

Next ==
    \/ \E s \in Streams : OpenStream(s) \/ FirstFrame(s) \/ End(s) \/ Unregister(s)
    \/ \E s \in Sessions : Exit(s) \/ Close(s) \/ Closed(s)
    \/ \E b \in Inputs : Type(b)
    \/ \E b \in Sends : SendByHandle(b) \/ SendAlone(b) \/ AttachAlone(b) \/ Leave(b)
    \/ \E b \in Batches : BatchStep(b)
    \/ SignOut \/ Replace \/ Shutdown \/ ShutdownReturns

Spec == Init /\ [][Next]_vars

\* What a send does on a session of its own has no deadline.  It waits for the
\* child's first event ...
AwaitsControl(b) == batch[b].at = "attach" /\ session[b].child = "running" /\ ~Cancelled(b)
\* ... writes to a child that may not read, with the sign-in's authority held ...
WritesAlone(b) ==
    /\ batch[b].on = b /\ batch[b].at = "write" /\ batch[b].sent < Size(b)
    /\ session[b].child = "running" /\ ~Cancelled(b)
\* ... and writes the release.
ReleasesAlone(s) ==
    /\ s \in Sends /\ session[s].at = "close" /\ session[s].controlled
    /\ session[s].child = "running" /\ ~Cancelled(s)

\* A sign-out behind such a write keeps every other request from the authority.
AuthorityHeld == \E b \in Sends : WritesAlone(b)

\* Goroutines that can run do, and a child that is cancelled ends, killed if
\* need be.  Writes to a stream's child and Herdr's calls have deadlines; what a
\* send does on its own session goes on for sure only once the child has ended.
LiveSpec ==
    /\ Spec
    /\ \A s \in Sessions : WF_vars(Reap(s)) /\ WF_vars(~ReleasesAlone(s) /\ SessionEnd(s))
    /\ \A s \in Streams : WF_vars(~AuthorityHeld /\ MustEnd(s) /\ End(s))
    /\ \A b \in Batches : WF_vars(~AuthorityHeld /\ BatchStep(b))
    /\ \A b \in Sends : WF_vars(~AwaitsControl(b) /\ AttachAlone(b))
    /\ WF_vars(ShutdownReturns)

-----------------------------------------------------------------------------
(***************************************************************************)
(* Properties.                                                             *)
(***************************************************************************)

Places == {"new", "starting", "open", "own", "unregister", "close", "reap", "closed"}

\* The types of the bridge's state, and what its wait group counts
\* (terminal_bridge.go:154-172).
BridgeTypeOK ==
    /\ bridge \in {"open", "closing", "closed"} /\ signedIn \in BOOLEAN /\ current \in BOOLEAN
    /\ attached \in Sessions \cup {None} /\ gone \subseteq Sessions /\ faults \in 0 .. MaxFaults
    /\ waits = Cardinality({s \in Sessions : session[s].child = "running"})
    /\ \A s \in Sessions : /\ session[s].at \in Places
                          /\ session[s].child \in {"none", "running", "exited"}
                          /\ session[s].lock \in Batches \cup {None}
                          /\ session[s].typing \in Inputs \cup {None}
    /\ \A b \in Batches : /\ batch[b].at \in {"new", "attach", "lock", "write", "broken", "read", "press", "answered"}
                         /\ batch[b].on \in Sessions \cup {None} /\ batch[b].sent \in 0 .. Chunks
                         /\ batch[b].outcome \in {"pending", "not_sent", "occupied", "forwarded", "unknown"}

\* The kinds of answers of Outcome.
AnswerFor(outcome) == IF outcome \in {"not_sent", "occupied"} THEN "not_done"
                      ELSE IF outcome = "forwarded" THEN "done" ELSE outcome

\* What a browser is told about its input, keys and files is never wrong
\* (terminal_batch.go:101-169; terminal_keys.go:149-204): the bridge implements
\* the answers of Outcome.
Answers == INSTANCE Outcome WITH Requests <- Batches,
                                 effect <- [b \in Batches |-> batch[b].effect],
                                 answer <- [b \in Batches |-> AnswerFor(batch[b].outcome)]
AnswersAreTruthful == Answers!Spec

\* A batch is not torn apart by another one that shares its child's stdin
\* (terminal_batch.go:61-62; terminal_bridge.go:405-423): file sends of other
\* requests, what is typed, and the release at the end.
BatchesStayWhole ==
    \A s \in Sessions : LET w == session[s].written IN
        \A i, k \in DOMAIN w : \A j \in i .. k : w[i] = w[k] /\ w[i] # None => w[j] = w[i]

\* Nothing is written after a release, by a file send that found the handle
\* while control lasted or by what was typed before (terminal_batch.go:61-65,
\* 86-99; terminal_bridge.go:316-318, 418-420).
NothingFollowsRelease ==
    \A s \in Sessions : LET w == session[s].written IN
        \A i, j \in DOMAIN w : i < j /\ w[i] = None => w[j] = None

\* When the bridge has closed, no child of it runs, and none starts after
\* (terminal_bridge.go:75-82, 154-165).
NoChildAfterClose == bridge = "closed" => \A s \in Sessions : session[s].child # "running"

\* Every batch that was begun is answered, a session that has to end has let go
\* of its child, and closing the bridge does not wait for ever
\* (terminal_bridge.go:75-82, 131-152, 308-331; terminal_batch.go:36-43, 61-82):
\* they wait for each other's locks and children.  Only a send on a session of
\* its own may wait as long as its child, its request, the terminal and the bridge
\* last: for the first event, or in a write, and then the others wait with it
\* (terminal_batch.go:211-242).
TerminalWorkEnds ==
    []<>(\/ AuthorityHeld
         \/ /\ \A b \in Batches : batch[b].at \in {"new", "answered"} \/ AwaitsControl(b)
            /\ \A s \in Sessions : Cancelled(s) => session[s].at \in {"new", "closed"}
            /\ bridge # "closing")

\* What a child reads on its stdin is what was sent, in order: whole batches, and
\* nothing after the release.
StdinStaysInOrder == BatchesStayWhole /\ NothingFollowsRelease

\* The bridge counts the children it waits for, and has none once it closed.
ChildrenAreCounted == BridgeTypeOK /\ NoChildAfterClose

=============================================================================
