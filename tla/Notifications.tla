--------------------------- MODULE Notifications ---------------------------
(***************************************************************************)
(* Push notifications: the subscriptions kept in notifications.json        *)
(* (internal/notifications/store.go), the queue and the workers that       *)
(* deliver events to them (manager.go), the requests that change them      *)
(* (internal/server/notifications.go), and the access manager's gate and   *)
(* trusted sign-ins they depend on (internal/access/manager.go).           *)
(*                                                                         *)
(* writeState fails only before its rename and ignores the directory's     *)
(* sync, so the state in memory is the file's whenever the store has one:  *)
(* both are the variable subs.  The gate is the phase of the workers that  *)
(* send inside it and of the requests that wait to hold it alone: a        *)
(* waiting request keeps further workers out, as sync.RWMutex does.        *)
(***************************************************************************)
EXTENDS Naturals, Sequences, FiniteSets

CONSTANTS
    Endpoints,        \* push endpoints, one per browser
    Trusts,           \* trust IDs
    Requests,         \* browser requests, each made once
    Workers,          \* delivery goroutines (deliveryWorkers)
    QueueLength,      \* places in the event queue (deliveryQueue)
    MaxSubscriptions, \* the store's limit
    Choices,          \* the sets of event kinds a browser may select
    MaxNotices,       \* bound on events about Herdr and shared files
    MaxFaults,        \* bound on writes and reads that fail
    MaxStarts,        \* bound on starts of the service and the commands
    None              \* no owner, endpoint or subscription

ASSUME NotificationBoundsAreNaturals ==
    {QueueLength, MaxSubscriptions, MaxNotices, MaxFaults, MaxStarts} \subseteq Nat

ASSUME ChoicesAreKinds == \A c \in Choices : c \subseteq {"herdr", "added", "removed"}

VARIABLES
    process,   \* "down", "service", "revoke" (the local command), "waiting" for it
    signIn,    \* whether the process has protected access (no -no-sign-in)
    store,     \* Store: "none" without state, "ok", or "error"
    authority, \* whether Manager.authority is set
    subs,      \* each endpoint's subscription, in memory and on disk
    file,      \* whether notifications.json exists
    trust,     \* each trust ID: "new", "active" or "gone"
    queue,     \* Manager.events
    pending,   \* Manager.pending
    worker,    \* each worker's phase, event and the subscriptions it has left
    request,   \* each request's phase
    dead,      \* endpoints the push service has given up
    promised,  \* for each trust, the endpoints whose last answer said enabled
    cleaned,   \* trusts whose removal was reported with its clean-up done
    notices, faults, starts  \* how often each bounded event happened

deliver  == <<queue, pending, worker>>
kept     == <<subs, file, trust, promised, cleaned>>
settings == <<process, signIn, store, authority>>
vars     == <<settings, kept, deliver, request, dead, notices, faults, starts>>

\* Kinds of event: about Herdr's terminals, workspaces and shared files, and
\* about trusted sign-ins.
Kinds        == {"herdr", "added", "removed"}
Subscription == [owner : Trusts \cup {None}, events : Choices]

ASSUME NotificationNames == None \notin Trusts \cup Subscription

Active     == {t \in Trusts : trust[t] = "active"}
Subscribed == {e \in Endpoints : subs[e] # None}
NoTarget   == [endpoint |-> None, owner |-> None]
Idle       == [at |-> "idle", event |-> "herdr", left |-> {}, to |-> NoTarget]
NoRequest  == [at |-> "new", kind |-> "save", trust |-> None, endpoint |-> None, events |-> {}]

\* A file system call that fails is counted, and there are at most MaxFaults.
Fault == faults < MaxFaults /\ faults' = faults + 1
\* A call that may fail: ok says whether it did not.
Try(ok) == IF ok THEN UNCHANGED faults ELSE Fault

Init ==
    /\ process = "down" /\ signIn = FALSE /\ store = "none" /\ authority = FALSE
    /\ file = FALSE /\ subs = [e \in Endpoints |-> None]
    /\ trust \in [Trusts -> {"new", "active"}]
    /\ queue = <<>> /\ pending = 0 /\ worker = [w \in Workers |-> Idle]
    /\ request = [r \in Requests |-> NoRequest]
    /\ dead = {} /\ promised = [t \in Trusts |-> {}] /\ cleaned = {}
    /\ notices = 0 /\ faults = 0 /\ starts = 0

-----------------------------------------------------------------------------
(***************************************************************************)
(* Starting and ending.                                                    *)
(***************************************************************************)

\* OpenStore: the file is read, or made when a contact is given and there is
\* none; an error leaves the store without state.
OpenStore(contact, ok) ==
    /\ store' = CASE ~ok -> "error"
                  [] ok /\ ~file /\ ~contact -> "none"
                  [] OTHER -> "ok"
    /\ file' = (file \/ (ok /\ contact))

\* Store.EnableProtected: the subscriptions of active trusts stay.
Kept == [e \in Endpoints |-> IF subs[e] # None /\ subs[e].owner \in Active THEN subs[e] ELSE None]

\* Mutant: the authority is set once the store has been rewritten.
EnableProtectedLate(ok) ==
    /\ authority' = (signIn' /\ ok /\ store' # "error")
    /\ subs' = IF signIn' /\ store' = "ok" /\ ok THEN Kept ELSE subs

\* Manager.EnableProtected, where an error is only logged.
EnableProtected(ok) ==
    /\ authority' = signIn'
    /\ subs' = IF signIn' /\ store' = "ok" /\ ok THEN Kept ELSE subs

\* The service starts, or "shepherdr access revoke", which has to be alone.
Start(mode, protected) ==
    /\ process = "down" /\ starts < MaxStarts
    /\ process' = mode /\ starts' = starts + 1
    /\ signIn' = (mode = "revoke" \/ protected)
    /\ \E contact, opened, rewritten \in BOOLEAN :
          /\ mode = "revoke" => ~contact
          /\ opened \/ rewritten
          /\ OpenStore(contact, opened)
          /\ Try(opened /\ rewritten)
          /\ EnableProtected(rewritten)
    /\ UNCHANGED <<trust, promised, cleaned, deliver, request, dead, notices>>

\* The process ends at any time: the queue and the requests are lost.
End ==
    /\ process # "down"
    /\ process' = "down" /\ store' = "none" /\ authority' = FALSE /\ signIn' = FALSE
    /\ queue' = <<>> /\ pending' = 0 /\ worker' = [w \in Workers |-> Idle]
    /\ request' = [r \in Requests |-> IF request[r].at = "new" THEN request[r]
                                      ELSE [NoRequest EXCEPT !.at = "done"]]
    /\ UNCHANGED <<kept, dead, notices, faults, starts>>

\* "shepherdr access reset": no trust remains, and the subscriptions go by
\* Manager.Reset or, when that write failed, by the command's own attempt.
AccessReset ==
    /\ process = "down" /\ starts < MaxStarts
    /\ starts' = starts + 1
    /\ trust' = [t \in Trusts |-> IF trust[t] = "active" THEN "gone" ELSE trust[t]]
    /\ \E opened, written \in BOOLEAN :
          /\ opened \/ ~written
          /\ Try(opened /\ written)
          /\ subs' = IF written THEN [e \in Endpoints |-> None] ELSE subs
          /\ cleaned' = IF written THEN cleaned \cup Active ELSE cleaned
    /\ UNCHANGED <<settings, file, promised, deliver, request, dead, notices>>

\* "shepherdr -reset-notifications": Reset removes the file.
Reset ==
    /\ process = "down" /\ file
    /\ file' = FALSE
    /\ subs' = [e \in Endpoints |-> None]
    /\ promised' = [t \in Trusts |-> {}]
    /\ UNCHANGED <<settings, trust, cleaned, deliver, request, dead, notices, faults, starts>>

-----------------------------------------------------------------------------
(***************************************************************************)
(* Events and their delivery.                                              *)
(***************************************************************************)

\* Mutant: an event waits for room in the queue.
enqueueBlocking(kind) ==
    /\ Len(queue) < QueueLength
    /\ queue' = Append(queue, kind) /\ pending' = pending + 1
    /\ UNCHANGED worker

\* enqueue: with the queue full the event is dropped.
enqueue(kind) ==
    /\ IF Len(queue) < QueueLength
       THEN queue' = Append(queue, kind) /\ pending' = pending + 1
       ELSE UNCHANGED <<queue, pending>>
    /\ UNCHANGED worker

\* ObserveSnapshot and FileShared, from the projectors and the share service.
Notice ==
    /\ process = "service" /\ notices < MaxNotices
    /\ notices' = notices + 1
    /\ enqueue("herdr")
    /\ UNCHANGED <<settings, kept, request, dead, faults, starts>>

\* The requests that wait for the gate, and the workers inside it.
Waiting == {r \in Requests : request[r].at = "gate"}
InGate  == {w \in Workers : worker[w].at = "sending" /\ authority}

\* deliver takes an event and deliverEvent copies the subscriptions that
\* selected it; with an authority, those without an owner are passed over.
Deliver(w) ==
    /\ worker[w].at = "idle" /\ queue # <<>>
    /\ queue' = Tail(queue)
    /\ worker' = [worker EXCEPT ![w] =
          [at |-> "next", event |-> Head(queue), to |-> NoTarget,
           left |-> {[endpoint |-> e, owner |-> subs[e].owner] : e \in
                       {e \in Subscribed : /\ store = "ok" /\ Head(queue) \in subs[e].events
                                           /\ authority => subs[e].owner # None}}]]
    /\ UNCHANGED <<settings, kept, pending, request, dead, notices, faults, starts>>

\* The next subscription.  With an authority the send runs inside the gate, as
\* WithActiveTrustRead has it, and not for a trust that is no longer active.
Enter(w) ==
    /\ worker[w].at = "next"
    /\ authority => Waiting = {}
    /\ \E s \in worker[w].left :
          worker' = [worker EXCEPT ![w].left = @ \ {s},
                                   ![w].to = IF authority => s.owner \in Active THEN s ELSE NoTarget,
                                   ![w].at = IF authority => s.owner \in Active THEN "sending" ELSE "next"]
    /\ UNCHANGED <<settings, kept, queue, pending, request, dead, notices, faults, starts>>

\* Send ends within its timeout, and with it the worker leaves the gate.  The
\* push service says an endpoint is gone when it has given it up.
Sent(w) ==
    /\ worker[w].at = "sending"
    /\ \E gone \in BOOLEAN :
          /\ gone => worker[w].to.endpoint \in dead
          /\ worker' = [worker EXCEPT ![w].at = IF gone THEN "gone" ELSE "next",
                                      ![w].to = IF gone THEN @ ELSE NoTarget]
    /\ UNCHANGED <<settings, kept, queue, pending, request, dead, notices, faults, starts>>

\* Store.Remove, by the endpoint alone and outside the gate.
RemoveGone(w) ==
    /\ worker[w].at = "gone"
    /\ \E ok \in BOOLEAN :
          /\ Try(ok)
          /\ subs' = IF ok /\ store = "ok" THEN [subs EXCEPT ![worker[w].to.endpoint] = None] ELSE subs
    /\ worker' = [worker EXCEPT ![w].at = "next", ![w].to = NoTarget]
    /\ UNCHANGED <<settings, file, trust, promised, cleaned, queue, pending, request, dead, notices, starts>>

\* The event is done with, whether it was sent to anyone or not.
Finish(w) ==
    /\ worker[w].at = "next" /\ worker[w].left = {}
    /\ pending' = pending - 1
    /\ worker' = [worker EXCEPT ![w] = Idle]
    /\ UNCHANGED <<settings, kept, queue, request, dead, notices, faults, starts>>

\* The push service gives an endpoint up, as when a browser unsubscribes.
GiveUp ==
    /\ process = "service"
    /\ \E e \in Subscribed \ dead : dead' = dead \cup {e}
    /\ UNCHANGED <<settings, kept, deliver, request, notices, faults, starts>>

-----------------------------------------------------------------------------
(***************************************************************************)
(* Requests.  A save validates the endpoint first, for up to four seconds, *)
(* and commits under the gate; the others go to the gate at once.          *)
(***************************************************************************)

Done(r) == request' = [request EXCEPT ![r] = [NoRequest EXCEPT !.at = "done"]]

\* Without protected access nobody signs in.
Offered == IF signIn THEN {"save", "remove", "revoke", "register"} ELSE {"save", "remove"}
Askers  == IF signIn THEN Trusts ELSE {None}

\* A request as it begins: a save has its endpoint validated before the gate.
Asked(kind, t, e, events) ==
    [at |-> IF kind = "save" \/ ~signIn THEN "prepare" ELSE "gate", kind |-> kind, trust |-> t,
     endpoint |-> IF kind \in {"save", "remove"} THEN e ELSE None,
     events |-> IF kind = "save" THEN events ELSE {}]

Begin(r) ==
    /\ process = "service" /\ request[r].at = "new"
    /\ \E kind \in Offered, t \in Askers, e \in Endpoints, events \in Choices :
          /\ signIn => trust[t] = (IF kind = "register" THEN "new" ELSE "active")
          /\ request' = [request EXCEPT ![r] = Asked(kind, t, e, events)]
    /\ UNCHANGED <<settings, kept, deliver, dead, notices, faults, starts>>

\* Prepare: not configured, or the endpoint is refused; else on to the gate.
Prepare(r) ==
    /\ request[r].at = "prepare" /\ signIn
    /\ \/ Done(r)
       \/ store = "ok" /\ request' = [request EXCEPT ![r].at = "gate"]
    /\ UNCHANGED <<settings, kept, deliver, dead, notices, faults, starts>>

\* The gate is the request's alone.
Alone(r) == request[r].at = "gate" /\ InGate = {}

\* Mutant: the session that was checked before the endpoint counts.
MayCommitUnchecked(t) == TRUE
\* WithSessionCommit: the session is checked again inside the gate.
MayCommit(t) == t \in Active

HasRoom(e) == subs[e] # None \/ Cardinality(Subscribed) < MaxSubscriptions

\* Mutant: a save takes over the endpoint of another trusted sign-in.
MayUpsertAny(e, t) == store = "ok" /\ HasRoom(e)
\* UpsertOwned: a subscription of another trusted sign-in is left alone.
MayUpsert(e, t) == store = "ok" /\ HasRoom(e) /\ (subs[e] # None => subs[e].owner = t)

\* CommitOwned.
Save(r) ==
    LET q == request[r] IN
    /\ Alone(r) /\ q.kind = "save"
    /\ \/ UNCHANGED <<subs, promised, faults>>  \* the session has ended, by itself or with its trust
       \/ /\ MayCommit(q.trust) /\ MayUpsert(q.endpoint, q.trust)
          /\ \E ok \in BOOLEAN :
                /\ Try(ok)
                /\ subs' = IF ok THEN [subs EXCEPT ![q.endpoint] = [owner |-> q.trust, events |-> q.events]] ELSE subs
                /\ promised' = IF ok THEN [promised EXCEPT ![q.trust] = @ \cup {q.endpoint}] ELSE promised
    /\ Done(r)
    /\ UNCHANGED <<settings, file, trust, cleaned, deliver, dead, notices, starts>>

\* RemoveOwned.
Remove(r) ==
    LET q == request[r]
        owned == store = "ok" /\ subs[q.endpoint] # None /\ subs[q.endpoint].owner = q.trust
    IN
    /\ Alone(r) /\ q.kind = "remove"
    /\ \/ UNCHANGED <<subs, promised, faults>>
       \/ /\ MayCommit(q.trust)
          /\ \E ok \in BOOLEAN :
                /\ ~ok => owned
                /\ Try(ok)
                /\ subs' = IF ok /\ owned THEN [subs EXCEPT ![q.endpoint] = None] ELSE subs
                /\ promised' = IF ok THEN [promised EXCEPT ![q.trust] = @ \ {q.endpoint}] ELSE promised
    /\ Done(r)
    /\ UNCHANGED <<settings, file, trust, cleaned, deliver, dead, notices, starts>>

\* Sign-in off: Save and Remove, without a gate and for any endpoint.
Unprotected(r) ==
    LET q == request[r] IN
    /\ request[r].at = "prepare" /\ ~signIn
    /\ \/ UNCHANGED <<subs, promised, faults>>
       \/ /\ store = "ok" /\ (q.kind = "save" => HasRoom(q.endpoint))
          /\ \E ok \in BOOLEAN :
                /\ Try(ok)
                /\ subs' = IF ~ok THEN subs
                           ELSE [subs EXCEPT ![q.endpoint] =
                                   IF q.kind = "save" THEN [owner |-> None, events |-> q.events] ELSE None]
                /\ promised' = IF ok THEN [t \in Trusts |-> promised[t] \ {q.endpoint}] ELSE promised
    /\ Done(r)
    /\ UNCHANGED <<settings, file, trust, cleaned, deliver, dead, notices, starts>>

MayRevoke(t) == t \in Active /\ Cardinality(Active) > 1

\* revokeLocked with RemoveTrustSubscriptions: the trust is gone once access
\* is committed; the clean-up may fail after that, and then there is no notice.
revokeLocked(t) ==
    LET theirs == {e \in Subscribed : store = "ok" /\ subs[e].owner = t} IN
    \/ UNCHANGED <<subs, trust, cleaned, deliver>> /\ Try(~MayRevoke(t))
    \/ /\ MayRevoke(t)
       /\ trust' = [trust EXCEPT ![t] = "gone"]
       /\ \E ok \in BOOLEAN :
             /\ store = "error" => ~ok
             /\ ~ok => (store = "error" \/ theirs # {})
             /\ IF ok \/ store = "error" THEN UNCHANGED faults ELSE Fault
             /\ subs' = IF ok THEN [e \in Endpoints |-> IF e \in theirs THEN None ELSE subs[e]] ELSE subs
             /\ cleaned' = IF ok THEN cleaned \cup {t} ELSE cleaned
             /\ IF ok THEN enqueue("removed") ELSE UNCHANGED deliver

\* RevokeBrowser.
Revoke(r) ==
    /\ Alone(r) /\ request[r].kind = "revoke"
    /\ revokeLocked(request[r].trust)
    /\ Done(r)
    /\ UNCHANGED <<settings, file, promised, dead, notices, starts>>

\* FinishRegistration commits a trusted sign-in and announces it inside the gate.
Register(r) ==
    /\ Alone(r) /\ request[r].kind = "register"
    /\ IF trust[request[r].trust] = "new"
       THEN trust' = [trust EXCEPT ![request[r].trust] = "active"] /\ enqueue("added")
       ELSE UNCHANGED <<trust, deliver>>
    /\ Done(r)
    /\ UNCHANGED <<settings, subs, file, promised, cleaned, dead, notices, faults, starts>>

\* RevokeLocal in its own process, which then waits for the notice to be sent.
CommandRevoke ==
    /\ process = "revoke" /\ InGate = {}
    /\ \E t \in Active : revokeLocked(t)
    /\ process' = "waiting"
    /\ UNCHANGED <<signIn, store, authority, file, promised, request, dead, notices, starts>>

\* WaitPending returns and the command ends.
CommandEnds ==
    /\ process = "waiting" /\ pending = 0
    /\ End

-----------------------------------------------------------------------------
WorkerStep(w)  == Deliver(w) \/ Enter(w) \/ Sent(w) \/ RemoveGone(w) \/ Finish(w)
RequestStep(r) == Prepare(r) \/ Save(r) \/ Remove(r) \/ Unprotected(r) \/ Revoke(r) \/ Register(r)

Next ==
    \/ \E mode \in {"service", "revoke"}, protected \in BOOLEAN : Start(mode, protected)
    \/ End \/ AccessReset \/ Reset
    \/ Notice \/ GiveUp
    \/ \E w \in Workers : WorkerStep(w)
    \/ \E r \in Requests : Begin(r) \/ RequestStep(r)
    \/ CommandRevoke \/ CommandEnds

Spec == Init /\ [][Next]_vars

\* Goroutines that can run do: a send and an endpoint's validation have
\* timeouts, and the mutexes are handed on.
LiveSpec ==
    /\ Spec
    /\ \A w \in Workers : WF_vars(WorkerStep(w))
    /\ \A r \in Requests : WF_vars(RequestStep(r))
    /\ WF_vars(CommandEnds)

-----------------------------------------------------------------------------
(***************************************************************************)
(* Properties.                                                             *)
(***************************************************************************)

\* With protected access, no push is being sent for a trusted sign-in that is
\* not active: not for one removed while the send was prepared, nor for a
\* subscription left over from before or from a run with sign-in off, whatever
\* became of the store's rewrite at the start (manager.go:82-91, 246-254).
SendsHaveAuthority ==
    \A w \in Workers : signIn /\ worker[w].at = "sending" => worker[w].to.owner \in Active

\* Once a removal has reported that its subscriptions are cleaned up, none of
\* them is in the store again, though saves that were validated earlier commit
\* later (server/notifications.go:91-95, store.go:321-346).
RemovedTrustsAreForgotten ==
    \A e \in Subscribed : subs[e].owner \notin cleaned

\* A browser that was told notifications are on has its subscription until it
\* is told otherwise, its trusted sign-in goes, or the push service gives its
\* endpoint up: no other trusted sign-in, stale delivery or restart takes it
\* (store.go:258-319, manager.go:234-269).
EnabledBrowsersStay ==
    \A t \in Active : \A e \in promised[t] \ dead : subs[e] # None /\ subs[e].owner = t

\* A request that waits for the gate is answered, and the local command that
\* waits for its notice ends: an event never waits for room while the gate is
\* held, and every event that was queued is counted off (manager.go:204-232).
RequestsEnd ==
    []<>(process # "waiting" /\ \A r \in Requests : request[r].at \in {"new", "done"})

=============================================================================
