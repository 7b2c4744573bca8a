------------------------- MODULE NotificationsProofs -------------------------
(***************************************************************************)
(* The safety of push notifications, for every number of browsers, trusted *)
(* sign-ins, requests and workers, every queue and every limit.            *)
(*                                                                         *)
(* The three properties are proved together: what is sent, what is kept    *)
(* and what was promised depend on the same facts about the store, on the  *)
(* process having nothing under way when it is down, and on the gate.      *)
(***************************************************************************)
EXTENDS Notifications, TLAPS

WorkerFields == {"at", "event", "left", "to"}
Request == [at : {"new", "prepare", "gate", "done"}, kind : {"save", "remove", "revoke", "register"},
            trust : Trusts \cup {None}, endpoint : Endpoints \cup {None}, events : SUBSET Kinds]

SettingsOK ==
    /\ process \in {"down", "service", "revoke", "waiting"} /\ signIn \in BOOLEAN
    /\ store \in {"none", "ok", "error"} /\ file \in BOOLEAN
    /\ authority = signIn

KeptOK ==
    /\ subs \in [Endpoints -> Subscription \cup {None}]
    /\ trust \in [Trusts -> {"new", "active", "gone"}]
    /\ promised \in [Trusts -> SUBSET Endpoints]
    /\ cleaned \subseteq Trusts

WorkersOK ==
    /\ worker = [w \in Workers |-> worker[w]]
    /\ \A w \in Workers : /\ DOMAIN worker[w] = WorkerFields
                          /\ worker[w] = [f \in WorkerFields |-> worker[w][f]]
                          /\ worker[w].at = "gone" => worker[w].to.endpoint \in dead

\* A save that is under way names an endpoint and a choice.
RequestsOK ==
    /\ request \in [Requests -> Request]
    /\ \A r \in Requests : request[r].at \in {"prepare", "gate"} /\ request[r].kind = "save" =>
                              request[r].endpoint \in Endpoints /\ request[r].events \in Choices

\* When the process is down, nothing of it is left.
Quiet ==
    process = "down" => /\ store = "none" /\ ~signIn /\ queue = <<>>
                        /\ \A w \in Workers : worker[w].at = "idle"
                        /\ \A r \in Requests : request[r].at \in {"new", "done"}

\* A store without state has no subscriptions to forget.
StoreAgrees ==
    /\ ~file => \A e \in Endpoints : subs[e] = None
    /\ store = "ok" => file
    /\ process # "down" /\ store = "none" => \A e \in Endpoints : subs[e] = None

\* Trust IDs are not used again.
TrustsAgree ==
    /\ \A t \in cleaned : trust[t] = "gone"
    /\ \A t \in Trusts : trust[t] = "new" => promised[t] = {}

Inv ==
    /\ SettingsOK /\ KeptOK /\ WorkersOK /\ RequestsOK
    /\ Quiet /\ StoreAgrees /\ TrustsAgree
    /\ SendsHaveAuthority /\ RemovedTrustsAreForgotten /\ EnabledBrowsersStay

-----------------------------------------------------------------------------
LEMMA InitInv == Init => Inv
<1> SUFFICES ASSUME Init PROVE Inv
  OBVIOUS
<1>1. \A w \in Workers : worker[w] = Idle
  BY DEF Init
<1>2. \A r \in Requests : request[r] = NoRequest
  BY DEF Init
<1>3. SettingsOK /\ KeptOK
  BY DEF Init, SettingsOK, KeptOK
<1>4. WorkersOK
  BY <1>1 DEF Init, WorkersOK, WorkerFields, Idle
<1>5. RequestsOK
  BY <1>2 DEF Init, RequestsOK, Request, NoRequest, Kinds
<1>6. Quiet /\ SendsHaveAuthority
  BY <1>1, <1>2 DEF Init, Quiet, SendsHaveAuthority, Idle, NoRequest
<1>7. StoreAgrees /\ TrustsAgree /\ RemovedTrustsAreForgotten /\ EnabledBrowsersStay
  BY DEF Init, StoreAgrees, TrustsAgree, RemovedTrustsAreForgotten, EnabledBrowsersStay, Active, Subscribed
<1> QED
  BY <1>3, <1>4, <1>5, <1>6, <1>7 DEF Inv

\* What a step leaves alone keeps what is said of it.
LEMMA FrameRequests == RequestsOK /\ UNCHANGED request => RequestsOK'
BY DEF RequestsOK

LEMMA FrameWorkers == WorkersOK /\ UNCHANGED <<worker, dead>> => WorkersOK'
BY DEF WorkersOK

\* An answered request is one no more.
LEMMA DoneKeeps ==
    ASSUME RequestsOK, NEW r \in Requests, Done(r)
    PROVE  RequestsOK' /\ request'[r].at = "done" /\ \A q \in Requests \ {r} : request'[q] = request[q]
<1>1. request' = [request EXCEPT ![r] = [NoRequest EXCEPT !.at = "done"]]
  BY DEF Done
<1>2. [NoRequest EXCEPT !.at = "done"] = [at |-> "done", kind |-> "save", trust |-> None, endpoint |-> None, events |-> {}]
  BY DEF NoRequest
<1> QED
  BY <1>1, <1>2 DEF RequestsOK, Request

-----------------------------------------------------------------------------
\* Starting and ending.
LEMMA StartInv ==
    ASSUME Inv, NEW mode \in {"service", "revoke"}, NEW protected \in BOOLEAN, Start(mode, protected)
    PROVE  Inv'
<1> USE DEF Inv
<1>1. PICK contact \in BOOLEAN, opened \in BOOLEAN, rewritten \in BOOLEAN :
        OpenStore(contact, opened) /\ EnableProtected(rewritten)
  BY DEF Start
<1>2. /\ process = "down" /\ process' = mode /\ signIn' = (mode = "revoke" \/ protected)
      /\ UNCHANGED <<trust, promised, cleaned, queue, pending, worker, request, dead>>
  BY DEF Start, deliver
<1>3. /\ store' = IF ~opened THEN "error" ELSE IF ~file /\ ~contact THEN "none" ELSE "ok"
      /\ file' = (file \/ (opened /\ contact)) /\ authority' = signIn'
  BY <1>1 DEF OpenStore, EnableProtected
<1>4. subs' = subs \/ subs' = Kept
  BY <1>1 DEF EnableProtected
<1>5. /\ subs' \in [Endpoints -> Subscription \cup {None}]
      /\ \A e \in Endpoints : subs'[e] # None => subs'[e] = subs[e]
      /\ \A e \in Endpoints : subs[e] # None /\ subs[e].owner \in Active => subs'[e] = subs[e]
  BY <1>4 DEF Kept, KeptOK
<1>6. SettingsOK' /\ KeptOK'
  BY <1>2, <1>3, <1>5 DEF SettingsOK, KeptOK
<1>7. WorkersOK' /\ RequestsOK'
  BY <1>2, FrameWorkers, FrameRequests
<1>8. Quiet' /\ SendsHaveAuthority'
  BY <1>2 DEF Quiet, SendsHaveAuthority
<1>9. StoreAgrees'
  BY <1>2, <1>3, <1>5 DEF StoreAgrees, SettingsOK
<1>10. TrustsAgree' /\ RemovedTrustsAreForgotten'
  BY <1>2, <1>5 DEF TrustsAgree, RemovedTrustsAreForgotten, Subscribed
<1>11. EnabledBrowsersStay'
  BY <1>2, <1>5 DEF EnabledBrowsersStay, Active, KeptOK
<1> QED
  BY <1>6, <1>7, <1>8, <1>9, <1>10, <1>11

LEMMA EndInv == ASSUME Inv, End PROVE Inv'
<1> USE DEF Inv
<1>1. /\ process' = "down" /\ store' = "none" /\ authority' = FALSE /\ signIn' = FALSE /\ queue' = <<>>
      /\ worker' = [w \in Workers |-> Idle]
      /\ UNCHANGED <<subs, file, trust, promised, cleaned, dead>>
  BY DEF End, kept
<1>2. /\ request' \in [Requests -> Request]
      /\ \A r \in Requests : request'[r].at \in {"new", "done"}
  <2>1. [NoRequest EXCEPT !.at = "done"] = [at |-> "done", kind |-> "save", trust |-> None, endpoint |-> None, events |-> {}]
    BY DEF NoRequest
  <2>2. request' = [r \in Requests |-> IF request[r].at = "new" THEN request[r] ELSE [NoRequest EXCEPT !.at = "done"]]
    BY DEF End
  <2> QED
    BY <2>1, <2>2 DEF RequestsOK, Request
<1>3. \A w \in Workers : worker'[w] = Idle
  BY <1>1
<1>4. SettingsOK' /\ KeptOK' /\ RequestsOK'
  BY <1>1, <1>2 DEF SettingsOK, KeptOK, RequestsOK
<1>5. WorkersOK'
  BY <1>1, <1>3 DEF WorkersOK, WorkerFields, Idle
<1>6. Quiet' /\ SendsHaveAuthority'
  BY <1>1, <1>2, <1>3 DEF Quiet, SendsHaveAuthority, Idle
<1>7. StoreAgrees' /\ TrustsAgree' /\ RemovedTrustsAreForgotten' /\ EnabledBrowsersStay'
  BY <1>1 DEF StoreAgrees, TrustsAgree, RemovedTrustsAreForgotten, EnabledBrowsersStay, Active, Subscribed
<1> QED
  BY <1>4, <1>5, <1>6, <1>7

LEMMA AccessResetInv == ASSUME Inv, AccessReset PROVE Inv'
<1> USE DEF Inv
<1>1. PICK written \in BOOLEAN : /\ subs' = IF written THEN [e \in Endpoints |-> None] ELSE subs
                                 /\ cleaned' = IF written THEN cleaned \cup Active ELSE cleaned
  BY DEF AccessReset
<1>2. /\ process = "down" /\ trust' = [t \in Trusts |-> IF trust[t] = "active" THEN "gone" ELSE trust[t]]
      /\ UNCHANGED <<process, signIn, store, authority, file, promised, queue, worker, request, dead>>
  BY DEF AccessReset, settings, deliver
<1>3. SettingsOK' /\ KeptOK'
  BY <1>1, <1>2 DEF SettingsOK, KeptOK, Active
<1>4. WorkersOK' /\ RequestsOK'
  BY <1>2, FrameWorkers, FrameRequests
<1>5. Quiet' /\ SendsHaveAuthority' /\ StoreAgrees'
  BY <1>1, <1>2 DEF Quiet, SendsHaveAuthority, StoreAgrees
<1>6. TrustsAgree' /\ RemovedTrustsAreForgotten'
  BY <1>1, <1>2 DEF TrustsAgree, RemovedTrustsAreForgotten, Subscribed, Active, KeptOK
<1>7. EnabledBrowsersStay'
  BY <1>2 DEF EnabledBrowsersStay, Active, KeptOK
<1> QED
  BY <1>3, <1>4, <1>5, <1>6, <1>7

LEMMA ResetInv == ASSUME Inv, Reset PROVE Inv'
<1> USE DEF Inv
<1>1. /\ process = "down" /\ file' = FALSE /\ subs' = [e \in Endpoints |-> None] /\ promised' = [t \in Trusts |-> {}]
      /\ UNCHANGED <<process, signIn, store, authority, trust, cleaned, queue, worker, request, dead>>
  BY DEF Reset, settings, deliver
<1>2. SettingsOK' /\ KeptOK' /\ WorkersOK' /\ RequestsOK'
  BY <1>1, FrameWorkers, FrameRequests DEF SettingsOK, KeptOK
<1>3. Quiet' /\ SendsHaveAuthority' /\ StoreAgrees' /\ TrustsAgree'
  BY <1>1 DEF Quiet, SendsHaveAuthority, StoreAgrees, TrustsAgree
<1>4. RemovedTrustsAreForgotten' /\ EnabledBrowsersStay'
  BY <1>1 DEF RemovedTrustsAreForgotten, EnabledBrowsersStay, Active, Subscribed
<1> QED
  BY <1>2, <1>3, <1>4

-----------------------------------------------------------------------------
\* Events and their delivery.

\* A step of the queue alone, while the process runs.
LEMMA QueueInv ==
    ASSUME Inv, process # "down" \/ queue' = <<>>, UNCHANGED <<settings, kept, worker, request, dead>>
    PROVE  Inv'
<1> USE DEF Inv, settings, kept
<1>1. SettingsOK' /\ KeptOK' /\ WorkersOK' /\ RequestsOK'
  BY FrameWorkers, FrameRequests DEF SettingsOK, KeptOK
<1>2. Quiet' /\ SendsHaveAuthority' /\ StoreAgrees' /\ TrustsAgree'
  BY DEF Quiet, SendsHaveAuthority, StoreAgrees, TrustsAgree, Active
<1>3. RemovedTrustsAreForgotten' /\ EnabledBrowsersStay'
  BY DEF RemovedTrustsAreForgotten, EnabledBrowsersStay, Active, Subscribed
<1> QED
  BY <1>1, <1>2, <1>3

LEMMA NoticeInv == ASSUME Inv, Notice PROVE Inv'
BY QueueInv DEF Notice, enqueue

LEMMA GiveUpInv == ASSUME Inv, GiveUp PROVE Inv'
<1> USE DEF Inv
<1>1. dead \subseteq dead' /\ UNCHANGED <<process, signIn, store, authority, subs, file, trust, promised, cleaned, queue, worker, request>>
  BY DEF GiveUp, settings, kept, deliver
<1>2. SettingsOK' /\ KeptOK' /\ WorkersOK' /\ RequestsOK'
  BY <1>1, FrameRequests DEF SettingsOK, KeptOK, WorkersOK
<1>3. Quiet' /\ SendsHaveAuthority' /\ StoreAgrees' /\ TrustsAgree'
  BY <1>1 DEF Quiet, SendsHaveAuthority, StoreAgrees, TrustsAgree, Active
<1>4. RemovedTrustsAreForgotten' /\ EnabledBrowsersStay'
  BY <1>1 DEF RemovedTrustsAreForgotten, EnabledBrowsersStay, Active, Subscribed
<1> QED
  BY <1>2, <1>3, <1>4

\* A step of one worker, and of the queue it takes from.  It begins a send only
\* for a trusted sign-in that is active, when there are any.
LEMMA WorkerInv ==
    ASSUME Inv, process # "down", NEW w \in Workers, NEW next,
           DOMAIN next = WorkerFields, next = [f \in WorkerFields |-> next[f]],
           next.at = "gone" => next.to.endpoint \in dead,
           signIn /\ next.at = "sending" => next.to.owner \in Active,
           worker' = [worker EXCEPT ![w] = next],
           UNCHANGED <<settings, kept, request, dead>>
    PROVE  Inv'
<1> USE DEF Inv, settings, kept
<1>1. worker'[w] = next /\ \A v \in Workers \ {w} : worker'[v] = worker[v]
  BY DEF WorkersOK
<1>2. WorkersOK'
  <2>1. worker' = [v \in Workers |-> worker'[v]]
    BY DEF WorkersOK
  <2>2. ASSUME NEW v \in Workers
        PROVE  /\ DOMAIN worker'[v] = WorkerFields
               /\ worker'[v] = [f \in WorkerFields |-> worker'[v][f]]
               /\ worker'[v].at = "gone" => worker'[v].to.endpoint \in dead'
    <3>1. CASE v = w
      BY <1>1, <3>1
    <3>2. CASE v # w
      BY <1>1, <3>2 DEF WorkersOK
    <3> QED
      BY <3>1, <3>2
  <2> QED
    BY <2>1, <2>2 DEF WorkersOK
<1>3. SettingsOK' /\ KeptOK' /\ RequestsOK'
  BY FrameRequests DEF SettingsOK, KeptOK
<1>4. SendsHaveAuthority'
  BY <1>1 DEF SendsHaveAuthority, Active
<1>5. Quiet' /\ StoreAgrees' /\ TrustsAgree'
  BY DEF Quiet, StoreAgrees, TrustsAgree
<1>6. RemovedTrustsAreForgotten' /\ EnabledBrowsersStay'
  BY DEF RemovedTrustsAreForgotten, EnabledBrowsersStay, Active, Subscribed
<1> QED
  BY <1>2, <1>3, <1>4, <1>5, <1>6

LEMMA DeliverInv == ASSUME Inv, NEW w \in Workers, Deliver(w) PROVE Inv'
<1> DEFINE left == {[endpoint |-> e, owner |-> subs[e].owner] : e \in
                       {e \in Subscribed : /\ store = "ok" /\ Head(queue) \in subs[e].events
                                           /\ authority => subs[e].owner # None}}
           next == [at |-> "next", event |-> Head(queue), to |-> NoTarget, left |-> left]
<1>1. process # "down"
  BY DEF Deliver, Inv, Quiet
<1>2. worker' = [worker EXCEPT ![w] = next] /\ UNCHANGED <<settings, kept, request, dead>>
  BY DEF Deliver
<1> HIDE DEF left
<1>3. DOMAIN next = WorkerFields /\ next = [f \in WorkerFields |-> next[f]] /\ next.at = "next"
  BY DEF WorkerFields
<1> HIDE DEF next
<1> QED
  BY <1>1, <1>2, <1>3, WorkerInv

LEMMA EnterInv == ASSUME Inv, NEW w \in Workers, Enter(w) PROVE Inv'
<1>0. process # "down" /\ authority = signIn /\ UNCHANGED <<settings, kept, request, dead>>
  BY DEF Enter, Inv, Quiet, SettingsOK
<1>1. PICK s \in worker[w].left :
        worker' = [worker EXCEPT ![w].left = @ \ {s},
                                 ![w].to = IF authority => s.owner \in Active THEN s ELSE NoTarget,
                                 ![w].at = IF authority => s.owner \in Active THEN "sending" ELSE "next"]
  BY DEF Enter
<1> DEFINE left == worker[w].left \ {s}
           to == IF authority => s.owner \in Active THEN s ELSE NoTarget
           place == IF authority => s.owner \in Active THEN "sending" ELSE "next"
           next == [worker[w] EXCEPT !.left = left, !.to = to, !.at = place]
<1>2. worker' = [worker EXCEPT ![w] = next]
  BY <1>1 DEF Inv, WorkersOK
<1>3. place \in {"sending", "next"} /\ (signIn /\ place = "sending" => to.owner \in Active)
  BY <1>0
<1> HIDE DEF left, to, place
<1>4. DOMAIN next = WorkerFields /\ next = [f \in WorkerFields |-> next[f]] /\ next.at = place /\ next.to = to
  BY DEF Inv, WorkersOK, WorkerFields
<1> HIDE DEF next
<1> QED
  BY <1>0, <1>2, <1>3, <1>4, WorkerInv

LEMMA SentInv == ASSUME Inv, NEW w \in Workers, Sent(w) PROVE Inv'
<1>0. process # "down" /\ UNCHANGED <<settings, kept, request, dead>>
  BY DEF Sent, Inv, Quiet
<1>1. PICK gone \in BOOLEAN :
        /\ gone => worker[w].to.endpoint \in dead
        /\ worker' = [worker EXCEPT ![w].at = IF gone THEN "gone" ELSE "next",
                                    ![w].to = IF gone THEN @ ELSE NoTarget]
  BY DEF Sent
<1> DEFINE place == IF gone THEN "gone" ELSE "next"
           to == IF gone THEN worker[w].to ELSE NoTarget
           next == [worker[w] EXCEPT !.at = place, !.to = to]
<1>2. worker' = [worker EXCEPT ![w] = next]
  BY <1>1 DEF Inv, WorkersOK
<1>3. place \in {"gone", "next"} /\ (place = "gone" => to.endpoint \in dead)
  BY <1>1
<1> HIDE DEF place, to
<1>4. DOMAIN next = WorkerFields /\ next = [f \in WorkerFields |-> next[f]] /\ next.at = place /\ next.to = to
  BY DEF Inv, WorkersOK, WorkerFields
<1> HIDE DEF next
<1> QED
  BY <1>0, <1>2, <1>3, <1>4, WorkerInv

LEMMA FinishInv == ASSUME Inv, NEW w \in Workers, Finish(w) PROVE Inv'
<1>0. process # "down" /\ worker' = [worker EXCEPT ![w] = Idle] /\ UNCHANGED <<settings, kept, request, dead>>
  BY DEF Finish, Inv, Quiet
<1>1. DOMAIN Idle = WorkerFields /\ Idle = [f \in WorkerFields |-> Idle[f]] /\ Idle.at = "idle"
  BY DEF WorkerFields, Idle
<1> QED
  BY <1>0, <1>1, WorkerInv

\* Removing by endpoint alone takes a subscription only where the push service
\* has given the endpoint up.
LEMMA RemoveGoneInv == ASSUME Inv, NEW w \in Workers, RemoveGone(w) PROVE Inv'
<1> USE DEF Inv
<1> DEFINE gone == worker[w].to.endpoint
           next == [worker[w] EXCEPT !.at = "next", !.to = NoTarget]
<1>0. /\ process # "down" /\ gone \in dead
      /\ UNCHANGED <<process, signIn, store, authority, file, trust, promised, cleaned, queue, request, dead>>
  BY DEF RemoveGone, Quiet, WorkersOK, settings
<1>1. subs' = subs \/ subs' = [subs EXCEPT ![gone] = None]
  BY DEF RemoveGone
<1>2. worker' = [worker EXCEPT ![w] = next]
  BY DEF RemoveGone, WorkersOK
<1>3. DOMAIN next = WorkerFields /\ next = [f \in WorkerFields |-> next[f]] /\ next.at = "next"
  BY DEF WorkersOK, WorkerFields
<1> HIDE DEF next, gone
<1>4. /\ subs' \in [Endpoints -> Subscription \cup {None}]
      /\ \A e \in Endpoints : subs'[e] # None => subs'[e] = subs[e]
      /\ \A e \in Endpoints \ dead : subs'[e] = subs[e]
  BY <1>0, <1>1 DEF KeptOK
<1>5. worker'[w] = next /\ \A v \in Workers \ {w} : worker'[v] = worker[v]
  BY <1>2 DEF WorkersOK
<1>6. WorkersOK'
  <2>1. worker' = [v \in Workers |-> worker'[v]]
    BY <1>2 DEF WorkersOK
  <2>2. ASSUME NEW v \in Workers
        PROVE  /\ DOMAIN worker'[v] = WorkerFields
               /\ worker'[v] = [f \in WorkerFields |-> worker'[v][f]]
               /\ worker'[v].at = "gone" => worker'[v].to.endpoint \in dead'
    <3>1. CASE v = w
      BY <1>3, <1>5, <3>1
    <3>2. CASE v # w
      BY <1>0, <1>5, <3>2 DEF WorkersOK
    <3> QED
      BY <3>1, <3>2
  <2> QED
    BY <2>1, <2>2 DEF WorkersOK
<1>7. SettingsOK' /\ KeptOK' /\ RequestsOK'
  BY <1>0, <1>4, FrameRequests DEF SettingsOK, KeptOK
<1>8. SendsHaveAuthority'
  BY <1>0, <1>3, <1>5 DEF SendsHaveAuthority, Active
<1>9. Quiet' /\ StoreAgrees' /\ TrustsAgree'
  BY <1>0, <1>4 DEF Quiet, StoreAgrees, TrustsAgree
<1>10. RemovedTrustsAreForgotten' /\ EnabledBrowsersStay'
  BY <1>0, <1>4 DEF RemovedTrustsAreForgotten, EnabledBrowsersStay, Active, Subscribed, KeptOK
<1> QED
  BY <1>6, <1>7, <1>8, <1>9, <1>10

-----------------------------------------------------------------------------
\* Requests.

\* A step of one request that changes nothing else; it does not start one while
\* the process is down.
LEMMA RequestInv ==
    ASSUME Inv, process # "down", RequestsOK',
           UNCHANGED <<settings, kept, queue, worker, dead>>
    PROVE  Inv'
<1> USE DEF Inv, settings, kept
<1>1. SettingsOK' /\ KeptOK' /\ WorkersOK'
  BY FrameWorkers DEF SettingsOK, KeptOK
<1>2. Quiet' /\ SendsHaveAuthority' /\ StoreAgrees' /\ TrustsAgree'
  BY DEF Quiet, SendsHaveAuthority, StoreAgrees, TrustsAgree, Active
<1>3. RemovedTrustsAreForgotten' /\ EnabledBrowsersStay'
  BY DEF RemovedTrustsAreForgotten, EnabledBrowsersStay, Active, Subscribed
<1> QED
  BY <1>1, <1>2, <1>3

LEMMA BeginInv == ASSUME Inv, NEW r \in Requests, Begin(r) PROVE Inv'
<1>0. PICK kind \in Offered, t \in Askers, e \in Endpoints, events \in Choices :
        request' = [request EXCEPT ![r] = Asked(kind, t, e, events)]
  BY DEF Begin
<1>1. kind \in {"save", "remove", "revoke", "register"} /\ t \in Trusts \cup {None}
  BY DEF Offered, Askers
<1>2. process # "down" /\ UNCHANGED <<settings, kept, queue, worker, dead>>
  BY DEF Begin, deliver
<1> DEFINE q == Asked(kind, t, e, events)
<1>3. events \in SUBSET Kinds /\ {} \in SUBSET Kinds
  BY ChoicesAreKinds DEF Kinds
<1>4. request' = [request EXCEPT ![r] = q]
  BY <1>0
<1>5. q \in Request /\ (q.kind = "save" => q.endpoint \in Endpoints /\ q.events \in Choices)
  BY <1>1, <1>3 DEF Request, Asked
<1> HIDE DEF q
<1>6. RequestsOK'
  BY <1>4, <1>5 DEF Inv, RequestsOK
<1> QED
  BY <1>2, <1>6, RequestInv

LEMMA PrepareInv == ASSUME Inv, NEW r \in Requests, Prepare(r) PROVE Inv'
<1>1. process # "down" /\ UNCHANGED <<settings, kept, queue, worker, dead>>
  BY DEF Prepare, deliver, Inv, Quiet
<1>2. CASE Done(r)
  BY <1>1, <1>2, DoneKeeps, RequestInv DEF Inv
<1>3. CASE request' = [request EXCEPT ![r].at = "gate"]
  <2>1. RequestsOK'
    BY <1>3 DEF Inv, RequestsOK, Request, Prepare
  <2> QED
    BY <1>1, <2>1, RequestInv
<1> QED
  BY <1>2, <1>3 DEF Prepare

\* A request that changes the subscription of one endpoint and what browsers
\* were told of it.  Whoever was told that notifications are on, and still is,
\* has the subscription.
LEMMA ChangeInv ==
    ASSUME Inv, process # "down", store = "ok" \/ subs' = subs, RequestsOK', NEW e \in Endpoints \cup {None},
           subs' \in [Endpoints -> Subscription \cup {None}],
           \A d \in Endpoints \ {e} : subs'[d] = subs[d],
           e \in Endpoints => subs'[e] \in {None, subs[e]} \/ subs'[e].owner \in Active \cup {None},
           promised' \in [Trusts -> SUBSET Endpoints],
           \A t \in Trusts : promised'[t] \ {e} \subseteq promised[t],
           \A t \in Active : e \in Endpoints /\ e \in promised'[t] \ dead => subs'[e] # None /\ subs'[e].owner = t,
           \A t \in Trusts : trust[t] = "new" => promised'[t] = {},
           UNCHANGED <<settings, file, trust, cleaned, deliver, dead>>
    PROVE  Inv'
<1> USE DEF Inv, settings, deliver
<1>1. SettingsOK' /\ KeptOK' /\ WorkersOK'
  BY FrameWorkers DEF SettingsOK, KeptOK
<1>2. Quiet' /\ SendsHaveAuthority' /\ StoreAgrees' /\ TrustsAgree'
  BY DEF Quiet, SendsHaveAuthority, StoreAgrees, TrustsAgree, Active
<1>3. RemovedTrustsAreForgotten'
  <2>1. None \notin cleaned /\ \A t \in cleaned : t \notin Active
    BY NotificationNames DEF KeptOK, TrustsAgree, Active
  <2> QED
    BY <2>1 DEF RemovedTrustsAreForgotten, Subscribed
<1>4. EnabledBrowsersStay'
  <2> SUFFICES ASSUME NEW t \in Active, NEW d \in promised'[t] \ dead
               PROVE  subs'[d] # None /\ subs'[d].owner = t
    BY DEF EnabledBrowsersStay, Active
  <2>1. t \in Trusts /\ d \in Endpoints
    BY DEF Active
  <2>2. CASE d = e
    BY <2>1, <2>2
  <2>3. CASE d # e
    BY <2>1, <2>3 DEF EnabledBrowsersStay
  <2> QED
    BY <2>2, <2>3
<1> QED
  BY <1>1, <1>2, <1>3, <1>4

LEMMA SaveInv == ASSUME Inv, NEW r \in Requests, Save(r) PROVE Inv'
<1> DEFINE e == request[r].endpoint
           t == request[r].trust
           new == [owner |-> t, events |-> request[r].events]
<1>0. /\ process # "down" /\ RequestsOK' /\ e \in Endpoints /\ request[r].events \in Choices
      /\ UNCHANGED <<settings, file, trust, cleaned, deliver, dead>>
  BY DoneKeeps DEF Save, Alone, Inv, Quiet, RequestsOK
<1>1. CASE UNCHANGED <<subs, promised>>
  BY <1>0, <1>1, RequestInv DEF kept, deliver
<1>2. CASE /\ MayCommit(t) /\ MayUpsert(e, t)
           /\ subs' = [subs EXCEPT ![e] = new]
           /\ promised' = [promised EXCEPT ![t] = @ \cup {e}]
  <2>1. t \in Active /\ t \in Trusts /\ trust[t] # "new"
    BY <1>2 DEF MayCommit, Active
  <2>2. new \in Subscription /\ new # None /\ new.owner = t
    BY <1>0, <2>1, NotificationNames DEF Subscription
  <2> HIDE DEF new, t, e
  <2>3. /\ subs' \in [Endpoints -> Subscription \cup {None}] /\ subs'[e] = new
        /\ \A d \in Endpoints \ {e} : subs'[d] = subs[d]
    BY <1>0, <1>2, <2>2 DEF Inv, KeptOK
  <2>4. /\ promised' \in [Trusts -> SUBSET Endpoints]
        /\ \A u \in Trusts : promised'[u] = IF u = t THEN promised[t] \cup {e} ELSE promised[u]
    BY <1>0, <1>2, <2>1 DEF Inv, KeptOK
  <2>5. \A u \in Active : e \in promised'[u] \ dead => u = t
    BY <1>0, <1>2, <2>4 DEF MayUpsert, Inv, EnabledBrowsersStay, Active
  <2>6. \A u \in Trusts : trust[u] = "new" => promised'[u] = {}
    BY <2>1, <2>4 DEF Inv, TrustsAgree
  <2>7. store = "ok" /\ \A u \in Trusts : promised'[u] \ {e} \subseteq promised[u]
    BY <1>2, <2>4 DEF MayUpsert
  <2>8. subs'[e].owner \in Active \cup {None}
    BY <2>1, <2>2, <2>3
  <2> QED
    BY <1>0, <2>2, <2>3, <2>4, <2>5, <2>6, <2>7, <2>8, ChangeInv
<1> QED
  BY <1>1, <1>2 DEF Save

LEMMA RemoveInv == ASSUME Inv, NEW r \in Requests, Remove(r) PROVE Inv'
<1> DEFINE e == request[r].endpoint
           t == request[r].trust
           owned == store = "ok" /\ subs[e] # None /\ subs[e].owner = t
<1>0. /\ process # "down" /\ RequestsOK' /\ e \in Endpoints \cup {None}
      /\ UNCHANGED <<settings, file, trust, cleaned, deliver, dead>>
  BY DoneKeeps DEF Remove, Alone, Inv, Quiet, RequestsOK, Request
<1>1. CASE UNCHANGED <<subs, promised>>
  BY <1>0, <1>1, RequestInv DEF kept, deliver
<1>2. CASE /\ MayCommit(t)
           /\ subs' = IF owned THEN [subs EXCEPT ![e] = None] ELSE subs
           /\ promised' = [promised EXCEPT ![t] = @ \ {e}]
  <2> HIDE DEF t, e
  <2>1. t \in Trusts
    BY <1>2 DEF MayCommit, Active
  <2>2. /\ subs' \in [Endpoints -> Subscription \cup {None}]
        /\ \A d \in Endpoints \ {e} : subs'[d] = subs[d]
        /\ e \in Endpoints => subs'[e] \in {None, subs[e]}
        /\ e \in Endpoints /\ ~owned => subs'[e] = subs[e]
        /\ store = "ok" \/ subs' = subs
    BY <1>2 DEF Inv, KeptOK
  <2>3. /\ promised' \in [Trusts -> SUBSET Endpoints]
        /\ \A u \in Trusts : promised'[u] = IF u = t THEN promised[t] \ {e} ELSE promised[u]
    BY <1>2, <2>1 DEF Inv, KeptOK
  <2>4. \A u \in Active : e \in Endpoints /\ e \in promised'[u] \ dead => subs'[e] # None /\ subs'[e].owner = u
    <3> SUFFICES ASSUME NEW u \in Active, e \in Endpoints, e \in promised'[u] \ dead
                 PROVE  subs'[e] # None /\ subs'[e].owner = u
      OBVIOUS
    <3>1. u # t /\ e \in promised[u] \ dead
      BY <2>3 DEF Active
    <3>2. subs[e] # None /\ subs[e].owner = u
      BY <3>1 DEF Inv, EnabledBrowsersStay
    <3> QED
      BY <2>2, <3>1, <3>2
  <2>5. /\ \A u \in Trusts : trust[u] = "new" => promised'[u] = {}
        /\ \A u \in Trusts : promised'[u] \ {e} \subseteq promised[u]
    BY <2>3 DEF Inv, TrustsAgree
  <2> QED
    BY <1>0, <2>2, <2>3, <2>4, <2>5, ChangeInv
<1> QED
  BY <1>1, <1>2 DEF Remove

LEMMA UnprotectedInv == ASSUME Inv, NEW r \in Requests, Unprotected(r) PROVE Inv'
<1> DEFINE e == request[r].endpoint
           kind == request[r].kind
           new == IF kind = "save" THEN [owner |-> None, events |-> request[r].events] ELSE None
<1>0. /\ process # "down" /\ RequestsOK' /\ e \in Endpoints \cup {None}
      /\ kind = "save" => e \in Endpoints /\ request[r].events \in Choices
      /\ UNCHANGED <<settings, file, trust, cleaned, deliver, dead>>
  BY DoneKeeps DEF Unprotected, Inv, Quiet, RequestsOK, Request
<1>1. CASE UNCHANGED <<subs, promised>>
  BY <1>0, <1>1, RequestInv DEF kept, deliver
<1>2. CASE /\ store = "ok" /\ subs' = [subs EXCEPT ![e] = new]
           /\ promised' = [u \in Trusts |-> promised[u] \ {e}]
  <2>1. new \in Subscription \cup {None} /\ (new = None \/ new.owner = None)
    BY <1>0 DEF Subscription
  <2> HIDE DEF new, e
  <2>2. /\ subs' \in [Endpoints -> Subscription \cup {None}]
        /\ \A d \in Endpoints \ {e} : subs'[d] = subs[d]
        /\ e \in Endpoints => subs'[e] = new
    BY <1>2, <2>1 DEF Inv, KeptOK
  <2>3. /\ promised' \in [Trusts -> SUBSET Endpoints]
        /\ \A u \in Trusts : promised'[u] = promised[u] \ {e}
    BY <1>2 DEF Inv, KeptOK
  <2>4. /\ \A u \in Active : e \in Endpoints /\ e \in promised'[u] \ dead => subs'[e] # None /\ subs'[e].owner = u
        /\ \A u \in Trusts : trust[u] = "new" => promised'[u] = {}
        /\ \A u \in Trusts : promised'[u] \ {e} \subseteq promised[u]
    BY <2>3 DEF Inv, TrustsAgree, Active
  <2>5. e \in Endpoints => subs'[e] \in {None, subs[e]} \/ subs'[e].owner \in Active \cup {None}
    BY <2>1, <2>2
  <2> QED
    BY <1>0, <1>2, <2>2, <2>3, <2>4, <2>5, ChangeInv
<1>3. CASE \E ok \in BOOLEAN :
              /\ store = "ok"
              /\ subs' = IF ~ok THEN subs ELSE [subs EXCEPT ![e] = new]
              /\ promised' = IF ok THEN [u \in Trusts |-> promised[u] \ {e}] ELSE promised
  BY <1>1, <1>2, <1>3
<1> QED
  BY <1>1, <1>3 DEF Unprotected

\* Removing a trusted sign-in, by a request or by the command.
LEMMA RevokeLockedInv ==
    ASSUME Inv, process # "down", process' \in {"service", "revoke", "waiting"}, RequestsOK', InGate = {},
           NEW t \in Trusts \cup {None}, revokeLocked(t),
           UNCHANGED <<signIn, store, authority, file, promised, dead>>
    PROVE  Inv'
<1> USE DEF Inv
<1> DEFINE theirs == {e \in Subscribed : store = "ok" /\ subs[e].owner = t}
<1>0. worker' = worker
  BY DEF revokeLocked, enqueue, deliver
<1>1. CASE UNCHANGED <<subs, trust, cleaned>>
  <2>1. SettingsOK' /\ KeptOK' /\ WorkersOK' /\ RequestsOK'
    BY <1>0, <1>1, FrameWorkers DEF SettingsOK, KeptOK
  <2>2. Quiet' /\ SendsHaveAuthority' /\ StoreAgrees' /\ TrustsAgree'
    BY <1>0, <1>1 DEF Quiet, SendsHaveAuthority, StoreAgrees, TrustsAgree, Active
  <2>3. RemovedTrustsAreForgotten' /\ EnabledBrowsersStay'
    BY <1>1 DEF RemovedTrustsAreForgotten, EnabledBrowsersStay, Active, Subscribed
  <2> QED
    BY <2>1, <2>2, <2>3
<1>2. ASSUME NEW ok \in BOOLEAN, MayRevoke(t), trust' = [trust EXCEPT ![t] = "gone"],
             store = "error" => ~ok,
             subs' = IF ok THEN [e \in Endpoints |-> IF e \in theirs THEN None ELSE subs[e]] ELSE subs,
             cleaned' = IF ok THEN cleaned \cup {t} ELSE cleaned
      PROVE  Inv'
  <2>1. t \in Trusts /\ trust[t] = "active"
    BY <1>2 DEF MayRevoke, Active
  <2>2. /\ \A e \in Endpoints : subs'[e] = IF ok /\ e \in theirs THEN None ELSE subs[e]
        /\ subs' \in [Endpoints -> Subscription \cup {None}]
    BY <1>2 DEF KeptOK
  <2>3. /\ \A u \in Trusts : trust'[u] = IF u = t THEN "gone" ELSE trust[u]
        /\ trust' \in [Trusts -> {"new", "active", "gone"}]
    BY <1>2, <2>1 DEF KeptOK
  <2>4. SettingsOK' /\ KeptOK' /\ WorkersOK'
    BY <1>0, <1>2, <2>1, <2>2, <2>3, FrameWorkers DEF SettingsOK, KeptOK
  <2>5. Quiet' /\ StoreAgrees' /\ TrustsAgree'
    BY <1>2, <2>1, <2>2, <2>3 DEF Quiet, StoreAgrees, TrustsAgree, KeptOK
  <2>6. SendsHaveAuthority'
    BY <1>0 DEF SendsHaveAuthority, InGate, SettingsOK
  <2>7. RemovedTrustsAreForgotten'
    <3>1. ASSUME NEW e \in Endpoints, subs'[e] # None, ok PROVE subs'[e].owner # t
      BY <1>2, <2>2, <3>1 DEF StoreAgrees, SettingsOK, Subscribed
    <3>2. ASSUME NEW e \in Endpoints, subs'[e] # None PROVE subs'[e].owner \notin cleaned
      BY <2>2, <3>2 DEF RemovedTrustsAreForgotten, Subscribed
    <3> QED
      BY <1>2, <3>1, <3>2 DEF RemovedTrustsAreForgotten, Subscribed
  <2>8. EnabledBrowsersStay'
    BY <2>2, <2>3 DEF EnabledBrowsersStay, Active, KeptOK
  <2> QED
    BY <2>4, <2>5, <2>6, <2>7, <2>8
<1> QED
  BY <1>1, <1>2 DEF revokeLocked

LEMMA RevokeInv == ASSUME Inv, NEW r \in Requests, Revoke(r) PROVE Inv'
<1>1. /\ request[r].at = "gate" /\ InGate = {} /\ revokeLocked(request[r].trust) /\ Done(r)
      /\ UNCHANGED <<process, signIn, store, authority, file, promised, dead>>
  BY DEF Revoke, Alone, settings
<1>2. process \in {"service", "revoke", "waiting"} /\ request[r].trust \in Trusts \cup {None} /\ RequestsOK'
  BY <1>1, DoneKeeps DEF Inv, Quiet, SettingsOK, RequestsOK, Request
<1> QED
  BY <1>1, <1>2, RevokeLockedInv

LEMMA RegisterInv == ASSUME Inv, NEW r \in Requests, Register(r) PROVE Inv'
<1> USE DEF Inv
<1> DEFINE t == request[r].trust
<1>0. /\ process # "down" /\ RequestsOK' /\ worker' = worker
      /\ UNCHANGED <<process, signIn, store, authority, subs, file, promised, cleaned, dead>>
  BY DoneKeeps DEF Register, Alone, Quiet, RequestsOK, settings, deliver, enqueue
<1>1. /\ trust' \in [Trusts -> {"new", "active", "gone"}]
      /\ \A u \in Trusts : trust'[u] = trust[u] \/ (trust[u] = "new" /\ trust'[u] = "active")
  BY DEF Register, KeptOK
<1>2. SettingsOK' /\ KeptOK' /\ WorkersOK'
  BY <1>0, <1>1, FrameWorkers DEF SettingsOK, KeptOK
<1>3. Quiet' /\ SendsHaveAuthority' /\ StoreAgrees' /\ TrustsAgree'
  BY <1>0, <1>1 DEF Quiet, SendsHaveAuthority, StoreAgrees, TrustsAgree, Active, KeptOK
<1>4. RemovedTrustsAreForgotten' /\ EnabledBrowsersStay'
  BY <1>0, <1>1 DEF RemovedTrustsAreForgotten, EnabledBrowsersStay, Active, Subscribed, TrustsAgree
<1> QED
  BY <1>0, <1>2, <1>3, <1>4

LEMMA CommandRevokeInv == ASSUME Inv, CommandRevoke PROVE Inv'
<1>1. PICK t \in Active : revokeLocked(t)
  BY DEF CommandRevoke
<1>2. /\ process = "revoke" /\ process' = "waiting" /\ InGate = {} /\ t \in Trusts \cup {None} /\ RequestsOK'
      /\ UNCHANGED <<signIn, store, authority, file, promised, dead>>
  BY FrameRequests DEF CommandRevoke, Active, Inv
<1> QED
  BY <1>1, <1>2, RevokeLockedInv

-----------------------------------------------------------------------------
LEMMA StutterInv == ASSUME Inv, UNCHANGED vars PROVE Inv'
<1>1. UNCHANGED <<settings, kept, queue, worker, request, dead>>
  BY DEF vars, deliver
<1>2. process # "down" \/ queue' = <<>>
  BY <1>1 DEF Inv, Quiet
<1> QED
  BY <1>1, <1>2, QueueInv

LEMMA NextInv == Inv /\ [Next]_vars => Inv'
<1> SUFFICES ASSUME Inv, [Next]_vars PROVE Inv'
  OBVIOUS
<1>1. ASSUME NEW w \in Workers, WorkerStep(w) PROVE Inv'
  BY <1>1, DeliverInv, EnterInv, SentInv, RemoveGoneInv, FinishInv DEF WorkerStep
<1>2. ASSUME NEW r \in Requests, Begin(r) \/ RequestStep(r) PROVE Inv'
  BY <1>2, BeginInv, PrepareInv, SaveInv, RemoveInv, UnprotectedInv, RevokeInv, RegisterInv DEF RequestStep
<1>3. ASSUME NEW mode \in {"service", "revoke"}, NEW protected \in BOOLEAN, Start(mode, protected) PROVE Inv'
  BY <1>3, StartInv
<1>4. End \/ CommandEnds \/ AccessReset \/ Reset => Inv'
  BY EndInv, AccessResetInv, ResetInv DEF CommandEnds
<1>5. Notice \/ GiveUp \/ CommandRevoke \/ UNCHANGED vars => Inv'
  BY NoticeInv, GiveUpInv, CommandRevokeInv, StutterInv
<1> QED
  BY <1>1, <1>2, <1>3, <1>4, <1>5 DEF Next

LEMMA NotificationsInvariant == Spec => []Inv
BY InitInv, NextInv, PTL DEF Spec

\* With protected access, no push is being sent for a trusted sign-in that is
\* not active (manager.go:82-91, 246-254).
THEOREM SendsHaveAuthorityHolds == Spec => []SendsHaveAuthority
<1>1. Inv => SendsHaveAuthority
  BY DEF Inv
<1> QED
  BY <1>1, NotificationsInvariant, PTL

\* Subscriptions that were reported as cleaned up never come back
\* (server/notifications.go:91-95, store.go:321-346).
THEOREM RemovedTrustsAreForgottenHolds == Spec => []RemovedTrustsAreForgotten
<1>1. Inv => RemovedTrustsAreForgotten
  BY DEF Inv
<1> QED
  BY <1>1, NotificationsInvariant, PTL

\* A browser that was told notifications are on has its subscription until it is
\* told otherwise, its trusted sign-in goes, or its endpoint is given up
\* (store.go:258-319, manager.go:234-269).
THEOREM EnabledBrowsersStayHolds == Spec => []EnabledBrowsersStay
<1>1. Inv => EnabledBrowsersStay
  BY DEF Inv
<1> QED
  BY <1>1, NotificationsInvariant, PTL

=============================================================================
