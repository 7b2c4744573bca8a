--------------------------- MODULE ProjectorProofs ---------------------------
(***************************************************************************)
(* The safety of the projector, for every set of panes, tabs, statuses,    *)
(* Home connections and leases, and every number of changes and breaks.    *)
(*                                                                         *)
(* Following is about the loop and the subscription it reads: what a read  *)
(* still agrees with, and what has been observed since a comparison began. *)
(* Sending is about the subscribers: a channel holds the published state   *)
(* or nothing, and a lease's generation never runs ahead of it.            *)
(***************************************************************************)
EXTENDS Projector, TLAPS

Notices == [status : SUBSET Panes, opened : SUBSET Tabs, closed : SUBSET Tabs]

LoopTypes ==
    /\ backend \in {"tui", "core"} /\ herdr \in {"up", "down", "old"}
    /\ world \in Snapshot /\ candidate \in Snapshot
    /\ stream \in {"none", "open", "broken", "lost"}
    /\ unread \in BOOLEAN /\ changed \in BOOLEAN /\ refresh \in BOOLEAN /\ baseline \in BOOLEAN
    /\ pc \in {"retry", "subscribe", "take", "read", "check", "settle", "wait"}
    /\ basis \subseteq Panes /\ state \in State /\ moved \subseteq Panes
    /\ watch \in [previous : Snapshot \cup {None}, notices : Notices]

\* No event is on its way to the loop.
Silent == stream = "open" /\ ~unread /\ ~changed

\* The panes whose changes the subscription announces, their coming and going
\* aside.
Watched == IF backend = "core" THEN Panes ELSE basis

\* A read agrees with Herdr in what the subscription announces.
Agrees(snapshot) ==
    \A p \in Panes : /\ snapshot[p] = None <=> world[p] = None
                     /\ p \in Watched => snapshot[p] = world[p]

ReadsAgree ==
    /\ pc = "check" /\ Silent => Agrees(candidate)
    /\ pc \in {"settle", "wait"} => /\ state.connection = "live" /\ PanesOf(state.snapshot) \subseteq Watched
                                    /\ Silent => state.snapshot = world

\* What has not moved is as the read before showed it, and as the last one does.
ComparisonAgrees ==
    /\ pc = "check" => \A p \in Panes \ moved : candidate[p] = world[p]
    /\ ~baseline /\ watch.previous # None => \A p \in Panes \ moved : watch.previous[p] = world[p]
    /\ pc \notin {"settle", "subscribe"} => watch.notices = NoNotices

Following == LoopTypes /\ ReadsAgree /\ ComparisonAgrees /\ NoticesAreWitnessed

loopVars == <<backend, herdr, world, stream, unread, changed, refresh, loop, state, watch, moved>>

-----------------------------------------------------------------------------
LEMMA InitFollowing == Init => Following
<1> SUFFICES ASSUME Init PROVE Following
  OBVIOUS
<1>1. NoNotices \in Notices
  BY DEF NoNotices, Notices
<1>2. LoopTypes
  BY <1>1 DEF Init, LoopTypes, Snapshot, State
<1>3. ReadsAgree /\ ComparisonAgrees /\ NoticesAreWitnessed
  BY <1>1 DEF Init, ReadsAgree, ComparisonAgrees, NoticesAreWitnessed, NoNotices
<1> QED
  BY <1>2, <1>3 DEF Following

\* The states that the loop publishes.
LEMMA PublishedTypes ==
    ASSUME LoopTypes
    PROVE  /\ \A kind \in {"incompatible", "not_running"} :
                [state EXCEPT !.connection = kind, !.gap = IF state.connection = "live" THEN @ + 1 ELSE @,
                              !.lastKnown = state.hasHome] \in State
           /\ [state EXCEPT !.connection = "reconnecting", !.gap = @ + 1, !.lastKnown = state.hasHome] \in State
           /\ \A snapshot \in Snapshot :
                [state EXCEPT !.connection = "live", !.hasHome = TRUE, !.lastKnown = FALSE, !.snapshot = snapshot] \in State
<1>0. state \in State /\ state.gap \in Nat /\ state.hasHome \in BOOLEAN
  BY DEF LoopTypes, State
<1>1. ASSUME NEW kind \in {"incompatible", "not_running"}
      PROVE  [state EXCEPT !.connection = kind, !.gap = IF state.connection = "live" THEN @ + 1 ELSE @,
                           !.lastKnown = state.hasHome] \in State
  <2> DEFINE gap == IF state.connection = "live" THEN state.gap + 1 ELSE state.gap
  <2>1. gap \in Nat
    BY <1>0
  <2> HIDE DEF gap
  <2>2. [state EXCEPT !.connection = kind, !.gap = gap, !.lastKnown = state.hasHome] \in State
    BY <1>0, <2>1 DEF State
  <2> QED
    BY <2>2 DEF gap
<1>2. [state EXCEPT !.connection = "reconnecting", !.gap = @ + 1, !.lastKnown = state.hasHome] \in State
  <2>1. PICK gap \in Nat : gap = state.gap + 1
    BY <1>0
  <2>2. [state EXCEPT !.connection = "reconnecting", !.gap = gap, !.lastKnown = state.hasHome] \in State
    BY <1>0 DEF State
  <2> QED
    BY <2>1, <2>2
<1>3. ASSUME NEW snapshot \in Snapshot
      PROVE  [state EXCEPT !.connection = "live", !.hasHome = TRUE, !.lastKnown = FALSE, !.snapshot = snapshot] \in State
  BY <1>0 DEF State
<1> QED
  BY <1>1, <1>2, <1>3

LEMMA PublishTypes ==
    ASSUME LoopTypes, markGap \/ publishError(ErrorKind) \/ publishHome(candidate)
    PROVE  state' \in State
<1>1. CASE markGap
  <2>1. state' = [state EXCEPT !.connection = "reconnecting", !.gap = @ + 1, !.lastKnown = state.hasHome]
    BY <1>1 DEF markGap, publishLocked
  <2> QED
    BY <2>1, PublishedTypes
<1>2. CASE publishError(ErrorKind)
  <2>1. PICK kind \in {"incompatible", "not_running"} : kind = ErrorKind
    BY DEF ErrorKind
  <2>2. state' = [state EXCEPT !.connection = kind, !.gap = IF state.connection = "live" THEN @ + 1 ELSE @,
                               !.lastKnown = state.hasHome]
    BY <1>2, <2>1 DEF publishError, publishLocked
  <2> QED
    BY <2>2, PublishedTypes
<1>3. CASE publishHome(candidate)
  <2>1. state' = [state EXCEPT !.connection = "live", !.hasHome = TRUE, !.lastKnown = FALSE, !.snapshot = candidate]
    BY <1>3 DEF publishHome, publishLocked
  <2> QED
    BY <2>1, PublishedTypes DEF LoopTypes
<1> QED
  BY <1>1, <1>2, <1>3

-----------------------------------------------------------------------------
\* The loop.
LEMMA SetupFollowing == ASSUME Following, Setup PROVE Following'
<1> USE DEF Following
<1>1. state' \in State
  BY PublishTypes DEF Setup, LoopTypes, loop
<1>2. LoopTypes'
  BY <1>1 DEF Setup, LoopTypes, loop, marks, rest, PanesOf
<1>3. ReadsAgree' /\ ComparisonAgrees' /\ NoticesAreWitnessed'
  BY DEF Setup, ReadsAgree, ComparisonAgrees, NoticesAreWitnessed, loop, marks, rest
<1> QED
  BY <1>2, <1>3

LEMMA NoNoticesIsNotices == NoNotices \in Notices
BY DEF NoNotices, Notices

LEMMA SubscribeFollowing == ASSUME Following, Subscribe PROVE Following'
<1> USE DEF Following
<1>1. state' \in State
  BY PublishTypes DEF Subscribe, LoopTypes
<1>2. watch' = [watch EXCEPT !.notices = NoNotices] /\ pc' \in {"take", "retry"}
  BY DEF Subscribe, NoticesQueued
<1>3. watch' \in [previous : Snapshot \cup {None}, notices : Notices] /\ watch'.notices = NoNotices
      /\ watch'.previous = watch.previous
  BY <1>2, NoNoticesIsNotices DEF LoopTypes
<1>4. LoopTypes'
  BY <1>1, <1>3 DEF Subscribe, LoopTypes
<1>5. ReadsAgree' /\ ComparisonAgrees' /\ NoticesAreWitnessed'
  BY <1>2, <1>3 DEF Subscribe, ReadsAgree, ComparisonAgrees, NoticesAreWitnessed, NoNotices
<1> QED
  BY <1>4, <1>5

LEMMA TakeFollowing == ASSUME Following, Take PROVE Following'
BY DEF Following, Take, LoopTypes, ReadsAgree, ComparisonAgrees, NoticesAreWitnessed, rest

LEMMA ReadFollowing == ASSUME Following, Read PROVE Following'
<1> USE DEF Following
<1>1. CASE /\ candidate' = world /\ pc' = "check" /\ moved' = IF baseline THEN {} ELSE moved
           /\ UNCHANGED <<herdr, world, refresh, backend, watch, basis, baseline, stream, unread, changed, state>>
  <2>1. LoopTypes'
    BY <1>1 DEF LoopTypes
  <2>2. ReadsAgree'
    BY <1>1 DEF ReadsAgree, Agrees, Silent, Watched
  <2>3. watch.notices = NoNotices
    BY DEF Read, ComparisonAgrees
  <2>4. ComparisonAgrees' /\ NoticesAreWitnessed'
    BY <1>1, <2>3 DEF ComparisonAgrees, NoticesAreWitnessed, NoNotices, LoopTypes
  <2> QED
    BY <2>1, <2>2, <2>4
<1>2. CASE /\ Unsubscribed /\ publishError(ErrorKind) /\ Retry
           /\ UNCHANGED <<herdr, world, refresh, backend, watch, moved>>
  <2>1. state' \in State
    BY <1>2, PublishTypes
  <2>2. LoopTypes'
    BY <1>2, <2>1 DEF LoopTypes, Unsubscribed, Retry
  <2>3. watch.notices = NoNotices
    BY DEF Read, ComparisonAgrees
  <2>4. ReadsAgree' /\ ComparisonAgrees' /\ NoticesAreWitnessed'
    BY <1>2, <2>3 DEF ReadsAgree, ComparisonAgrees, NoticesAreWitnessed, Retry, NoNotices
  <2> QED
    BY <2>2, <2>4
<1> QED
  BY <1>1, <1>2 DEF Read

\* What two reads differ in has moved in between.
LEMMA ObserveWitnessed ==
    ASSUME LoopTypes, ComparisonAgrees, pc = "check", Observe(candidate), UNCHANGED moved
    PROVE  /\ watch' \in [previous : Snapshot \cup {None}, notices : Notices]
           /\ watch'.previous = candidate
           /\ NoticesAreWitnessed'
<1> DEFINE compared == Compare(watch.previous, candidate)
<1>1. CASE baseline \/ watch.previous = None
  BY <1>1, NoNoticesIsNotices DEF Observe, LoopTypes, NoticesAreWitnessed, NoNotices
<1>2. CASE ~(baseline \/ watch.previous = None)
  <2>1. watch' = [previous |-> candidate, notices |-> compared]
    BY <1>2 DEF Observe
  <2>2. watch.previous \in Snapshot /\ candidate \in Snapshot /\ \A p \in Panes \ moved : watch.previous[p] = candidate[p]
    BY <1>2 DEF LoopTypes, ComparisonAgrees
  <2>3. compared \in Notices
    BY <2>2 DEF Compare, Notices, Snapshot, Present, PanesOf, TabsOf
  <2>4. compared.status \subseteq moved
    BY <2>2 DEF Compare, PanesOf
  <2>5. moved = {} => compared = NoNotices
    <3>1. moved = {} => watch.previous = candidate
      BY <2>2 DEF Snapshot
    <3> QED
      BY <3>1 DEF Compare, NoNotices
  <2> HIDE DEF compared
  <2> QED
    BY <2>1, <2>2, <2>3, <2>4, <2>5 DEF NoticesAreWitnessed
<1> QED
  BY <1>1, <1>2

LEMMA CheckFollowing == ASSUME Following, Check PROVE Following'
<1> USE DEF Following
<1>0. pc = "check" /\ UNCHANGED <<herdr, world, refresh, backend, moved>>
  BY DEF Check
<1>1. CASE Unsubscribed /\ markGap /\ Retry /\ UNCHANGED watch
  <2>1. LoopTypes'
    BY <1>0, <1>1, PublishTypes DEF LoopTypes, Unsubscribed, Retry
  <2>2. ReadsAgree' /\ ComparisonAgrees' /\ NoticesAreWitnessed'
    BY <1>0, <1>1 DEF ReadsAgree, ComparisonAgrees, NoticesAreWitnessed, Retry
  <2> QED
    BY <2>1, <2>2
<1>2. CASE /\ Observe(candidate) /\ Unsubscribed
           /\ basis' = PanesOf(candidate) /\ baseline' = TRUE /\ pc' = "subscribe"
           /\ UNCHANGED <<candidate, state>>
  <2>1. LoopTypes'
    BY <1>0, <1>2, ObserveWitnessed DEF LoopTypes, Unsubscribed, PanesOf
  <2>2. ReadsAgree' /\ ComparisonAgrees' /\ NoticesAreWitnessed'
    BY <1>0, <1>2, ObserveWitnessed DEF ReadsAgree, ComparisonAgrees
  <2> QED
    BY <2>1, <2>2
<1>3. CASE /\ backend = "tui" => subscriptionCoversSnapshot(basis, candidate)
           /\ Observe(candidate) /\ publishHome(candidate)
           /\ baseline' = FALSE /\ pc' = "settle"
           /\ UNCHANGED <<basis, candidate, stream, unread, changed>>
  <2>1. LoopTypes'
    BY <1>0, <1>3, ObserveWitnessed, PublishTypes DEF LoopTypes
  <2>2. state'.connection = "live" /\ state'.snapshot = candidate
    BY <1>3 DEF publishHome, publishLocked, LoopTypes, State
  <2>3. PanesOf(candidate) \subseteq Watched
    BY <1>3 DEF subscriptionCoversSnapshot, Watched, PanesOf, LoopTypes
  <2>4. Silent => candidate = world
    <3> SUFFICES ASSUME Silent PROVE candidate = world
      OBVIOUS
    <3>1. Agrees(candidate)
      BY <1>0 DEF ReadsAgree
    <3>2. \A p \in Panes : candidate[p] = world[p]
      BY <2>3, <3>1 DEF Agrees, PanesOf
    <3> QED
      BY <3>2 DEF LoopTypes, Snapshot
  <2>5. ReadsAgree'
    BY <1>0, <1>3, <2>2, <2>3, <2>4 DEF ReadsAgree, Silent, Watched, PanesOf
  <2>6. ComparisonAgrees' /\ NoticesAreWitnessed'
    BY <1>0, <1>3, ObserveWitnessed DEF ComparisonAgrees
  <2> QED
    BY <2>1, <2>5, <2>6
<1> QED
  BY <1>1, <1>2, <1>3 DEF Check

LEMMA SettleFollowing == ASSUME Following, Settle PROVE Following'
<1> USE DEF Following
<1>1. watch' = [watch EXCEPT !.notices = NoNotices] /\ pc' \in {"take", "wait"}
  BY DEF Settle, NoticesQueued
<1>2. watch' \in [previous : Snapshot \cup {None}, notices : Notices] /\ watch'.notices = NoNotices
      /\ watch'.previous = watch.previous
  BY <1>1, NoNoticesIsNotices DEF LoopTypes
<1>3. LoopTypes'
  BY <1>2 DEF Settle, LoopTypes
<1>4. ReadsAgree'
  BY DEF Settle, ReadsAgree, Silent, Watched, PanesOf, LoopTypes
<1>5. ComparisonAgrees' /\ NoticesAreWitnessed'
  BY <1>1, <1>2 DEF Settle, ComparisonAgrees, NoticesAreWitnessed, NoNotices
<1> QED
  BY <1>3, <1>4, <1>5

LEMMA WakeFollowing == ASSUME Following, Wake PROVE Following'
BY DEF Following, Wake, LoopTypes, ReadsAgree, ComparisonAgrees, NoticesAreWitnessed, rest, marks

LEMMA LoseFollowing == ASSUME Following, Lose PROVE Following'
<1> USE DEF Following
<1>1. LoopTypes'
  BY PublishTypes DEF Lose, LoopTypes, Unsubscribed, Retry, rest
<1>2. ReadsAgree' /\ ComparisonAgrees' /\ NoticesAreWitnessed'
  BY DEF Lose, ReadsAgree, ComparisonAgrees, NoticesAreWitnessed, Retry, rest
<1> QED
  BY <1>1, <1>2

-----------------------------------------------------------------------------
\* What happens beside the loop.
LEMMA SignalsFollowing == ASSUME Following, RequestRefresh \/ Deliver \/ Notice PROVE Following'
<1> USE DEF Following, loop, rest, marks
<1>1. LoopTypes'
  <2>1. RequestRefresh => LoopTypes'
    BY DEF LoopTypes, RequestRefresh
  <2>2. Deliver => LoopTypes'
    BY DEF LoopTypes, Deliver
  <2>3. Notice => LoopTypes'
    BY DEF LoopTypes, Notice
  <2> QED
    BY <2>1, <2>2, <2>3
<1>2. ReadsAgree'
  BY DEF ReadsAgree, Silent, Agrees, Watched, PanesOf, LoopTypes, RequestRefresh, Deliver, Notice
<1>3. ComparisonAgrees' /\ NoticesAreWitnessed'
  BY DEF ComparisonAgrees, NoticesAreWitnessed, RequestRefresh, Deliver, Notice
<1> QED
  BY <1>1, <1>2, <1>3

\* Herdr changes one pane.  The loop is told, unless the pane only reports
\* another status and the subscription does not name it.
LEMMA ChangeFollowing ==
    ASSUME Following, NEW p \in Panes, NEW now \in Present \cup {None}, NEW told \in BOOLEAN,
           world' = [world EXCEPT ![p] = now], Event(told), moved' = moved \cup {p},
           ~told => p \notin Watched /\ world[p] # None /\ now # None,
           UNCHANGED <<herdr, stream, marks, loop, state, backend, watch>>
    PROVE  Following'
<1> USE DEF Following, loop, marks
<1>1. world' \in Snapshot /\ world'[p] = now /\ \A q \in Panes \ {p} : world'[q] = world[q]
  BY DEF LoopTypes, Snapshot
<1>2. unread' \in BOOLEAN /\ (stream = "open" /\ ~unread' => ~unread /\ ~told)
  BY DEF Event, LoopTypes
<1>3. LoopTypes'
  BY <1>1, <1>2 DEF LoopTypes
<1>4. ReadsAgree'
  <2>1. CASE Silent'
    <3>1. Silent /\ ~told
      BY <1>2, <2>1 DEF Silent
    <3>2. pc = "check" => Agrees(candidate)'
      BY <1>1, <3>1 DEF ReadsAgree, Agrees, Watched
    <3>3. pc \notin {"settle", "wait"}
      BY <3>1 DEF ReadsAgree, PanesOf, LoopTypes
    <3> QED
      BY <3>2, <3>3 DEF ReadsAgree
  <2>2. CASE ~Silent'
    BY <2>2 DEF ReadsAgree, Watched, PanesOf
  <2> QED
    BY <2>1, <2>2
<1>5. ComparisonAgrees'
  BY <1>1 DEF ComparisonAgrees
<1>6. NoticesAreWitnessed'
  BY DEF NoticesAreWitnessed
<1> QED
  BY <1>3, <1>4, <1>5, <1>6

LEMMA HerdrFollowing ==
    ASSUME Following,
           NEW p \in Panes, NEW now \in Present \cup {None}, NEW s \in Statuses,
           Structural(p, now) \/ StatusChange(p, s)
    PROVE  Following'
<1>1. CASE Structural(p, now)
  BY <1>1, ChangeFollowing DEF Structural
<1>2. CASE StatusChange(p, s)
  <2> DEFINE new == <<world[p][1], s>>
             told == backend = "core" \/ p \in basis
  <2>1. world[p] \in Present /\ world[p] # None
    BY <1>2 DEF StatusChange, Following, LoopTypes, Snapshot
  <2>2. new \in Present \cup {None} /\ told \in BOOLEAN /\ (~told => p \notin Watched)
    BY <2>1 DEF Present, Watched
  <2>3. /\ world' = [world EXCEPT ![p] = new] /\ Event(told) /\ moved' = moved \cup {p}
        /\ UNCHANGED <<herdr, stream, marks, loop, state, backend, watch>>
    BY <1>2 DEF StatusChange
  <2>4. new # None
    BY <2>1, ProjectorNames DEF Present
  <2> HIDE DEF new, told
  <2> QED
    BY <2>1, <2>2, <2>3, <2>4, ChangeFollowing
<1> QED
  BY <1>1, <1>2

LEMMA BreakFollowing == ASSUME Following, NEW to \in {"up", "down", "old"}, Break(to) PROVE Following'
<1> USE DEF Following, loop, marks
<1>0. /\ herdr' \in {"up", "down", "old"} /\ unread' \in BOOLEAN
      /\ stream' \in {"none", "broken", "lost"}
      /\ UNCHANGED <<world, changed, refresh, state, backend, watch, moved>>
  BY DEF LoopTypes, Break, Broken
<1>1. LoopTypes' /\ stream' # "open"
  BY <1>0 DEF LoopTypes, Break
<1>2. ReadsAgree'
  BY <1>1 DEF ReadsAgree, Silent, Watched, PanesOf, Break
<1>3. ComparisonAgrees' /\ NoticesAreWitnessed'
  BY DEF ComparisonAgrees, NoticesAreWitnessed, Break
<1> QED
  BY <1>1, <1>2, <1>3

LEMMA ReturnFollowing == ASSUME Following, Return PROVE Following'
<1> USE DEF Following, loop, marks
<1>1. PICK kept \in SUBSET PanesOf(world) : world' = [q \in Panes |-> IF q \in kept THEN world[q] ELSE None]
  BY DEF Return
<1>2. /\ world' \in Snapshot /\ moved' \subseteq Panes /\ stream' # "open"
      /\ stream' \in {"none", "open", "broken", "lost"}
      /\ \A p \in Panes \ moved' : p \notin moved /\ world'[p] = world[p]
  BY <1>1 DEF LoopTypes, Snapshot, Return, Broken
<1>3. LoopTypes'
  BY <1>2 DEF LoopTypes, Return
<1>4. ReadsAgree'
  BY <1>2 DEF ReadsAgree, Silent, Watched, PanesOf, Return
<1>5. ComparisonAgrees' /\ NoticesAreWitnessed'
  BY <1>2 DEF ComparisonAgrees, NoticesAreWitnessed, Return
<1> QED
  BY <1>3, <1>4, <1>5

\* Subscribers have no part in it.
LEMMA SubscribersFollowing ==
    ASSUME Following, UNCHANGED <<herdr, world, stream, unread, marks, loop, state, backend, watch, moved>>
    PROVE  Following'
BY DEF Following, LoopTypes, ReadsAgree, Silent, Agrees, Watched, PanesOf, ComparisonAgrees, NoticesAreWitnessed,
       marks, loop

LEMMA NextFollowing == Following /\ [Next]_vars => Following'
<1> SUFFICES ASSUME Following, [Next]_vars PROVE Following'
  OBVIOUS
<1>1. Loop => Following'
  BY SetupFollowing, SubscribeFollowing, TakeFollowing, ReadFollowing, CheckFollowing, SettleFollowing,
     WakeFollowing, LoseFollowing DEF Loop
<1>2. RequestRefresh \/ Deliver \/ Notice \/ Return => Following'
  BY SignalsFollowing, ReturnFollowing
<1>3. ASSUME NEW p \in Panes, NEW now \in Present \cup {None}, Structural(p, now) PROVE Following'
  BY <1>3, ChangeFollowing DEF Structural
<1>4. ASSUME NEW p \in Panes, NEW s \in Statuses, StatusChange(p, s) PROVE Following'
  BY <1>4, HerdrFollowing
<1>5. ASSUME NEW to \in {"up", "down", "old"}, Break(to) PROVE Following'
  BY <1>5, BreakFollowing
<1>6. ASSUME NEW h \in Homes, HomeOpen(h) \/ HomeSend(h) \/ HomeClose(h) PROVE Following'
  BY <1>6, SubscribersFollowing DEF HomeOpen, HomeSend, HomeClose, rest
<1>7. ASSUME NEW l \in Leases, NEW p \in Panes, Watch(l) \/ Close(l) \/ Acquire(l, p) PROVE Following'
  BY <1>7, SubscribersFollowing DEF Watch, Close, Acquire, rest
<1>8. ASSUME NEW l \in Leases, Watch(l) \/ Close(l) PROVE Following'
  BY <1>8, SubscribersFollowing DEF Watch, Close, rest
<1>9. UNCHANGED vars => Following'
  BY SubscribersFollowing DEF vars, rest
<1> QED
  BY <1>1, <1>2, <1>3, <1>4, <1>5, <1>6, <1>7, <1>8, <1>9 DEF Next

LEMMA AlwaysFollowing == Spec => []Following
BY InitFollowing, NextFollowing, PTL DEF Spec

-----------------------------------------------------------------------------
\* A channel holds the published state or nothing, and nothing for one who does
\* not listen.
ChannelsAgree ==
    /\ channel \in [Subscribers -> State \cup {None}] /\ shown \in [Homes -> State \cup {None}]
    /\ \A s \in Subscribers : channel[s] # None => channel[s] = state /\ s \in Listening
    /\ HomesAreSentTheNewest

\* While a lease has met no gap, Home is live; once it has, its generation is
\* over.
GenerationsAgree ==
    /\ lease \in [Leases -> LeaseOf \cup {None}] /\ crossed \subseteq Leases
    /\ \A l \in Leases : Held(l) => lease[l].target.generation <= state.gap
    /\ \A l \in Leases \ crossed : Held(l) => state.connection = "live"
    /\ \A l \in crossed : /\ Held(l) /\ lease[l].target.generation < state.gap
                          /\ channel[l] = None => lease[l].done

Sending == ChannelsAgree /\ GenerationsAgree

LEMMA InitSending == Init => Sending
BY DEF Init, Sending, ChannelsAgree, GenerationsAgree, HomesAreSentTheNewest, Held

\* What is published reaches every listener, and begins a new generation when it
\* ends that Home is live.
LEMMA PublishSending ==
    ASSUME Sending, state \in State, NEW next \in State, publishLocked(next),
           next.gap >= state.gap,
           next.connection # "live" /\ state.connection = "live" => next.gap > state.gap
    PROVE  Sending'
<1> USE DEF Sending
<1>1. /\ state' = next /\ shown' = shown /\ lease' = lease
      /\ crossed' = crossed \cup {l \in Leases : Held(l) /\ next.connection # "live"}
      /\ channel' = IF next = state THEN channel
                    ELSE [s \in Subscribers |-> IF s \in Listening THEN next ELSE channel[s]]
      /\ state.gap \in Nat /\ next.gap \in Nat
  BY DEF publishLocked, State
<1>2. Listening' = Listening /\ \A l \in Leases : Held(l)' = Held(l)
  BY <1>1 DEF Listening, Held
<1>3. ASSUME NEW s \in Subscribers
      PROVE  /\ channel'[s] # None => channel'[s] = next /\ s \in Listening
             /\ s \in Listening /\ next # state => channel'[s] = next
             /\ next = state \/ s \notin Listening => channel'[s] = channel[s]
  BY <1>1 DEF ChannelsAgree
<1>4. next # None
  BY ProjectorNames
<1>5. ChannelsAgree'
  <2>1. channel' \in [Subscribers -> State \cup {None}]
    BY <1>1 DEF ChannelsAgree
  <2>2. ASSUME NEW h \in Homes, shown[h] # None, channel'[h] = None PROVE shown[h] = next
    BY <1>3, <1>4, <2>2 DEF ChannelsAgree, HomesAreSentTheNewest, Listening, Subscribers
  <2> QED
    BY <1>1, <1>2, <1>3, <2>1, <2>2 DEF ChannelsAgree, HomesAreSentTheNewest
<1>6. GenerationsAgree'
  <2>1. lease' \in [Leases -> LeaseOf \cup {None}] /\ crossed' \subseteq Leases
    BY <1>1 DEF GenerationsAgree
  <2>2. ASSUME NEW l \in Leases, Held(l)
        PROVE  lease[l].target.generation \in Nat /\ lease[l].target.generation <= state.gap
    BY <2>2 DEF GenerationsAgree, LeaseOf, Held
  <2>3. ASSUME NEW l \in Leases, Held(l) PROVE lease[l].target.generation <= next.gap
    BY <1>1, <2>2, <2>3
  <2>4. ASSUME NEW l \in Leases \ crossed', Held(l) PROVE next.connection = "live"
    BY <1>1, <2>4
  <2>5. ASSUME NEW l \in crossed'
        PROVE  Held(l) /\ lease[l].target.generation < next.gap /\ (channel'[l] = None => lease[l].done)
    <3>1. l \in Leases /\ Held(l) /\ l \in Listening /\ l \in Subscribers
      BY <1>1, <2>5 DEF GenerationsAgree, Listening, Subscribers
    <3>2. CASE l \in crossed
      BY <1>1, <1>3, <1>4, <2>2, <3>1, <3>2 DEF GenerationsAgree
    <3>3. CASE l \notin crossed
      <4>1. next.connection # "live" /\ state.connection = "live"
        BY <1>1, <2>5, <3>1, <3>3 DEF GenerationsAgree
      <4>2. next # state /\ next.gap > state.gap
        BY <4>1
      <4> QED
        BY <1>1, <1>3, <1>4, <2>2, <3>1, <4>2
    <3> QED
      BY <3>2, <3>3
  <2> QED
    BY <1>1, <1>2, <2>1, <2>3, <2>4, <2>5 DEF GenerationsAgree
<1> QED
  BY <1>5, <1>6

LEMMA PublishedSending ==
    ASSUME Sending, LoopTypes, markGap \/ publishError(ErrorKind) \/ publishHome(candidate)
    PROVE  Sending'
<1>0. state \in State /\ state.gap \in Nat
  BY DEF LoopTypes, State
<1>1. PICK next : publishLocked(next) /\ (\/ next = [state EXCEPT !.connection = "reconnecting", !.gap = @ + 1, !.lastKnown = state.hasHome]
                                          \/ next = [state EXCEPT !.connection = ErrorKind,
                                                       !.gap = IF state.connection = "live" THEN @ + 1 ELSE @,
                                                       !.lastKnown = state.hasHome]
                                          \/ next = [state EXCEPT !.connection = "live", !.hasHome = TRUE,
                                                       !.lastKnown = FALSE, !.snapshot = candidate])
  BY DEF markGap, publishError, publishHome
<1>2. next = state'
  BY <1>1 DEF publishLocked
<1>3. next \in State
  BY <1>2, PublishTypes
<1>4. /\ next.gap = state.gap + 1 \/ (next.gap = state.gap /\ (next.connection = "live" \/ state.connection # "live"))
  BY <1>0, <1>1 DEF State
<1>5. next.gap >= state.gap /\ (next.connection # "live" /\ state.connection = "live" => next.gap > state.gap)
  BY <1>0, <1>4
<1> QED
  BY <1>0, <1>1, <1>3, <1>5, PublishSending

-----------------------------------------------------------------------------
\* The loop publishes, or leaves the subscribers alone.
LEMMA LoopSending ==
    ASSUME Sending, LoopTypes, Loop \/ RequestRefresh \/ Deliver \/ Notice \/ Return
    PROVE  Sending'
<1>1. \/ markGap \/ publishError(ErrorKind) \/ publishHome(candidate)
      \/ UNCHANGED <<state, subs>>
  BY DEF Loop, Setup, Subscribe, Take, Read, Check, Settle, Wake, Lose, RequestRefresh, Deliver, Notice, Return
<1>2. CASE UNCHANGED <<state, subs>>
  BY <1>2 DEF subs, Sending, ChannelsAgree, GenerationsAgree, HomesAreSentTheNewest, Listening, Held
<1> QED
  BY <1>1, <1>2, PublishedSending

LEMMA OthersSending ==
    ASSUME Sending, UNCHANGED <<state, subs>>
    PROVE  Sending'
BY DEF subs, Sending, ChannelsAgree, GenerationsAgree, HomesAreSentTheNewest, Listening, Held

LEMMA HomeSending ==
    ASSUME Sending, LoopTypes, NEW h \in Homes, HomeOpen(h) \/ HomeSend(h) \/ HomeClose(h)
    PROVE  Sending'
<1> USE DEF Sending
<1>0. state \in State /\ h \in Subscribers /\ h \notin Leases /\ UNCHANGED <<state, lease, crossed>>
  BY ProjectorNames DEF LoopTypes, Subscribers, HomeOpen, HomeSend, HomeClose
<1>1. PICK now \in State \cup {None} : shown' = [shown EXCEPT ![h] = now]
  BY <1>0 DEF HomeOpen, HomeSend, HomeClose, ChannelsAgree
<1>2. PICK held \in State \cup {None} : channel' = [channel EXCEPT ![h] = held]
  BY <1>0 DEF HomeOpen, HomeSend, HomeClose, ChannelsAgree
<1>3. /\ held # None => held = state /\ now # None
      /\ held = None /\ now # None => now = state
  BY <1>0, <1>1, <1>2 DEF HomeOpen, HomeSend, HomeClose, ChannelsAgree, HomesAreSentTheNewest, Listening
<1>4. ChannelsAgree'
  BY <1>0, <1>1, <1>2, <1>3 DEF ChannelsAgree, HomesAreSentTheNewest, Listening, Held
<1>5. \A l \in Leases : channel'[l] = channel[l]
  BY <1>0, <1>2 DEF ChannelsAgree, Subscribers
<1>6. GenerationsAgree'
  BY <1>0, <1>5 DEF GenerationsAgree, Held
<1> QED
  BY <1>4, <1>6

\* A step of one lease.
LEMMA LeaseSending ==
    ASSUME Sending, NEW l \in Leases, NEW now \in LeaseOf \cup {None}, NEW held \in State \cup {None},
           lease' = [lease EXCEPT ![l] = now], channel' = [channel EXCEPT ![l] = held],
           held # None => held = state /\ now # None,
           now # None => now.target.generation <= state.gap,
           now # None /\ l \notin crossed' => state.connection = "live",
           l \in crossed' => now # None /\ now.target.generation < state.gap /\ (held = None => now.done),
           crossed' \subseteq crossed, crossed \ {l} \subseteq crossed', UNCHANGED <<state, shown>>
    PROVE  Sending'
<1> USE DEF Sending
<1>1. /\ lease' \in [Leases -> LeaseOf \cup {None}] /\ lease'[l] = now
      /\ \A k \in Leases \ {l} : lease'[k] = lease[k]
  BY DEF GenerationsAgree
<1>2. /\ channel' \in [Subscribers -> State \cup {None}] /\ channel'[l] = held
      /\ \A s \in Subscribers \ {l} : channel'[s] = channel[s]
  BY DEF ChannelsAgree, Subscribers
<1>3. ChannelsAgree'
  <2>1. ASSUME NEW s \in Subscribers, channel'[s] # None PROVE channel'[s] = state /\ s \in Listening'
    <3>1. CASE s = l
      BY <1>1, <1>2, <2>1, <3>1 DEF Listening, Held
    <3>2. CASE s # l
      BY <1>1, <1>2, <2>1, <3>2 DEF ChannelsAgree, Listening, Held
    <3> QED
      BY <3>1, <3>2
  <2>2. ASSUME NEW h \in Homes, shown[h] # None, channel'[h] = None PROVE shown[h] = state
    BY <1>2, <2>2, ProjectorNames DEF ChannelsAgree, HomesAreSentTheNewest, Subscribers
  <2> QED
    BY <1>2, <2>1, <2>2 DEF ChannelsAgree, HomesAreSentTheNewest
<1>4. GenerationsAgree'
  <2>1. crossed' \subseteq Leases
    BY DEF GenerationsAgree
  <2>2. ASSUME NEW k \in Leases, Held(k)' PROVE lease'[k].target.generation <= state.gap
    <3>1. CASE k = l
      BY <1>1, <2>2, <3>1 DEF Held
    <3>2. CASE k # l
      BY <1>1, <2>2, <3>2 DEF Held, GenerationsAgree
    <3> QED
      BY <3>1, <3>2
  <2>3. ASSUME NEW k \in Leases \ crossed', Held(k)' PROVE state.connection = "live"
    <3>1. CASE k = l
      BY <1>1, <2>3, <3>1 DEF Held
    <3>2. CASE k # l
      BY <1>1, <2>3, <3>2 DEF Held, GenerationsAgree
    <3> QED
      BY <3>1, <3>2
  <2>4. ASSUME NEW k \in crossed'
        PROVE  Held(k)' /\ lease'[k].target.generation < state.gap /\ (channel'[k] = None => lease'[k].done)
    <3>1. CASE k = l
      BY <1>1, <1>2, <2>4, <3>1 DEF Held
    <3>2. CASE k # l
      <4>1. k \in crossed /\ k \in Leases /\ lease'[k] = lease[k] /\ channel'[k] = channel[k]
        BY <1>1, <1>2, <2>4, <3>2 DEF GenerationsAgree, Subscribers
      <4> QED
        BY <4>1 DEF Held, GenerationsAgree
    <3> QED
      BY <3>1, <3>2
  <2> QED
    BY <1>1, <2>1, <2>2, <2>3, <2>4 DEF GenerationsAgree
<1> QED
  BY <1>3, <1>4

LEMMA AcquireSending ==
    ASSUME Sending, LoopTypes, NEW l \in Leases, NEW p \in Panes, Acquire(l, p)
    PROVE  Sending'
<1> DEFINE target == [pane |-> p, tab |-> state.snapshot[p][1], generation |-> state.gap]
           now == [done |-> FALSE, target |-> target]
<1>1. /\ ~Held(l) /\ state.connection = "live" /\ lease' = [lease EXCEPT ![l] = now]
      /\ UNCHANGED <<state, channel, shown, crossed>>
  BY DEF Acquire, HasTarget
<1>2. state.gap \in Nat /\ state.snapshot[p] \in Present
  BY DEF Acquire, HasTarget, LoopTypes, State, Snapshot
<1>3. now \in LeaseOf /\ now.target.generation = state.gap
  BY <1>2 DEF LeaseOf, Present
<1>4. l \notin crossed /\ channel[l] = None
  BY <1>1, ProjectorNames DEF Sending, GenerationsAgree, ChannelsAgree, Listening, Subscribers
<1>5. channel' = [channel EXCEPT ![l] = None]
  BY <1>1, <1>4 DEF Sending, ChannelsAgree
<1> HIDE DEF now
<1>6. /\ now # None => now.target.generation <= state.gap
      /\ now # None /\ l \notin crossed' => state.connection = "live"
      /\ l \notin crossed'
      /\ crossed' \subseteq crossed /\ crossed \ {l} \subseteq crossed'
  BY <1>1, <1>2, <1>3, <1>4
<1>7. now \in LeaseOf \cup {None} /\ lease' = [lease EXCEPT ![l] = now] /\ UNCHANGED <<state, shown>>
  BY <1>1, <1>3
<1> QED
  BY <1>5, <1>6, <1>7, LeaseSending

LEMMA WatchSending == ASSUME Sending, LoopTypes, NEW l \in Leases, Watch(l) PROVE Sending'
<1> DEFINE done == ~matches(lease[l].target, channel[l])
           now == [lease[l] EXCEPT !.done = done]
<1>1. /\ Held(l) /\ channel[l] = state /\ lease[l] \in LeaseOf
      /\ lease' = [lease EXCEPT ![l].done = done] /\ channel' = [channel EXCEPT ![l] = None]
      /\ UNCHANGED <<state, shown, crossed>>
  BY DEF Watch, Sending, ChannelsAgree, GenerationsAgree, Held, Subscribers
<1>2. done \in BOOLEAN /\ (done <=> ~matches(lease[l].target, state))
  BY <1>1 DEF matches, HasTarget
<1>3. lease[l].target.generation < state.gap => done
  BY <1>1, <1>2 DEF matches, LoopTypes, State, LeaseOf
<1> HIDE DEF done
<1>4. now \in LeaseOf /\ now.target = lease[l].target /\ now.done = done
  BY <1>1, <1>2 DEF LeaseOf
<1>5. lease' = [lease EXCEPT ![l] = now]
  BY <1>1 DEF Sending, GenerationsAgree
<1>6. now # None
  BY <1>4, ProjectorNames
<1> HIDE DEF now
<1>7. /\ now.target.generation <= state.gap
      /\ l \notin crossed => state.connection = "live"
      /\ l \in crossed => now.target.generation < state.gap /\ now.done
  BY <1>1, <1>3, <1>4 DEF Sending, GenerationsAgree
<1> QED
  BY <1>1, <1>4, <1>5, <1>6, <1>7, LeaseSending

LEMMA CloseSending == ASSUME Sending, NEW l \in Leases, Close(l) PROVE Sending'
<1>1. /\ lease' = [lease EXCEPT ![l] = None] /\ channel' = [channel EXCEPT ![l] = None]
      /\ crossed' = crossed \ {l} /\ UNCHANGED <<state, shown>>
  BY DEF Close
<1> QED
  BY <1>1, LeaseSending

LEMMA NextSending == Sending /\ Following /\ [Next]_vars => Sending'
<1> SUFFICES ASSUME Sending, Following, [Next]_vars PROVE Sending'
  OBVIOUS
<1>0. LoopTypes
  BY DEF Following
<1>1. Loop \/ RequestRefresh \/ Deliver \/ Notice \/ Return => Sending'
  BY <1>0, LoopSending
<1>2. ASSUME NEW p \in Panes, NEW now \in Present \cup {None}, Structural(p, now) PROVE Sending'
  BY <1>2, OthersSending DEF Structural
<1>3. ASSUME NEW p \in Panes, NEW s \in Statuses, StatusChange(p, s) PROVE Sending'
  BY <1>3, OthersSending DEF StatusChange
<1>4. ASSUME NEW to \in {"up", "down", "old"}, Break(to) PROVE Sending'
  BY <1>4, OthersSending DEF Break
<1>5. ASSUME NEW h \in Homes, HomeOpen(h) \/ HomeSend(h) \/ HomeClose(h) PROVE Sending'
  BY <1>0, <1>5, HomeSending
<1>6. ASSUME NEW l \in Leases, NEW p \in Panes, Acquire(l, p) PROVE Sending'
  BY <1>0, <1>6, AcquireSending
<1>7. ASSUME NEW l \in Leases, Watch(l) \/ Close(l) PROVE Sending'
  BY <1>0, <1>7, WatchSending, CloseSending
<1>8. UNCHANGED vars => Sending'
  BY OthersSending DEF vars
<1> QED
  BY <1>1, <1>2, <1>3, <1>4, <1>5, <1>6, <1>7, <1>8 DEF Next

LEMMA AlwaysSending == Spec => []Sending
BY InitSending, NextSending, AlwaysFollowing, PTL DEF Spec

-----------------------------------------------------------------------------
\* Home is Herdr as it is when nothing is on its way to the loop, and so is what
\* every connection was sent (projector.go:130-196, core_projector.go:120-180).
THEOREM HomesAreCurrentHolds == Spec => []HomesAreCurrent
<1>1. Following /\ Sending => HomesAreCurrent
  <2> SUFFICES ASSUME Following, Sending PROVE HomesAreCurrent
    OBVIOUS
  <2>1. ProjectorTypeOK
    BY DEF Following, LoopTypes, Sending, ChannelsAgree, GenerationsAgree, ProjectorTypeOK, LeaseOf, Held
  <2>2. HomeIsCurrent
    BY DEF Following, ReadsAgree, Silent, HomeIsCurrent
  <2> QED
    BY <2>1, <2>2 DEF Sending, ChannelsAgree, HomesAreCurrent
<1> QED
  BY <1>1, AlwaysFollowing, AlwaysSending, PTL

\* Notices are about what changed since the read that began the comparison
\* (projector.go:182-196, 248-256, core_projector.go:166-180, types.go:173-180).
THEOREM NoticesAreWitnessedHolds == Spec => []NoticesAreWitnessed
<1>1. Following => NoticesAreWitnessed
  BY DEF Following
<1> QED
  BY <1>1, AlwaysFollowing, PTL

\* A lease never outlives a gap (terminal_target.go:44-120, projector.go:206-247).
THEOREM LeasesEndAtGapsHolds == Spec => []LeasesEndAtGaps
<1>1. Following /\ Sending => LeasesEndAtGaps
  BY DEF Following, LoopTypes, State, Sending, GenerationsAgree, LeasesEndAtGaps, Valid, matches, LeaseOf, Held
<1> QED
  BY <1>1, AlwaysFollowing, AlwaysSending, PTL

=============================================================================
