----------------------------- MODULE Projector -----------------------------
(***************************************************************************)
(* The projector that keeps Home current from one Herdr: the Herdr TUI     *)
(* (internal/herdr/projector.go, with Snapshot and Subscribe of client.go) *)
(* or herdr-core (core_projector.go, with Read and Subscribe of            *)
(* core_client.go).  With it, the observer that compares its reads for     *)
(* notices (internal/notifications/types.go) and the leases on terminals   *)
(* that follow what it publishes (internal/server/terminal_target.go).     *)
(*                                                                         *)
(* Four actors interleave: Herdr, which changes and ends on its own; the   *)
(* goroutine that reads a subscription's events into a one-place latch;    *)
(* the projector's loop; and the subscribers, each behind a one-place      *)
(* channel that only ever holds the newest state.  A snapshot is where     *)
(* each pane is and what its agent reports; a tab stands for all that a    *)
(* pane is in, its workspace included.                                     *)
(***************************************************************************)
EXTENDS Naturals

CONSTANTS
    Panes,       \* pane IDs, each with its terminal ID
    Tabs,        \* tabs a pane can be in
    Statuses,    \* agent statuses a pane can report
    Homes,       \* Home connections, which take every state they are sent
    Leases,      \* leases on a terminal
    MaxChanges,  \* bound on Herdr's changes
    MaxBreaks,   \* bound on how often Herdr ends or drops a subscription
    None         \* absent: no pane, no state in a channel, no lease

ASSUME ProjectorBoundsAreNaturals == {MaxChanges, MaxBreaks} \subseteq Nat

VARIABLES
    backend,   \* "tui" or "core": the Herdr this projector follows
    herdr,     \* "up", "down", or "old": it answers and is refused
    world,     \* Herdr's panes now
    stream,    \* the subscription: "none", "open", "broken", or "lost" once noticed
    unread,    \* whether an event waits in the subscription's connection
    changed,   \* the latch followSubscription's goroutine sets
    refresh,   \* the latch RequestRefresh sets
    pc,        \* where Run and followSubscription are
    basis,     \* the panes the subscription names
    candidate, \* the snapshot just read
    baseline,  \* whether the next observation starts a new comparison
    state,     \* Projector.state
    channel,   \* the state in each subscriber's channel
    shown,     \* the state each Home connection last sent
    lease,     \* each lease's target and whether it is done
    watch,     \* snapshotEvaluator: the previous read, and the notices of the last
    moved,     \* panes that changed since the last read that began a comparison
    changes, breaks,  \* how often each bounded event happened
    crossed    \* leases during which a state that is not live was published

loop  == <<pc, basis, candidate, baseline>>
subs  == <<channel, shown, lease, crossed>>
marks == <<changed, refresh>>
rest  == <<changes, breaks, backend, watch, moved>>
vars  == <<herdr, world, stream, unread, marks, loop, state, subs, rest>>

Present  == Tabs \X Statuses
Snapshot == [Panes -> Present \cup {None}]
PanesOf(snapshot) == {p \in Panes : snapshot[p] # None}

State == [connection : {"reconnecting", "live", "not_running", "incompatible"},
          gap : Nat, hasHome : BOOLEAN, lastKnown : BOOLEAN, snapshot : Snapshot]

LeaseOf == [done : BOOLEAN, target : [pane : Panes, tab : Tabs, generation : Nat]]

Subscribers == Homes \cup Leases

ASSUME ProjectorNames ==
    None \notin State /\ None \notin Present /\ None \notin LeaseOf /\ Homes \cap Leases = {}

-----------------------------------------------------------------------------
(***************************************************************************)
(* The observer: what two reads differ in.                                 *)
(***************************************************************************)

NoNotices == [status |-> {}, opened |-> {}, closed |-> {}]
TabsOf(snapshot) == {snapshot[p][1] : p \in PanesOf(snapshot)}

\* A status notice for each pane in both reads with another status, and one
\* notice for all that opened and one for all that closed.
Compare(previous, snapshot) ==
    [status |-> {p \in PanesOf(previous) \cap PanesOf(snapshot) : previous[p][2] # snapshot[p][2]},
     opened |-> TabsOf(snapshot) \ TabsOf(previous),
     closed |-> TabsOf(previous) \ TabsOf(snapshot)]

Init ==
    /\ backend \in {"tui", "core"}
    /\ watch = [previous |-> None, notices |-> NoNotices] /\ moved = {}
    /\ herdr \in {"up", "down"}
    /\ world = [p \in Panes |-> None]
    /\ stream = "none" /\ unread = FALSE /\ changed = FALSE /\ refresh = FALSE
    /\ pc = "retry" /\ basis = {} /\ candidate = world /\ baseline = TRUE
    /\ state = [connection |-> "reconnecting", gap |-> 0, hasHome |-> FALSE,
                lastKnown |-> FALSE, snapshot |-> world]
    /\ channel = [s \in Subscribers |-> None]
    /\ shown = [h \in Homes |-> None]
    /\ lease = [l \in Leases |-> None]
    /\ changes = 0 /\ breaks = 0
    /\ crossed = {}

-----------------------------------------------------------------------------
(***************************************************************************)
(* Leases: acquireTerminalTarget and what it holds on to.                  *)
(***************************************************************************)

\* terminalTargetFromState has a target: Home is live and shows the terminal.
HasTarget(st, p) == st.connection = "live" /\ ~st.lastKnown /\ st.snapshot[p] # None

\* terminalTarget.matches: the same generation, and the pane where it was.
matches(target, st) ==
    /\ st.gap = target.generation
    /\ HasTarget(st, target.pane)
    /\ st.snapshot[target.pane][1] = target.tab

Held(l)  == lease[l] # None
Valid(l) == Held(l) /\ ~lease[l].done /\ matches(lease[l].target, state)

-----------------------------------------------------------------------------
(***************************************************************************)
(* Publishing.                                                             *)
(***************************************************************************)

Listening == {h \in Homes : shown[h] # None} \cup {l \in Leases : Held(l)}

\* publishLocked: every listener's channel holds the newest state.  A state
\* like the one before is not sent again.
publishLocked(next) ==
    /\ state' = next
    /\ channel' = IF next = state THEN channel
                  ELSE [s \in Subscribers |-> IF s \in Listening THEN next ELSE channel[s]]
    /\ crossed' = crossed \cup {l \in Leases : Held(l) /\ next.connection # "live"}
    /\ UNCHANGED <<shown, lease>>

markGap ==
    publishLocked([state EXCEPT !.connection = "reconnecting", !.gap = @ + 1, !.lastKnown = state.hasHome])

\* Mutant: an error opens no gap.
publishErrorOnly(kind) ==
    publishLocked([state EXCEPT !.connection = kind, !.lastKnown = state.hasHome])

\* publishError: Herdr is not running, or its answer is refused.
publishError(kind) ==
    publishLocked([state EXCEPT !.connection = kind,
                                !.gap = IF state.connection = "live" THEN @ + 1 ELSE @,
                                !.lastKnown = state.hasHome])

publishHome(snapshot) ==
    publishLocked([state EXCEPT !.connection = "live", !.hasHome = TRUE,
                                !.lastKnown = FALSE, !.snapshot = snapshot])

-----------------------------------------------------------------------------
(***************************************************************************)
(* Projector.Run and followSubscription.                                   *)
(***************************************************************************)

ErrorKind == IF herdr = "old" THEN "incompatible" ELSE "not_running"

\* subscription.Close, and what its goroutine held is dropped.
Unsubscribed == stream' = "none" /\ unread' = FALSE /\ changed' = FALSE

\* What was observed has gone to the queue of Notifications.
NoticesQueued == watch' = [watch EXCEPT !.notices = NoNotices]

\* The loop begins again after the retry delay, with a new baseline.
Retry == pc' = "retry" /\ baseline' = TRUE /\ UNCHANGED <<basis, candidate>>

\* The Herdr TUI's setup snapshot only tells which panes to subscribe to.
Setup ==
    /\ pc = "retry" /\ backend = "tui"
    /\ \/ /\ herdr = "up"
          /\ pc' = "subscribe" /\ basis' = PanesOf(world)
          /\ UNCHANGED <<candidate, baseline, state, subs>>
       \/ /\ herdr # "up"
          /\ publishError(ErrorKind)
          /\ UNCHANGED loop
    /\ UNCHANGED <<herdr, world, stream, unread, marks, rest>>

\* herdr-core needs no panes, and its connection is refused when it is too old.
MaySubscribe == IF backend = "core" THEN herdr = "up" ELSE herdr # "down"

Subscribe ==
    /\ pc = IF backend = "core" THEN "retry" ELSE "subscribe"
    /\ \/ /\ MaySubscribe
          /\ stream' = "open" /\ unread' = FALSE /\ changed' = FALSE
          /\ pc' = "take"
          /\ UNCHANGED <<basis, candidate, baseline, state, subs>>
       \/ /\ ~MaySubscribe
          /\ publishError(ErrorKind)
          /\ pc' = "retry"
          /\ UNCHANGED <<basis, candidate, baseline, stream, unread, changed>>
    /\ NoticesQueued
    /\ UNCHANGED <<herdr, world, refresh, changes, breaks, backend, moved>>

\* takeRefreshSignals before a read: a later change sets the latch again.
Take ==
    /\ pc = "take"
    /\ changed' = FALSE /\ refresh' = FALSE
    /\ pc' = "read"
    /\ UNCHANGED <<herdr, world, stream, unread, basis, candidate, baseline, state, subs, rest>>

Read ==
    /\ pc = "read"
    /\ \/ /\ herdr = "up"
          /\ candidate' = world /\ pc' = "check"
          /\ moved' = IF baseline THEN {} ELSE moved
          /\ UNCHANGED <<basis, baseline, stream, unread, changed, state, subs>>
       \/ /\ herdr # "up"
          /\ Unsubscribed
          /\ publishError(ErrorKind)
          /\ Retry
          /\ UNCHANGED moved
    /\ UNCHANGED <<herdr, world, refresh, changes, breaks, backend, watch>>

\* Mutant: every two reads are compared.
ObserveAlways(snapshot) ==
    watch' = [previous |-> snapshot,
              notices  |-> IF watch.previous = None THEN NoNotices ELSE Compare(watch.previous, snapshot)]

\* snapshotEvaluator.Observe: a read that begins a comparison is kept and says
\* nothing.
Observe(snapshot) ==
    watch' = [previous |-> snapshot,
              notices  |-> IF baseline \/ watch.previous = None THEN NoNotices
                           ELSE Compare(watch.previous, snapshot)]

\* Mutant: a new pane needs no new subscription.
subscriptionCoversAnything(names, snapshot) == TRUE

subscriptionCoversSnapshot(names, snapshot) == PanesOf(snapshot) \subseteq names

\* With the Herdr TUI, the read is dropped when the subscription is known to be
\* lost, and a pane the subscription does not name makes the loop subscribe
\* again; else Home is published.  The latter two hand the snapshot to the
\* observer.  A read of herdr-core is always published.
Check ==
    /\ pc = "check"
    /\ \/ /\ backend = "tui" /\ stream = "lost"
          /\ Unsubscribed /\ markGap /\ Retry
          /\ UNCHANGED watch
       \/ /\ backend = "tui" /\ stream # "lost" /\ ~subscriptionCoversSnapshot(basis, candidate)
          /\ Observe(candidate)
          /\ Unsubscribed
          /\ basis' = PanesOf(candidate) /\ baseline' = TRUE
          /\ pc' = "subscribe"
          /\ UNCHANGED <<candidate, state, subs>>
       \/ /\ backend = "tui" => stream # "lost" /\ subscriptionCoversSnapshot(basis, candidate)
          /\ Observe(candidate)
          /\ publishHome(candidate)
          /\ baseline' = FALSE
          /\ pc' = "settle"
          /\ UNCHANGED <<basis, candidate, stream, unread, changed>>
    /\ UNCHANGED <<herdr, world, refresh, changes, breaks, backend, moved>>

\* Mutant: a signal that came during the read is taken for the one it answered.
SettleAtOnce ==
    /\ pc = "settle"
    /\ pc' = "wait"
    /\ changed' = FALSE /\ refresh' = FALSE
    /\ NoticesQueued
    /\ UNCHANGED <<herdr, world, stream, unread, basis, candidate, baseline, state, subs,
                   changes, breaks, backend, moved>>

\* readNow: a signal that came during the read starts another.
Settle ==
    /\ pc = "settle"
    /\ pc' = IF changed \/ refresh THEN "take" ELSE "wait"
    /\ changed' = FALSE /\ refresh' = FALSE
    /\ NoticesQueued
    /\ UNCHANGED <<herdr, world, stream, unread, basis, candidate, baseline, state, subs,
                   changes, breaks, backend, moved>>

Wake ==
    /\ pc = "wait"
    /\ changed \/ refresh
    /\ pc' = "take"
    /\ UNCHANGED <<herdr, world, stream, unread, marks, basis, candidate, baseline, state, subs, rest>>

Lose ==
    /\ pc = "wait" /\ stream = "lost"
    /\ Unsubscribed /\ markGap /\ Retry
    /\ UNCHANGED <<herdr, world, refresh, rest>>

RequestRefresh ==
    /\ refresh' = TRUE
    /\ UNCHANGED <<herdr, world, stream, unread, changed, loop, state, subs, rest>>

-----------------------------------------------------------------------------
(***************************************************************************)
(* The goroutine that reads the subscription.                              *)
(***************************************************************************)

Deliver ==
    /\ stream \in {"open", "broken"} /\ unread
    /\ unread' = FALSE /\ changed' = TRUE
    /\ UNCHANGED <<herdr, world, stream, refresh, loop, state, subs, rest>>

Notice ==
    /\ stream = "broken" /\ ~unread
    /\ stream' = "lost"
    /\ UNCHANGED <<herdr, world, unread, marks, loop, state, subs, rest>>

-----------------------------------------------------------------------------
(***************************************************************************)
(* Herdr (external).  It sends an event for every pane that comes, goes or *)
(* moves, and for a status only where the subscription names the pane.     *)
(***************************************************************************)

Event(told) == unread' = (unread \/ (stream = "open" /\ told))

Structural(p, now) ==
    /\ changes < MaxChanges /\ herdr # "down" /\ world[p] # now
    /\ world[p] # None /\ now # None => world[p][1] # now[1]
    /\ world' = [world EXCEPT ![p] = now]
    /\ Event(TRUE)
    /\ changes' = changes + 1
    /\ moved' = moved \cup {p}
    /\ UNCHANGED <<herdr, stream, marks, loop, state, subs, breaks, backend, watch>>

StatusChange(p, status) ==
    /\ changes < MaxChanges /\ herdr # "down" /\ world[p] # None /\ world[p][2] # status
    /\ world' = [world EXCEPT ![p] = <<world[p][1], status>>]
    /\ Event(backend = "core" \/ p \in basis)
    /\ changes' = changes + 1
    /\ moved' = moved \cup {p}
    /\ UNCHANGED <<herdr, stream, marks, loop, state, subs, breaks, backend, watch>>

Broken == IF stream = "open" THEN "broken" ELSE stream

\* Herdr ends, or drops the subscription, or is replaced by one that is refused.
Break(to) ==
    /\ breaks < MaxBreaks /\ herdr = "up"
    /\ herdr' = to
    /\ stream' = Broken
    /\ unread' \in {unread, FALSE}
    /\ breaks' = breaks + 1
    /\ UNCHANGED <<world, marks, loop, state, subs, changes, backend, watch, moved>>

\* Herdr starts again, with the panes it restores.
Return ==
    /\ herdr # "up"
    /\ herdr' = "up"
    /\ stream' = Broken
    /\ \E p \in SUBSET PanesOf(world) : world' = [q \in Panes |-> IF q \in p THEN world[q] ELSE None]
    /\ moved' = moved \cup {q \in Panes : world'[q] # world[q]}
    /\ UNCHANGED <<unread, marks, loop, state, subs, changes, breaks, backend, watch>>

-----------------------------------------------------------------------------
(***************************************************************************)
(* Subscribers.                                                            *)
(***************************************************************************)

HomeOpen(h) ==
    /\ shown[h] = None
    /\ shown' = [shown EXCEPT ![h] = state]
    /\ UNCHANGED <<herdr, world, stream, unread, marks, loop, state, channel, lease, crossed, rest>>

HomeSend(h) ==
    /\ channel[h] # None
    /\ shown' = [shown EXCEPT ![h] = channel[h]]
    /\ channel' = [channel EXCEPT ![h] = None]
    /\ UNCHANGED <<herdr, world, stream, unread, marks, loop, state, lease, crossed, rest>>

HomeClose(h) ==
    /\ shown[h] # None
    /\ shown' = [shown EXCEPT ![h] = None]
    /\ channel' = [channel EXCEPT ![h] = None]
    /\ UNCHANGED <<herdr, world, stream, unread, marks, loop, state, lease, crossed, rest>>

\* acquireTerminalTarget: subscribe, and the state it starts with has the target.
Acquire(l, p) ==
    /\ ~Held(l) /\ HasTarget(state, p)
    /\ lease' = [lease EXCEPT ![l] = [done |-> FALSE,
                   target |-> [pane |-> p, tab |-> state.snapshot[p][1], generation |-> state.gap]]]
    /\ UNCHANGED <<herdr, world, stream, unread, marks, loop, state, channel, shown, crossed, rest>>

\* The lease's goroutine takes a state; one that does not match ends the lease.
Watch(l) ==
    /\ Held(l) /\ channel[l] # None /\ ~lease[l].done
    /\ lease' = [lease EXCEPT ![l].done = ~matches(lease[l].target, channel[l])]
    /\ channel' = [channel EXCEPT ![l] = None]
    /\ UNCHANGED <<herdr, world, stream, unread, marks, loop, state, shown, crossed, rest>>

Close(l) ==
    /\ Held(l)
    /\ lease' = [lease EXCEPT ![l] = None]
    /\ channel' = [channel EXCEPT ![l] = None]
    /\ crossed' = crossed \ {l}
    /\ UNCHANGED <<herdr, world, stream, unread, marks, loop, state, shown, rest>>

Loop == Setup \/ Subscribe \/ Take \/ Read \/ Check \/ Settle \/ Wake \/ Lose

Next ==
    \/ Loop \/ RequestRefresh \/ Deliver \/ Notice \/ Return
    \/ \E p \in Panes : \E now \in Present \cup {None} : Structural(p, now)
    \/ \E p \in Panes, s \in Statuses : StatusChange(p, s)
    \/ \E to \in {"up", "down", "old"} : Break(to)
    \/ \E h \in Homes : HomeOpen(h) \/ HomeSend(h) \/ HomeClose(h)
    \/ \E l \in Leases : Watch(l) \/ Close(l) \/ \E p \in Panes : Acquire(l, p)

Spec == Init /\ [][Next]_vars

\* Fairness: the loop's calls all have timeouts, and the goroutines run.
LiveSpec == Spec /\ WF_vars(Loop) /\ WF_vars(Deliver) /\ WF_vars(Notice)

-----------------------------------------------------------------------------
(***************************************************************************)
(* Properties.                                                             *)
(***************************************************************************)

\* Types: Herdr's panes, the loop, the published state, the subscribers.
ProjectorTypeOK ==
    /\ herdr \in {"up", "down", "old"} /\ world \in Snapshot /\ candidate \in Snapshot
    /\ stream \in {"none", "open", "broken", "lost"}
    /\ {unread, changed, refresh, baseline} \subseteq BOOLEAN
    /\ pc \in {"retry", "subscribe", "take", "read", "check", "settle", "wait"}
    /\ basis \subseteq Panes
    /\ state \in State
    /\ \A s \in Subscribers : channel[s] # None => channel[s] \in State
    /\ \A l \in Leases : Held(l) => lease[l].done \in BOOLEAN

\* When the loop waits and nothing is on its way to it, Home shows Herdr as it
\* is: no change falls between a read and the events that follow it, and none
\* happens to a pane the subscription does not name.
HomeIsCurrent ==
    pc = "wait" /\ stream = "open" /\ ~unread /\ ~changed
      => state.connection = "live" /\ state.snapshot = world

\* A Home connection with nothing in its channel has sent the published state,
\* although its channel holds one state and drops the older.
HomesAreSentTheNewest ==
    \A h \in Homes : shown[h] # None /\ channel[h] = None => shown[h] = state

\* A notice is about what changed in Herdr since the read that began the
\* comparison: never about what differs across a lost subscription, a refused
\* read, or a restart of Herdr in between (projector.go:182-196, 248-256,
\* core_projector.go:166-180, types.go:173-180).
NoticesAreWitnessed ==
    /\ watch.notices.status \subseteq moved
    /\ moved = {} => watch.notices = NoNotices

\* A lease never outlives a gap: once a state that is not live was published, it
\* is not valid again, even where the terminal is back under the same IDs.
LeasesEndAtGaps ==
    \A l \in crossed : ~Valid(l) /\ (channel[l] = None => lease[l].done)

\* While Herdr stays up, Home ends up live and showing its panes as they are.
HomeCatchesUp ==
    <>[](herdr = "up") => <>[](state.connection = "live" /\ state.snapshot = world)

\* Home is Herdr as it is, and so is what every connection was sent.
HomesAreCurrent == ProjectorTypeOK /\ HomeIsCurrent /\ HomesAreSentTheNewest

=============================================================================
