----------------------------- MODULE CoreBridge -----------------------------
(***************************************************************************)
(* The size of one Herdr Core terminal that several browsers control at    *)
(* once (internal/server/terminal_core_bridge.go, Attach, Run and Resize   *)
(* of internal/herdr/core_attach.go).  Herdr Core gives a terminal the     *)
(* size of the viewer used last; a page that is in view and controls it    *)
(* takes the size back from the Herdr app window, once per keep:true.      *)
(*                                                                         *)
(* Pages are control streams; an observing stream neither resizes nor      *)
(* holds.  Core's size events reach each stream in order but late, and so  *)
(* do resizes reach core.                                                  *)
(***************************************************************************)
EXTENDS Naturals, Sequences, FiniteSets

CONSTANTS
    Pages,      \* browser pages that may control the terminal
    Sizes,      \* sizes the pages ask for
    AppSizes,   \* sizes the Herdr app window gives the terminal
    RecentSizes,\* how many sizes of a browser are remembered (8 in the code)
    MaxKeeps,   \* bound: how often pages say keep:true
    MaxUnread,  \* bound on size events on their way to a stream
    MaxResizes  \* bound on resizes of a stream on their way to Herdr Core

ASSUME PagesAreFinite == IsFiniteSet(Pages)
ASSUME SizesDiffer == Sizes \cap AppSizes = {}
ASSUME CoreBridgeBounds == {RecentSizes, MaxKeeps, MaxUnread, MaxResizes} \subseteq Nat \ {0}

VARIABLES
    size,     \* the terminal's size in Herdr Core
    stream,   \* each page's coreLiveSession
    events,   \* size events on their way to each stream
    resizes,  \* resizes on their way to Herdr Core
    keeps,    \* CoreTerminalBridge.keeps
    backs,    \* history: resizes sent to take the size back
    outside,  \* history: whether the app window was used or a page has left
    takes     \* history: sizes of the app window the latest keeper had not seen
              \* when it said keep:true; 2 when there are more, when a page has
              \* left since, or when there is no keeper

vars == <<size, stream, events, resizes, keeps, backs, outside, takes>>

NoStream == [at |-> "new", controlled |-> FALSE, holding |-> FALSE, armed |-> FALSE,
             kept |-> 0, own |-> <<>>, known |-> 0, takeBack |-> FALSE]

Init ==
    /\ size \in AppSizes
    /\ stream = [p \in Pages |-> NoStream]
    /\ events = [p \in Pages |-> <<>>] /\ resizes = [p \in Pages |-> <<>>]
    /\ keeps = 0 /\ backs = 0 /\ outside = FALSE /\ takes = 2

-----------------------------------------------------------------------------
(***************************************************************************)
(* The hold (coreSizeHold) and who takes a size back.                      *)
(***************************************************************************)

\* CoreTerminalBridge.holders
Holders == {p \in Pages : stream[p].at # "new"}

\* Where s is among the sizes remembered, or the place after them.
Place(own, s) == IF \E i \in DOMAIN own : own[i] = s THEN CHOOSE i \in DOMAIN own : own[i] = s ELSE Len(own) + 1

\* asked: s comes first, and those before its place move down by one; the
\* oldest is forgotten when there are too many.
asked(own, s) ==
    LET k == Place(own, s)
        n == IF k <= Len(own) THEN Len(own) ELSE IF Len(own) < RecentSizes THEN Len(own) + 1 ELSE RecentSizes
    IN [i \in 1 .. n |-> IF i = 1 THEN s ELSE IF i <= k THEN own[i - 1] ELSE own[i]]

owns(p, s) == \E i \in DOMAIN stream[p].own : stream[p].own[i] = s

\* A size no page on this terminal asked for
Foreign(s) == \A q \in Holders : ~owns(q, s)

\* The holding page whose keep:true came last
Latest(p) ==
    /\ p \in Holders /\ stream[p].holding
    /\ \A q \in Holders : stream[q].holding => stream[q].kept <= stream[p].kept

\* takesSizeBack: the latest keeper takes back a size no page asked for.
takesSizeBack(p, s) ==
    /\ Foreign(s) /\ Latest(p) /\ stream[p].armed

\* Mutant: a take-back does not use up its keep:true.
spendNothing(p, s) == stream[p].armed
\* What remains of the page's take-back after the size event s: takesSizeBack
\* spends it when it says yes.
spend(p, s) == stream[p].armed /\ ~takesSizeBack(p, s)

\* What is told about the size now, and to whom
Following == {p \in Pages : stream[p].at \in {"opening", "attached"}}
Announce(s, E) == [p \in Pages |-> IF p \in Following /\ s # size THEN Append(E[p], s) ELSE E[p]]
HaveRoom == \A p \in Pages : Len(events[p]) < MaxUnread

\* Sizes no page asked for that p has yet to be told about
Unseen(p) == Cardinality({i \in DOMAIN events[p] : Foreign(events[p][i])})
             + Cardinality({q \in Pages : \E i \in DOMAIN resizes[q] : Foreign(resizes[q][i])})
AtMostTwo(n) == IF n > 2 THEN 2 ELSE n

-----------------------------------------------------------------------------
(***************************************************************************)
(* Streams.                                                                *)
(***************************************************************************)

\* The size asked for is known before attaching.
AskedFirst(s) == <<s>>

\* productionSocket: a holder from here on, which then follows size events.
Open(p, s) ==
    /\ stream[p].at = "new" /\ resizes[p] = <<>>
    /\ stream' = [stream EXCEPT ![p].at = "opening", ![p].own = AskedFirst(s), ![p].known = s]
    /\ UNCHANGED <<size, events, resizes, keeps, backs, outside, takes>>

\* Attach, with the size the page opened with; events from before stay queued.
Attach(p) ==
    /\ stream[p].at = "opening" /\ HaveRoom
    /\ size' = stream[p].known
    /\ events' = Announce(stream[p].known, events)
    /\ stream' = [stream EXCEPT ![p].at = "attached", ![p].controlled = TRUE]
    /\ UNCHANGED <<resizes, keeps, backs, outside, takes>>

\* The take-back that was promised, if p was the latest keeper, is void.
Void(p) == IF Latest(p) THEN 2 ELSE takes

\* The attach fails, or the stream ends: it stops controlling before it stops
\* being a holder, and only then are its sizes foreign to the others.
End(p) ==
    /\ stream[p].at \in {"opening", "attached"}
    /\ stream' = [stream EXCEPT ![p].at = "ended", ![p].controlled = FALSE, ![p].takeBack = FALSE]
    /\ events' = [events EXCEPT ![p] = <<>>]
    /\ outside' = TRUE /\ takes' = Void(p)
    /\ UNCHANGED <<size, resizes, keeps, backs>>

Forget(p) ==
    /\ stream[p].at = "ended"
    /\ stream' = [stream EXCEPT ![p] = NoStream]
    /\ takes' = 2
    /\ UNCHANGED <<size, events, resizes, keeps, backs, outside>>

\* The size callback of Run: the newest size, and whether to take it back.
SizeEvent(p) ==
    /\ stream[p].at = "attached" /\ events[p] # <<>>
    /\ LET next == Head(events[p]) IN
       stream' = IF next # stream[p].known
                 THEN [stream EXCEPT ![p].known = next, ![p].armed = spend(p, next),
                                     ![p].takeBack = @ \/ takesSizeBack(p, next)]
                 ELSE stream
    /\ events' = [events EXCEPT ![p] = Tail(@)]
    /\ UNCHANGED <<size, resizes, keeps, backs, outside, takes>>

Send(p, s) == resizes' = [resizes EXCEPT ![p] = Append(@, s)]

\* takeSizeBack, for a request that waited in the one-place channel.
TakeSizeBack(p) ==
    /\ stream[p].at = "attached" /\ stream[p].takeBack /\ Len(resizes[p]) < MaxResizes
    /\ stream' = [stream EXCEPT ![p].takeBack = FALSE]
    /\ LET want == stream[p].own[1] IN
       IF stream[p].controlled /\ stream[p].holding /\ stream[p].known # want
       THEN Send(p, want) /\ backs' = backs + 1
       ELSE UNCHANGED <<resizes, backs>>
    /\ UNCHANGED <<size, events, keeps, outside, takes>>

-----------------------------------------------------------------------------
(***************************************************************************)
(* What a page sends: applyCommand.                                        *)
(***************************************************************************)

MayResize(p) == stream[p].at = "attached" /\ stream[p].controlled /\ Len(resizes[p]) < MaxResizes

\* Mutant: the size asked for last counts as the terminal's.
AskedLast(p, s) == stream[p].own[1] = s
HasSize(p, s) == stream[p].known = s

\* A resize to the size the terminal is known to have is not sent.
SendUnlessKnown(p, s) == IF HasSize(p, s) THEN UNCHANGED resizes ELSE Send(p, s)

\* A resize without keep
Resize(p, s) ==
    /\ MayResize(p)
    /\ stream' = [stream EXCEPT ![p].own = asked(@, s)]
    /\ SendUnlessKnown(p, s)
    /\ UNCHANGED <<size, events, keeps, backs, outside, takes>>

\* keep:true: in view, with a person's input, or on a view switch.
Keep(p, s) ==
    /\ MayResize(p) /\ keeps < MaxKeeps
    /\ keeps' = keeps + 1
    /\ stream' = [stream EXCEPT ![p].own = asked(@, s), ![p].holding = TRUE,
                                ![p].armed = TRUE, ![p].kept = keeps + 1]
    /\ SendUnlessKnown(p, s)
    /\ takes' = AtMostTwo(Unseen(p))
    /\ UNCHANGED <<size, events, backs, outside>>

\* keep:false: out of view.
Hide(p, s) ==
    /\ MayResize(p)
    /\ stream' = [stream EXCEPT ![p].own = asked(@, s), ![p].holding = FALSE, ![p].armed = FALSE]
    /\ takes' = Void(p)
    /\ UNCHANGED <<size, events, resizes, keeps, backs, outside>>

\* Release: nothing more is sent; the stream ends next.
Release(p) ==
    /\ stream[p].at = "attached" /\ stream[p].controlled
    /\ stream' = [stream EXCEPT ![p].controlled = FALSE]
    /\ outside' = TRUE /\ takes' = Void(p)
    /\ UNCHANGED <<size, events, resizes, keeps, backs>>

-----------------------------------------------------------------------------
(***************************************************************************)
(* Herdr Core.                                                             *)
(***************************************************************************)

\* Core carries out a page's resize, also one of a stream that has ended.
CoreResize(p) ==
    /\ resizes[p] # <<>> /\ HaveRoom
    /\ size' = Head(resizes[p])
    /\ events' = Announce(Head(resizes[p]), events)
    /\ resizes' = [resizes EXCEPT ![p] = Tail(@)]
    /\ UNCHANGED <<stream, keeps, backs, outside, takes>>

\* The Herdr app window is used: by a person, or by a program's reply to a
\* size change.
AppUsed(s) ==
    /\ s # size /\ HaveRoom
    /\ size' = s /\ events' = Announce(s, events)
    /\ outside' = TRUE /\ takes' = AtMostTwo(takes + 1)
    /\ UNCHANGED <<stream, resizes, keeps, backs>>

Next ==
    \/ \E p \in Pages :
          \/ Attach(p) \/ End(p) \/ Forget(p) \/ SizeEvent(p) \/ TakeSizeBack(p)
          \/ Release(p) \/ CoreResize(p)
          \/ \E s \in Sizes : Open(p, s) \/ Resize(p, s) \/ Keep(p, s) \/ Hide(p, s)
    \/ \E s \in AppSizes : AppUsed(s)

Spec == Init /\ [][Next]_vars

-----------------------------------------------------------------------------
(***************************************************************************)
(* Properties.                                                             *)
(***************************************************************************)

CoreBridgeTypeOK ==
    /\ size \in Sizes \cup AppSizes
    /\ \A p \in Pages :
          /\ stream[p].at \in {"new", "opening", "attached", "ended"}
          /\ {stream[p].controlled, stream[p].holding, stream[p].armed, stream[p].takeBack} \subseteq BOOLEAN
          /\ stream[p].own \in Seq(Sizes) /\ Len(stream[p].own) <= RecentSizes
          /\ events[p] \in Seq(Sizes \cup AppSizes) /\ resizes[p] \in Seq(Sizes)
    /\ keeps \in 0 .. MaxKeeps /\ backs \in Nat /\ outside \in BOOLEAN /\ takes \in 0 .. 2

\* However often a program or the app window answers, no more sizes are taken
\* back than pages said keep:true, also for requests that waited while a page hid
\* and came back.  And while the app window is not used and no page leaves,
\* nothing is: pages never answer each other's sizes, however late a size event
\* arrives (terminal_core_bridge.go:113-116, 164-170, 217-219, 245-251, 514-541).
TakeBacksAreEarned ==
    /\ backs <= keeps
    /\ ~outside => backs = 0

\* Nothing is under way.
Settled == \A p \in Pages : /\ events[p] = <<>> /\ resizes[p] = <<>>
                            /\ ~stream[p].takeBack /\ stream[p].at \in {"new", "attached"}

\* The app window takes the size once and the page in view has it back, unless
\* that page has gone meanwhile: the take-back that a keep:true allows is not
\* lost among late events and resizes under way (terminal_core_bridge.go:245-251,
\* 496-506, 545-560).
KeepsTakeBackOnce == Settled /\ takes < 2 => size \notin AppSizes

=============================================================================
