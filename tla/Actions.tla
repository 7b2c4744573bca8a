------------------------------ MODULE Actions ------------------------------
(***************************************************************************)
(* The actions a browser asks for on spaces and terminals, in the Herdr    *)
(* TUI (internal/server/workspace_actions.go, terminal_actions.go over     *)
(* internal/herdr/actions.go) and in Herdr Core with its app               *)
(* (core_actions.go over core_client.go and app_client.go).                *)
(*                                                                         *)
(* One coordinator, whose one-place `mutation` channel is the latch; one   *)
(* space, its terminals and terminals elsewhere; Herdr, which performs a   *)
(* mutation at once, later or never when its answer is lost; and everyone  *)
(* else who changes terminals in between.  Sending runs inside the guard   *)
(* of the session's authority, so it is one step with the check of it.     *)
(***************************************************************************)
EXTENDS Naturals, Sequences, FiniteSets

CONSTANTS
    Requests,    \* requests of browsers
    Terminals,   \* Herdr's terminals, the ones that are started later included
    HomeOrder,   \* the space's terminals, in the order Home shows them
    Begun,       \* sets of terminals that may live at first
    Families,    \* who started whom, and which workers die with their parent
    MaxChanges,  \* bound: changes that are not Shepherdr's
    None         \* nobody

Space == {HomeOrder[i] : i \in DOMAIN HomeOrder}

ASSUME ActionNames == None \notin Requests \cup Terminals
ASSUME ActionBounds == MaxChanges \in Nat
ASSUME TerminalsAssumption == IsFiniteSet(Terminals) /\ Begun \subseteq SUBSET Terminals /\ HomeOrder \in Seq(Terminals)
ASSUME FamiliesAssumption ==
    \A f \in Families : f.parent \in [Terminals -> Terminals \cup {None}] /\ f.dies \subseteq Terminals

VARIABLES
    backend,   \* which Herdr: "tui" or "core"
    family,    \* who started whom in it
    signedIn,  \* whether the browser's session is valid
    window,    \* whether the Herdr app window is open
    term,      \* each terminal: "absent", then "shell", "idle" or "working", then "ended"
    latch,     \* the request that fills the coordinator's mutation channel
    req,       \* the requests
    changes    \* changes that were not Shepherdr's

world == <<backend, family>>
vars  == <<backend, family, signedIn, window, term, latch, req, changes>>

-----------------------------------------------------------------------------
(***************************************************************************)
(* What a read shows.                                                      *)
(***************************************************************************)

Live(w)   == {t \in Terminals : w[t] \notin {"absent", "ended"}}
Agents(w) == {t \in Terminals : w[t] \in {"idle", "working"}}

\* prepareFacts, coreSpaceFacts: a terminal without an agent is not in them.
SpaceFacts(w) == [agents  |-> Cardinality(Agents(w) \cap Space),
                  working |-> Cardinality({t \in Space : w[t] = "working"})]

\* CoreEndsWith; in the TUI a terminal ends alone.
EndsWith(w, t) ==
    LET Down[n \in Nat] ==
            IF n = 0 THEN {t} \cap Live(w)
            ELSE Down[n - 1] \cup {u \in Live(w) \cap family.dies : family.parent[u] \in Down[n - 1]}
    IN  IF backend = "tui" THEN {t} \cap Live(w) ELSE Down[Cardinality(Terminals)]

\* When nothing would remain of its space, closing a terminal closes the space.
IsLast(w, t) == t \in Space /\ (Live(w) \cap Space) \subseteq EndsWith(w, t)

\* prepareTerminalClose, coreTerminalFacts
TerminalFacts(w, t) ==
    [agent   |-> w[t],
     workers |-> IF IsLast(w, t) THEN 0 ELSE Cardinality(EndsWith(w, t) \ {t}),
     space   |-> IF IsLast(w, t) THEN SpaceFacts(w) ELSE [agents |-> 0, working |-> 0],
     last    |-> IsLast(w, t)]

\* The terminals that started t, up to one whose own parent is not in the read,
\* or was seen: those in every set that leads up from t.
LeadsUp(w, S) == \A u \in S \cap Live(w) : family.parent[u] \in S
Ancestors(w, t) ==
    {a \in Terminals \ {t} : \A S \in SUBSET (Terminals \cup {None}) : t \in S /\ LeadsUp(w, S) => a \in S}

\* Mutant: only the terminal that started it directly.
DepthDirect(w, t) == Cardinality({family.parent[t]} \cap Space \cap Live(w))
\* Its ancestors that Home shows in the space.
Depth(w, t) == Cardinality(Ancestors(w, t) \cap Space \cap Live(w))

\* coreSpaceCloseOrder: deepest first, and otherwise in Home order.
HomePlace(t) == CHOOSE i \in DOMAIN HomeOrder : HomeOrder[i] = t
EndsBefore(w, u, t) == \/ Depth(w, u) > Depth(w, t)
                       \/ Depth(w, u) = Depth(w, t) /\ HomePlace(u) < HomePlace(t)
ClosePlace(w, t) == Cardinality({u \in Live(w) \cap Space : EndsBefore(w, u, t)}) + 1
CloseOrder(w) ==
    LET shown == Live(w) \cap Space
    IN  [i \in 1 .. Cardinality(shown) |-> CHOOSE t \in shown : ClosePlace(w, t) = i]

-----------------------------------------------------------------------------
(***************************************************************************)
(* The handlers' flows.                                                    *)
(***************************************************************************)

\* What a handler does between the latch and its answer: a complete read first,
\* for an exact terminal, with a comparison of the facts a person confirmed; the
\* app window, which does it; a reply that says what Herdr holds after; and a
\* read after, or the published Home, that confirms it.
Flow == [reads |-> TRUE, target |-> FALSE, compares |-> FALSE, window |-> FALSE,
         replies |-> FALSE, confirms |-> FALSE]

\* The Herdr TUI's
runCreateSpace    == [Flow EXCEPT !.reads = FALSE]
runCreateWorktree == Flow
runDestructive    == [Flow EXCEPT !.compares = TRUE]
runSplitTerminal  == [Flow EXCEPT !.target = TRUE, !.confirms = TRUE]
runRenameTerminal == runSplitTerminal
runCloseTerminal  == [runSplitTerminal EXCEPT !.compares = TRUE]

\* Herdr Core's and its app's
runCreateSpaceInApp  == [Flow EXCEPT !.reads = FALSE, !.window = TRUE, !.replies = TRUE]
runRenameSpace       == runCreateSpaceInApp
runCreateSpaceInCore == Flow
runSplitInApp        == [Flow EXCEPT !.target = TRUE, !.window = TRUE, !.replies = TRUE, !.confirms = TRUE]
runNewTerminalInCore == [Flow EXCEPT !.target = TRUE, !.confirms = TRUE]
runPinAgent          == [Flow EXCEPT !.target = TRUE, !.replies = TRUE]
runCloseSpaceInCore  == [Flow EXCEPT !.compares = TRUE]
runTerminal          == [runPinAgent EXCEPT !.compares = TRUE]

Tui  == [create_space |-> runCreateSpace, create_worktree |-> runCreateWorktree,
         close_space |-> runDestructive, split |-> runSplitTerminal,
         rename |-> runRenameTerminal, close_terminal |-> runCloseTerminal]
Core == [create_space |-> runCreateSpaceInApp, rename_space |-> runRenameSpace,
         space_in_core |-> runCreateSpaceInCore, split |-> runSplitInApp,
         terminal_in_core |-> runNewTerminalInCore, pin |-> runPinAgent,
         close_space |-> runCloseSpaceInCore, close_terminal |-> runTerminal]

Kinds   == IF backend = "tui" THEN DOMAIN Tui ELSE DOMAIN Core
flow(k) == IF backend = "tui" THEN Tui[k] ELSE Core[k]

NoView    == [t \in Terminals |-> "absent"]
NoFacts   == [agents |-> 0, working |-> 0]
NoRequest == [at |-> "new", kind |-> "create_space", target |-> None, expected |-> NoFacts, view |-> NoView,
              whole |-> FALSE, todo |-> <<>>, finished |-> TRUE, shaken |-> FALSE,
              sent |-> FALSE, due |-> FALSE, effect |-> "none", outcome |-> "pending"]

Init ==
    /\ backend \in {"tui", "core"} /\ family \in Families
    /\ signedIn = TRUE /\ window \in BOOLEAN
    /\ \E live \in Begun : term = [t \in Terminals |-> IF t \in live THEN "idle" ELSE "absent"]
    /\ latch = None /\ changes = 0
    /\ req = [r \in Requests |-> NoRequest]

FactsOf(k, t, w) == CASE k = "close_space"    -> SpaceFacts(w)
                      [] k = "close_terminal" -> TerminalFacts(w, t)
                      [] OTHER                -> NoFacts

\* The request is answered, and gives the latch back if it has it.  What Herdr
\* may still do of it is kept.
Answered(r, outcome, effect, due) ==
    /\ req' = [req EXCEPT ![r] = [(IF due THEN req[r] ELSE NoRequest) EXCEPT !.at = "answered",
                  !.expected = NoFacts, !.view = NoView, !.todo = <<>>, !.shaken = FALSE,
                  !.sent = req[r].sent \/ due \/ effect # "none",
                  !.due = due, !.effect = effect, !.outcome = outcome]]
    /\ latch' = IF latch = r THEN None ELSE latch
Refused(r) == Answered(r, "refused", "none", FALSE)

Around == UNCHANGED <<backend, family, signedIn, window, term, changes>>

\* prepare and prepareTerminal, under the session's authority; or an action
\* that needs no confirmation.
Ask(r) ==
    /\ req[r].at = "new" /\ signedIn
    /\ \E k \in Kinds, t \in Terminals :
          /\ k = "close_space" => Live(term) \cap Space # {}
          /\ flow(k).target => t \in Live(term)
          /\ req' = [req EXCEPT ![r] = [NoRequest EXCEPT !.at = "asked", !.kind = k,
                        !.target = IF flow(k).target THEN t ELSE None, !.expected = FactsOf(k, t, term)]]
    /\ Around /\ UNCHANGED latch

\* Mutant: two actions at once.
acquireAlways == TRUE
\* acquire, without waiting
acquire == latch = None

\* Mutant: the latch of an action the app cannot do is not given back.
LeavesLatch(r) == req' = [req EXCEPT ![r] = [NoRequest EXCEPT !.at = "answered", !.outcome = "refused"]]
                  /\ latch' = r
\* startAppAction gives it back before it answers.
GivesLatchBack(r) == Refused(r)

\* The latch, or "busy"; and an app action asks for the window.
Begin(r) ==
    LET k == req[r].kind
        next == IF flow(k).reads THEN "read" ELSE "mutate"
    IN
    /\ req[r].at = "asked" /\ Around
    /\ \/ ~acquire /\ Refused(r)
       \/ acquire /\ flow(k).window /\ ~window /\ GivesLatchBack(r)
       \/ /\ acquire /\ (flow(k).window => window)
          /\ latch' = r /\ req' = [req EXCEPT ![r].at = next]

\* The complete read under the latch: it fails, the target is gone or does not
\* offer the action, the facts are not the confirmed ones, or they are.
Read(r) ==
    LET k == req[r].kind
        t == req[r].target
        found == /\ flow(k).target => t \in Live(term)
                 /\ k = "close_space" => Live(term) \cap Space # {}
        whole == k = "close_space" \/ (k = "close_terminal" /\ IsLast(term, t))
    IN
    /\ req[r].at = "read" /\ Around
    /\ \/ Refused(r)
       \/ /\ found
          /\ flow(k).compares => FactsOf(k, t, term) = req[r].expected
          /\ req' = [req EXCEPT ![r].view = term, ![r].whole = whole,
                                ![r].at = IF whole /\ backend = "core" THEN "kill" ELSE "mutate",
                                ![r].todo = IF whole /\ backend = "core" THEN CloseOrder(term) ELSE <<>>]
          /\ UNCHANGED latch

-----------------------------------------------------------------------------
(***************************************************************************)
(* One mutation.                                                           *)
(***************************************************************************)

\* What ends when Herdr performs the request.
Struck(r) == CASE req[r].whole /\ backend = "tui"   -> Live(term) \cap Space
               [] req[r].kind \in {"close_terminal", "close_space"} -> EndsWith(term, req[r].target)
               [] OTHER                             -> {}

\* A request that has read does not see what happens after.
Shake(after) == [r \in Requests |-> [after[r] EXCEPT !.shaken = @ \/ after[r].at \in {"mutate", "kill"}]]
End(gone) == term' = [t \in Terminals |-> IF t \in gone THEN "ended" ELSE term[t]]

\* Mutant: whatever failed is refused.
LostIsRefused == "refused"
\* MutationMayHaveRun: written, or an app command that was begun, without a
\* usable answer.
Lost == "unknown"

\* withCommitAuthority around the mutation: no session, nothing sent (no
\* connection, no window any more) or refused by Herdr, lost, or accepted, where
\* the reply may not say what was asked for.
Mutate(r) ==
    LET k == req[r].kind IN
    /\ req[r].at = "mutate" /\ UNCHANGED <<backend, family, signedIn, window, changes>>
    /\ \/ ~signedIn /\ Answered(r, "unauthorized", "none", FALSE) /\ UNCHANGED term
       \/ signedIn /\ Refused(r) /\ UNCHANGED term
       \/ signedIn /\ Answered(r, Lost, "none", TRUE) /\ UNCHANGED term
       \/ signedIn /\ flow(k).replies /\ Answered(r, "unknown", "none", TRUE) /\ UNCHANGED term
       \/ signedIn /\ ~flow(k).confirms /\ Answered(r, "succeeded", "all", FALSE) /\ End(Struck(r))
       \/ /\ signedIn /\ flow(k).confirms /\ UNCHANGED <<term, latch>>
          /\ req' = [req EXCEPT ![r].at = "confirm", ![r].sent = TRUE, ![r].due = TRUE]

\* Herdr performs what it was sent: for a request still waiting, or after its
\* answer was lost.
Perform(r) ==
    /\ req[r].due
    /\ End(Struck(r))
    /\ req' = LET done == [req EXCEPT ![r].due = FALSE, ![r].effect = IF req[r].whole /\ backend = "core" THEN "some" ELSE "all"]
              IN  IF Struck(r) = {} THEN done ELSE Shake(done)
    /\ UNCHANGED <<backend, family, signedIn, window, latch, changes>>

\* Whether the read after shows what was asked for: the terminal or the space
\* has ended, whoever ended it, or there is the new name or terminal.
Shown(r) == IF req[r].kind = "close_terminal"
            THEN Live(term) \cap (IF req[r].whole THEN Space ELSE {req[r].target}) = {}
            ELSE req[r].effect = "all"

\* The confirming read fails, or does not show it in time; or shows it.
Confirm(r) ==
    /\ req[r].at = "confirm" /\ Around
    /\ \/ Answered(r, "unknown", req[r].effect, req[r].due)
       \/ Shown(r) /\ Answered(r, "succeeded", "all", FALSE)

-----------------------------------------------------------------------------
(***************************************************************************)
(* closeSpace                                                              *)
(***************************************************************************)

\* Once something was killed, a fresh read before each kill: it fails, or the
\* terminal lives no more and is skipped.
Look(r) ==
    LET next == Head(req[r].todo) IN
    /\ req[r].at = "look" /\ Around
    /\ \/ Answered(r, "unknown", req[r].effect, FALSE)
       \/ /\ UNCHANGED latch
          /\ req' = IF next \in Live(term) THEN [req EXCEPT ![r].at = "kill"]
                    ELSE [req EXCEPT ![r].todo = Tail(@), ![r].at = IF Len(req[r].todo) = 1 THEN "after" ELSE "look"]

\* The answer to a kill is lost: it may end the terminal later.
LostKill(r, next) ==
    /\ latch' = None
    /\ req' = [req EXCEPT ![r] = [NoRequest EXCEPT !.at = "answered", !.kind = req[r].kind, !.target = next,
                  !.whole = TRUE, !.sent = TRUE, !.due = TRUE, !.effect = req[r].effect,
                  !.outcome = IF req[r].sent THEN "unknown" ELSE Lost]]

\* One kill.  An error after another one leaves the outcome open, but for a
\* session that ended.
Kill(r) ==
    LET next == Head(req[r].todo)
        rest == Tail(req[r].todo)
        killed == req[r].sent
        Gone(finished) == req' = [req EXCEPT ![r].todo = rest, ![r].sent = TRUE, ![r].effect = "some",
                                             ![r].finished = @ /\ finished,
                                             ![r].at = IF rest = <<>> THEN "after" ELSE "look"]
    IN
    /\ req[r].at = "kill" /\ UNCHANGED <<backend, family, signedIn, window, changes>>
    /\ \/ ~signedIn /\ Answered(r, "unauthorized", req[r].effect, FALSE) /\ UNCHANGED term
       \/ signedIn /\ Answered(r, IF killed THEN "unknown" ELSE "refused", req[r].effect, FALSE) /\ UNCHANGED term
       \/ signedIn /\ LostKill(r, next) /\ UNCHANGED term
       \/ signedIn /\ Gone(TRUE) /\ UNCHANGED latch /\ End(EndsWith(term, next))
       \/ signedIn /\ Gone(FALSE) /\ UNCHANGED <<latch, term>>

\* Every kill was confirmed, and one more complete read shows nothing left.
Empty(r) == req[r].finished /\ Live(term) \cap Space = {}

After(r) ==
    /\ req[r].at = "after" /\ Around
    /\ \/ Answered(r, "unknown", "some", FALSE)
       \/ Empty(r) /\ Answered(r, "succeeded", IF Live(term) \cap Space = {} THEN "all" ELSE "some", FALSE)

-----------------------------------------------------------------------------
(***************************************************************************)
(* Everyone else.                                                          *)
(***************************************************************************)

Outside == changes < MaxChanges /\ changes' = changes + 1

\* A terminal starts, gets an agent, its agent works or rests, or it ends.
Change ==
    /\ Outside /\ req' = Shake(req) /\ UNCHANGED <<backend, family, signedIn, window, latch>>
    /\ \E t \in Terminals :
          \E now \in CASE term[t] = "absent" -> {"shell"}
                       [] term[t] = "ended"  -> {}
                       [] OTHER              -> {"idle", "working", "ended"} \ {term[t]} :
              term' = IF now = "ended" THEN [u \in Terminals |-> IF u \in EndsWith(term, t) THEN "ended" ELSE term[u]]
                      ELSE [term EXCEPT ![t] = now]

SignOut == /\ signedIn /\ signedIn' = FALSE
           /\ UNCHANGED <<backend, family, window, term, latch, req, changes>>
MoveWindow == /\ backend = "core" /\ Outside /\ window' = ~window
              /\ UNCHANGED <<backend, family, signedIn, term, latch, req>>

Serve(r) == Begin(r) \/ Read(r) \/ Mutate(r) \/ Confirm(r) \/ Look(r) \/ Kill(r) \/ After(r)

Next == (\E r \in Requests : Ask(r) \/ Serve(r) \/ Perform(r)) \/ Change \/ SignOut \/ MoveWindow

Spec == Init /\ [][Next]_vars

-----------------------------------------------------------------------------
(***************************************************************************)
(* Properties.                                                             *)
(***************************************************************************)

\* The types of the coordinator's state, and that the latch is held by the one
\* request that works on Herdr, and by none when all are answered: one that was
\* answered without giving it back would leave Shepherdr busy for good (workspace_actions.go:289-298;
\* core_actions.go:680-709, 831-840).
ActionTypeOK ==
    /\ backend \in {"tui", "core"} /\ family \in Families /\ signedIn \in BOOLEAN /\ window \in BOOLEAN
    /\ term \in [Terminals -> {"absent", "shell", "idle", "working", "ended"}] /\ changes \in 0 .. MaxChanges
    /\ latch \in Requests \cup {None}
    /\ \A r \in Requests :
          /\ req[r].at \in {"new", "asked", "read", "mutate", "confirm", "look", "kill", "after", "answered"}
          /\ req[r].outcome \in {"pending", "refused", "unauthorized", "unknown", "succeeded"}
          /\ req[r].effect \in {"none", "some", "all"} /\ req[r].due \in BOOLEAN
          /\ latch = r <=> req[r].at \notin {"new", "asked", "answered"}

\* The kinds of answers of Outcome.
AnswerFor(outcome) == IF outcome = "refused" THEN "not_done"
                      ELSE IF outcome = "succeeded" THEN "done"
                      ELSE IF outcome = "unauthorized" THEN "unknown" ELSE outcome

\* What a browser is told about its action is never wrong, whatever became of
\* Herdr's answer and of the terminals meanwhile (workspace_actions.go:264-287;
\* terminal_actions.go:270-290; core_actions.go:255-293, 724-743, 783-802):
\* the coordinators implement the answers of Outcome.
Answers == INSTANCE Outcome WITH effect <- [r \in Requests |-> req[r].effect],
                                 answer <- [r \in Requests |-> AnswerFor(req[r].outcome)]
AnswersAreTruthful == Answers!Spec

\* What a person confirmed still held when the first mutation was sent, unless
\* somebody else changed Herdr after the read (workspace_actions.go:226-239;
\* terminal_actions.go:207-221; core_actions.go:143-158, 206-221): another
\* action of Shepherdr never comes between a read and what it allows.
Sending(r) == ~req[r].sent /\ req'[r].sent
ConfirmedFactsHold ==
    [][\A r \in Requests : Sending(r) /\ flow(req[r].kind).compares /\ ~req[r].shaken
                               => FactsOf(req[r].kind, req[r].target, term) = req[r].expected]_vars

\* Closing a space never kills a terminal before a worker that it started,
\* directly or not, unless each started the other (core_actions.go:955-988).
WorkersEndFirst ==
    \A r \in Requests : LET todo == req[r].todo IN
        \A i, j \in DOMAIN todo :
            i < j /\ todo[i] \in Ancestors(req[r].view, todo[j]) => todo[j] \in Ancestors(req[r].view, todo[i])

=============================================================================
