---------------------------- MODULE ActionsProofs ----------------------------
(***************************************************************************)
(* The coordinators of actions implement Outcome, for every set of         *)
(* requests and terminals, every space, every family of workers and every  *)
(* number of changes made by others.                                       *)
(*                                                                         *)
(* Inv relates where a request is to what Herdr did of it and may still    *)
(* do; every step changes one request in one of three ways that Outcome    *)
(* allows.  What the others have read, or what happened after they had, is *)
(* nothing that Outcome sees.                                              *)
(*                                                                         *)
(* The later parts are about the latch and confirmed facts (ActionInv),    *)
(* and about the order in which a space's terminals are closed (CloseInv). *)
(***************************************************************************)
EXTENDS Actions, FiniteSetTheorems, TLAPS

\* The answers of the coordinators.
Results == {"refused", "unauthorized", "unknown", "succeeded"}

\* A record of a request's fields.
Fields    == {"at", "kind", "target", "expected", "view", "whole", "todo", "finished", "shaken",
              "sent", "due", "effect", "outcome"}
Formed(q) == DOMAIN q = Fields /\ q = [f \in Fields |-> q[f]]

\* What of a request may have been done, by where it is.  While its answer is
\* open, only a close of a whole space has had an effect before its end; Herdr
\* may still perform what was sent, and then the answer did not deny it.
Progress(q) ==
    /\ q.due \in BOOLEAN
    /\ q.effect \in {"none", "some", "all"}
    /\ q.outcome \in Results \cup {"pending"}
    /\ q.outcome = "pending" <=> q.at # "answered"
    /\ q.at \in {"new", "asked", "read", "mutate"} => q.effect = "none"
    /\ q.at \in {"look", "kill", "after"} => q.effect # "all"
    /\ q.at = "look" => q.sent
    /\ q.at = "kill" /\ ~q.sent => q.effect = "none"
    /\ q.due => /\ q.effect # "all"
                /\ q.at = "confirm" \/ (q.at = "answered" /\ q.outcome = "unknown")

Form == req = [r \in Requests |-> req[r]]
Inv  == Form /\ \A r \in Requests : Formed(req[r]) /\ Progress(req[r])

-----------------------------------------------------------------------------
\* A request of which a step changes nothing that Progress looks at.
Alike(q, p) == /\ p.at = q.at /\ p.sent = q.sent /\ p.due = q.due
               /\ p.effect = q.effect /\ p.outcome = q.outcome

\* The three ways in which a step changes what Outcome sees of a request.
Unseen(q, p)    == p.effect = q.effect /\ p.outcome = q.outcome
Grown(q, p)     == /\ p.outcome = q.outcome /\ q.outcome \in {"pending", "unknown"}
                   /\ q.effect # "all" /\ p.effect \in {"some", "all"}
Concluded(q, p) == /\ q.outcome = "pending" /\ p.outcome # "pending"
                   /\ q.effect # "none" => p.effect # "none"
                   /\ q.effect = "all" => p.effect = "all"
                   /\ p.outcome = "refused" => p.effect = "none"
                   /\ p.outcome = "succeeded" => p.effect = "all"

\* A step that changes r in one of these ways, and nothing of the others.
Moves(r) ==
    /\ Form'
    /\ \A c \in Requests : Formed(req'[c])
    /\ \A c \in Requests \ {r} : Alike(req[c], req'[c])
    /\ Progress(req'[r])
    /\ Unseen(req[r], req'[r]) \/ Grown(req[r], req'[r]) \/ Concluded(req[r], req'[r])

\* Such a step keeps the invariant.
LEMMA MovesKeepInv == ASSUME Inv, NEW r \in Requests, Moves(r) PROVE Inv'
<1>1. ASSUME NEW c \in Requests \ {r} PROVE Progress(req'[c])
  BY <1>1 DEF Inv, Moves, Alike, Progress
<1> QED
  BY <1>1 DEF Inv, Moves

\* Such a step is one of Outcome's, or a stutter.
LEMMA MovesImplement ==
    ASSUME Inv, NEW r \in Requests, Moves(r)
    PROVE  [Answers!Next]_Answers!vars
<1> DEFINE eff == [c \in Requests |-> req[c].effect]
           ans == [c \in Requests |-> AnswerFor(req[c].outcome)]
           next == [c \in Requests |-> req'[c].effect]
           told == [c \in Requests |-> AnswerFor(req'[c].outcome)]
           now == req'[r].effect
           reply == AnswerFor(req'[r].outcome)
<1>0. \A c \in Requests : c # r => req'[c].effect = req[c].effect /\ req'[c].outcome = req[c].outcome
  BY DEF Moves, Alike
<1>1. next = [eff EXCEPT ![r] = now] /\ told = [ans EXCEPT ![r] = reply]
  BY <1>0
<1>2. /\ Progress(req[r]) /\ Progress(req'[r])
      /\ eff[r] = req[r].effect /\ ans[r] = AnswerFor(req[r].outcome)
  BY DEF Inv, Moves
<1>3. CASE Unseen(req[r], req'[r])
  <2>1. next = eff /\ told = ans
    BY <1>0, <1>3 DEF Unseen
  <2> QED
    BY <2>1 DEF Answers!vars
<1>4. CASE Grown(req[r], req'[r])
  <2>1. ans[r] \in {"pending", "unknown"} /\ told = ans
    BY <1>0, <1>4 DEF Grown, AnswerFor
  <2>2. eff[r] # "all" /\ now \in {"some", "all"}
    BY <1>4 DEF Grown
  <2> HIDE DEF now
  <2>3. Answers!Act(r)
    BY <1>1, <2>1, <2>2 DEF Answers!Act
  <2> QED
    BY <2>3 DEF Answers!Next
<1>5. CASE Concluded(req[r], req'[r])
  <2>1. ans[r] = "pending" /\ reply \in {"not_done", "done", "unknown"}
    BY <1>2, <1>5 DEF Concluded, AnswerFor, Progress, Results
  <2>2. /\ reply = "not_done" => now = "none"
        /\ reply = "done" => now = "all"
    BY <1>2, <1>5 DEF Concluded, AnswerFor, Progress, Results
  <2>3. /\ now \in Answers!Effects
        /\ eff[r] # "none" => now # "none"
        /\ eff[r] = "all" => now = "all"
    BY <1>2, <1>5 DEF Progress, Answers!Effects, Concluded
  <2> HIDE DEF now, reply
  <2>4. PICK given \in {"not_done", "done", "unknown"} : given = reply
    BY <2>1
  <2>5. Answers!Answer(r, given)
    BY <1>1, <2>1, <2>2, <2>3, <2>4 DEF Answers!Answer
  <2> QED
    BY <2>5 DEF Answers!Next
<1> QED
  BY <1>3, <1>4, <1>5 DEF Moves

-----------------------------------------------------------------------------
\* What happens after a read is recorded with the requests, and changes nothing
\* that Outcome sees of them.
LEMMA ShakeAlike ==
    ASSUME NEW after, \A c \in Requests : Formed(after[c])
    PROVE  /\ Shake(after) = [c \in Requests |-> Shake(after)[c]]
           /\ \A c \in Requests : Formed(Shake(after)[c]) /\ Alike(after[c], Shake(after)[c])
<1>1. ASSUME NEW c \in Requests PROVE Formed(Shake(after)[c]) /\ Alike(after[c], Shake(after)[c])
  <2>1. Shake(after)[c] = [after[c] EXCEPT !.shaken = @ \/ after[c].at \in {"mutate", "kill"}]
    BY DEF Shake
  <2> QED
    BY <2>1 DEF Formed, Fields, Alike
<1> QED
  BY <1>1 DEF Shake

\* A step that gives r alone a new record moves it.
LEMMA OneMoves ==
    ASSUME Inv, NEW r \in Requests, NEW q, req' = [req EXCEPT ![r] = q],
           Formed(q), Progress(q),
           Unseen(req[r], q) \/ Grown(req[r], q) \/ Concluded(req[r], q)
    PROVE  Moves(r)
<1>1. req'[r] = q /\ \A c \in Requests \ {r} : req'[c] = req[c]
  BY DEF Inv, Form
<1>2. Form' /\ \A c \in Requests : Formed(req'[c])
  BY <1>1 DEF Inv, Form
<1> QED
  BY <1>1, <1>2 DEF Moves, Alike

\* An answer that is true of what was done, and of what may still be, moves its
\* request.
LEMMA AnsweredMoves ==
    ASSUME Inv, NEW r \in Requests, req[r].at # "answered",
           NEW outcome \in Results, NEW now \in {"none", "some", "all"}, NEW due \in BOOLEAN,
           req[r].effect # "none" => now # "none",
           req[r].effect = "all" => now = "all",
           outcome = "refused" => now = "none",
           outcome = "succeeded" => now = "all",
           due => outcome = "unknown" /\ now # "all",
           Answered(r, outcome, now, due)
    PROVE  Moves(r)
<1> DEFINE base == IF due THEN req[r] ELSE NoRequest
           q == [base EXCEPT !.at = "answered", !.expected = NoFacts, !.view = NoView, !.todo = <<>>,
                             !.shaken = FALSE, !.sent = req[r].sent \/ due \/ now # "none",
                             !.due = due, !.effect = now, !.outcome = outcome]
<1>1. Formed(base)
  BY DEF Inv, Formed, Fields, NoRequest
<1>2. req' = [req EXCEPT ![r] = q]
  BY DEF Answered
<1> HIDE DEF base
<1>3. /\ Formed(q) /\ q.at = "answered" /\ q.due = due /\ q.effect = now /\ q.outcome = outcome
  BY <1>1 DEF Formed, Fields
<1> HIDE DEF q
<1>4. Progress(q)
  BY <1>3 DEF Progress, Results
<1>5. Concluded(req[r], q)
  BY <1>3 DEF Concluded, Inv, Progress, Results
<1> QED
  BY <1>2, <1>3, <1>4, <1>5, OneMoves

LEMMA RefusedMoves ==
    ASSUME Inv, NEW r \in Requests, req[r].at \in {"asked", "read", "mutate"}, Refused(r)
    PROVE  Moves(r)
<1>1. req[r].at # "answered" /\ req[r].effect = "none"
  BY DEF Inv, Progress
<1>2. Answered(r, "refused", "none", FALSE) /\ "refused" \in Results
  BY DEF Refused, Results
<1> QED
  BY <1>1, <1>2, AnsweredMoves

-----------------------------------------------------------------------------
LEMMA AskMoves == ASSUME Inv, NEW r \in Requests, Ask(r) PROVE Moves(r)
<1>1. PICK k \in Kinds, t \in Terminals :
        req' = [req EXCEPT ![r] = [NoRequest EXCEPT !.at = "asked", !.kind = k,
                  !.target = IF flow(k).target THEN t ELSE None, !.expected = FactsOf(k, t, term)]]
  BY DEF Ask
<1> DEFINE target == IF flow(k).target THEN t ELSE None
           expected == FactsOf(k, t, term)
           q == [NoRequest EXCEPT !.at = "asked", !.kind = k, !.target = target, !.expected = expected]
<1>2. req' = [req EXCEPT ![r] = q]
  BY <1>1
<1> HIDE DEF target, expected
<1>3. Formed(q) /\ q.at = "asked" /\ q.due = FALSE /\ q.effect = "none" /\ q.outcome = "pending"
  BY DEF Formed, Fields, NoRequest
<1> HIDE DEF q
<1>4. req[r].effect = "none" /\ req[r].outcome = "pending"
  BY DEF Ask, Inv, Progress
<1> QED
  BY <1>2, <1>3, <1>4, OneMoves DEF Progress, Unseen

LEMMA BeginMoves == ASSUME Inv, NEW r \in Requests, Begin(r) PROVE Moves(r)
<1> DEFINE next == IF flow(req[r].kind).reads THEN "read" ELSE "mutate"
           q == [req[r] EXCEPT !.at = next]
<1>1. req[r].at = "asked" /\ Formed(req[r]) /\ Progress(req[r])
  BY DEF Begin, Inv
<1>2. next \in {"read", "mutate"}
  OBVIOUS
<1>3. CASE Refused(r)
  BY <1>1, <1>3, RefusedMoves
<1>4. CASE req' = [req EXCEPT ![r].at = next]
  <2>1. req' = [req EXCEPT ![r] = q]
    BY <1>4 DEF Inv, Form
  <2> HIDE DEF next
  <2>2. Formed(q) /\ q.at = next /\ q.due = req[r].due /\ q.effect = req[r].effect /\ q.outcome = req[r].outcome
    BY <1>1 DEF Formed, Fields
  <2> HIDE DEF q
  <2>3. Progress(q) /\ Unseen(req[r], q)
    BY <1>1, <1>2, <2>2 DEF Progress, Unseen
  <2> QED
    BY <2>1, <2>2, <2>3, OneMoves
<1> QED
  BY <1>3, <1>4 DEF Begin, GivesLatchBack

LEMMA ReadMoves == ASSUME Inv, NEW r \in Requests, Read(r) PROVE Moves(r)
<1>1. req[r].at = "read" /\ Formed(req[r]) /\ Progress(req[r])
  BY DEF Read, Inv
<1>2. CASE Refused(r)
  BY <1>1, <1>2, RefusedMoves
<1>3. ASSUME NEW whole, NEW place \in {"mutate", "kill"}, NEW todo,
             req' = [req EXCEPT ![r].view = term, ![r].whole = whole, ![r].at = place, ![r].todo = todo]
      PROVE  Moves(r)
  <2> DEFINE q == [req[r] EXCEPT !.view = term, !.whole = whole, !.at = place, !.todo = todo]
  <2>1. req' = [req EXCEPT ![r] = q]
    BY <1>3 DEF Inv, Form
  <2>2. Formed(q) /\ q.at = place /\ q.due = req[r].due /\ q.effect = req[r].effect /\ q.outcome = req[r].outcome
    BY <1>1 DEF Formed, Fields
  <2> HIDE DEF q
  <2>3. Progress(q) /\ Unseen(req[r], q)
    BY <1>1, <1>3, <2>2 DEF Progress, Unseen
  <2> QED
    BY <2>1, <2>2, <2>3, OneMoves
<1>4. CASE ~Refused(r)
  <2> DEFINE whole == req[r].kind = "close_space" \/ (req[r].kind = "close_terminal" /\ IsLast(term, req[r].target))
             place == IF whole /\ backend = "core" THEN "kill" ELSE "mutate"
             todo  == IF whole /\ backend = "core" THEN CloseOrder(term) ELSE <<>>
  <2>1. req' = [req EXCEPT ![r].view = term, ![r].whole = whole, ![r].at = place, ![r].todo = todo]
    BY <1>4 DEF Read
  <2>2. place \in {"mutate", "kill"}
    OBVIOUS
  <2> HIDE DEF whole, place, todo
  <2> QED
    BY <2>1, <2>2, <1>3
<1> QED
  BY <1>2, <1>4

LEMMA MutateMoves == ASSUME Inv, NEW r \in Requests, Mutate(r) PROVE Moves(r)
<1>1. req[r].at = "mutate" /\ Formed(req[r]) /\ Progress(req[r]) /\ req[r].effect = "none"
  BY DEF Mutate, Inv, Progress
<1>2. {"unauthorized", "unknown", "succeeded"} \subseteq Results
  BY DEF Results
<1>3. CASE Answered(r, "unauthorized", "none", FALSE)
  BY <1>1, <1>2, <1>3, AnsweredMoves
<1>4. CASE Refused(r)
  BY <1>1, <1>4, RefusedMoves
<1>5. CASE Answered(r, "unknown", "none", TRUE)
  BY <1>1, <1>2, <1>5, AnsweredMoves
<1>6. CASE Answered(r, "succeeded", "all", FALSE)
  BY <1>1, <1>2, <1>6, AnsweredMoves
<1>7. CASE req' = [req EXCEPT ![r].at = "confirm", ![r].sent = TRUE, ![r].due = TRUE]
  <2> DEFINE q == [req[r] EXCEPT !.at = "confirm", !.sent = TRUE, !.due = TRUE]
  <2>1. req' = [req EXCEPT ![r] = q]
    BY <1>7 DEF Inv, Form
  <2>2. Formed(q) /\ q.at = "confirm" /\ q.due = TRUE /\ q.effect = "none" /\ q.outcome = req[r].outcome
    BY <1>1 DEF Formed, Fields
  <2> HIDE DEF q
  <2>3. Progress(q) /\ Unseen(req[r], q)
    BY <1>1, <2>2 DEF Progress, Unseen
  <2> QED
    BY <2>1, <2>2, <2>3, OneMoves
<1> QED
  BY <1>3, <1>4, <1>5, <1>6, <1>7 DEF Mutate, Lost

LEMMA ConfirmMoves == ASSUME Inv, NEW r \in Requests, Confirm(r) PROVE Moves(r)
<1>1. req[r].at = "confirm" /\ req[r].effect \in {"none", "some", "all"} /\ {"unknown", "succeeded"} \subseteq Results
  BY DEF Confirm, Inv, Progress, Results
<1>2. CASE Answered(r, "unknown", req[r].effect, req[r].due)
  <2>1. PICK now \in {"none", "some", "all"}, due \in BOOLEAN : now = req[r].effect /\ due = req[r].due
    BY <1>1 DEF Inv, Progress
  <2>2. Answered(r, "unknown", now, due) /\ (due => now # "all")
    BY <1>2, <2>1 DEF Inv, Progress
  <2> QED
    BY <1>1, <2>1, <2>2, AnsweredMoves
<1>3. CASE Answered(r, "succeeded", "all", FALSE)
  BY <1>1, <1>3, AnsweredMoves
<1> QED
  BY <1>2, <1>3 DEF Confirm

-----------------------------------------------------------------------------
\* Herdr performs what it was sent.
LEMMA PerformMoves == ASSUME Inv, NEW r \in Requests, Perform(r) PROVE Moves(r)
<1> DEFINE more == IF req[r].whole /\ backend = "core" THEN "some" ELSE "all"
           done == [req EXCEPT ![r].due = FALSE, ![r].effect = more]
           q == [req[r] EXCEPT !.due = FALSE, !.effect = more]
<1>1. /\ Formed(req[r]) /\ Progress(req[r]) /\ req[r].due /\ more \in {"some", "all"}
      /\ req[r].outcome \in {"pending", "unknown"} /\ req[r].effect # "all"
  BY DEF Perform, Inv, Progress
<1>2. req' = IF Struck(r) = {} THEN done ELSE Shake(done)
  BY DEF Perform
<1> HIDE DEF more
<1>3. done = [req EXCEPT ![r] = q]
  BY DEF Inv, Form
<1>4. /\ Formed(q) /\ q.due = FALSE /\ q.effect = more
      /\ q.at = req[r].at /\ q.outcome = req[r].outcome /\ q.sent = req[r].sent
  BY <1>1 DEF Formed, Fields
<1> HIDE DEF q
<1>5. Progress(q) /\ Grown(req[r], q)
  BY <1>1, <1>4 DEF Progress, Grown
<1>6. /\ done[r] = q /\ \A c \in Requests \ {r} : done[c] = req[c]
      /\ done = [c \in Requests |-> done[c]] /\ \A c \in Requests : Formed(done[c])
  BY <1>3, <1>4 DEF Inv, Form
<1> HIDE DEF done
<1>7. CASE req' = done
  BY <1>5, <1>6, <1>7 DEF Moves, Form, Alike
<1>8. CASE req' = Shake(done)
  <2>1. Form' /\ \A c \in Requests : Formed(req'[c]) /\ Alike(done[c], req'[c])
    BY <1>6, <1>8, ShakeAlike DEF Form
  <2>2. Progress(req'[r]) /\ Grown(req[r], req'[r])
    BY <1>5, <1>6, <2>1 DEF Alike, Progress, Grown
  <2>3. \A c \in Requests \ {r} : Alike(req[c], req'[c])
    BY <1>6, <2>1
  <2> QED
    BY <2>1, <2>2, <2>3 DEF Moves
<1> QED
  BY <1>2, <1>7, <1>8

-----------------------------------------------------------------------------
LEMMA LookMoves == ASSUME Inv, NEW r \in Requests, Look(r) PROVE Moves(r)
<1>1. req[r].at = "look" /\ Formed(req[r]) /\ Progress(req[r]) /\ req[r].effect # "all" /\ req[r].sent
  BY DEF Look, Inv, Progress
<1>2. CASE Answered(r, "unknown", req[r].effect, FALSE)
  <2>1. PICK now \in {"none", "some", "all"} : now = req[r].effect
    BY <1>1 DEF Progress
  <2>2. Answered(r, "unknown", now, FALSE) /\ "unknown" \in Results
    BY <1>2, <2>1 DEF Results
  <2> QED
    BY <1>1, <2>1, <2>2, AnsweredMoves
<1>3. ASSUME NEW place \in {"look", "kill", "after"}, NEW todo,
             req' = [req EXCEPT ![r] = [req[r] EXCEPT !.todo = todo, !.at = place]]
      PROVE  Moves(r)
  <2> DEFINE q == [req[r] EXCEPT !.todo = todo, !.at = place]
  <2>1. /\ Formed(q) /\ q.at = place /\ q.due = req[r].due /\ q.effect = req[r].effect
        /\ q.outcome = req[r].outcome /\ q.sent = req[r].sent
    BY <1>1 DEF Formed, Fields
  <2> HIDE DEF q
  <2>2. Progress(q) /\ Unseen(req[r], q)
    BY <1>1, <2>1 DEF Progress, Unseen
  <2> QED
    BY <1>3, <2>1, <2>2, OneMoves DEF q
<1>4. CASE req' = [req EXCEPT ![r].at = "kill"]
  <2>1. [req[r] EXCEPT !.at = "kill"] = [req[r] EXCEPT !.todo = req[r].todo, !.at = "kill"]
    BY <1>1 DEF Formed, Fields
  <2>2. req' = [req EXCEPT ![r] = [req[r] EXCEPT !.todo = req[r].todo, !.at = "kill"]]
    BY <1>4, <2>1 DEF Inv, Form
  <2> QED
    BY <2>2, <1>3
<1>5. CASE req' = [req EXCEPT ![r].todo = Tail(@), ![r].at = IF Len(req[r].todo) = 1 THEN "after" ELSE "look"]
  <2> DEFINE place == IF Len(req[r].todo) = 1 THEN "after" ELSE "look"
             todo == Tail(req[r].todo)
  <2>1. place \in {"look", "kill", "after"}
    OBVIOUS
  <2>2. req' = [req EXCEPT ![r].todo = todo, ![r].at = place]
    BY <1>5
  <2> HIDE DEF place, todo
  <2>3. req' = [req EXCEPT ![r] = [req[r] EXCEPT !.todo = todo, !.at = place]]
    BY <2>2 DEF Inv, Form
  <2> QED
    BY <2>1, <2>3, <1>3
<1> QED
  BY <1>2, <1>4, <1>5 DEF Look

LEMMA LostKillMoves ==
    ASSUME Inv, NEW r \in Requests, req[r].at = "kill", NEW next, LostKill(r, next)
    PROVE  Moves(r)
<1> DEFINE q == [NoRequest EXCEPT !.at = "answered", !.kind = req[r].kind, !.target = next,
                  !.whole = TRUE, !.sent = TRUE, !.due = TRUE, !.effect = req[r].effect, !.outcome = "unknown"]
<1>1. Progress(req[r]) /\ req[r].effect # "all" /\ req[r].outcome = "pending"
  BY DEF Inv, Progress
<1>2. req' = [req EXCEPT ![r] = q]
  BY DEF LostKill, Lost
<1>3. Formed(q) /\ q.at = "answered" /\ q.due = TRUE /\ q.effect = req[r].effect /\ q.outcome = "unknown"
  BY DEF Formed, Fields, NoRequest
<1> HIDE DEF q
<1>4. Progress(q) /\ Concluded(req[r], q)
  BY <1>1, <1>3 DEF Progress, Concluded, Results
<1> QED
  BY <1>2, <1>3, <1>4, OneMoves

LEMMA KillMoves == ASSUME Inv, NEW r \in Requests, Kill(r) PROVE Moves(r)
<1>1. req[r].at = "kill" /\ Formed(req[r]) /\ Progress(req[r]) /\ req[r].effect # "all"
  BY DEF Kill, Inv, Progress
<1>2. ASSUME NEW outcome \in {"unauthorized", "unknown", "refused"}, outcome = "refused" => ~req[r].sent,
             Answered(r, outcome, req[r].effect, FALSE)
      PROVE  Moves(r)
  <2>1. PICK now \in {"none", "some", "all"} : now = req[r].effect
    BY <1>1 DEF Progress
  <2>2. Answered(r, outcome, now, FALSE) /\ outcome \in Results /\ (outcome = "refused" => now = "none")
    BY <1>1, <1>2, <2>1 DEF Results, Progress
  <2> QED
    BY <1>1, <1>2, <2>1, <2>2, AnsweredMoves
<1>3. CASE Answered(r, IF req[r].sent THEN "unknown" ELSE "refused", req[r].effect, FALSE)
  <2> DEFINE outcome == IF req[r].sent THEN "unknown" ELSE "refused"
  <2>1. Answered(r, outcome, req[r].effect, FALSE) /\ outcome \in {"unauthorized", "unknown", "refused"}
        /\ (outcome = "refused" => ~req[r].sent)
    BY <1>3
  <2> HIDE DEF outcome
  <2> QED
    BY <2>1, <1>2
<1>4. CASE LostKill(r, Head(req[r].todo))
  BY <1>1, <1>4, LostKillMoves
<1>5. ASSUME NEW place \in {"look", "after"}, NEW todo, NEW finished,
             req' = [req EXCEPT ![r].todo = todo, ![r].sent = TRUE, ![r].effect = "some",
                                ![r].finished = finished, ![r].at = place]
      PROVE  Moves(r)
  <2> DEFINE q == [req[r] EXCEPT !.todo = todo, !.sent = TRUE, !.effect = "some",
                                 !.finished = finished, !.at = place]
  <2>1. req' = [req EXCEPT ![r] = q]
    BY <1>5 DEF Inv, Form
  <2>2. /\ Formed(q) /\ q.at = place /\ q.due = req[r].due /\ q.effect = "some"
        /\ q.outcome = req[r].outcome /\ q.sent = TRUE
    BY <1>1 DEF Formed, Fields
  <2> HIDE DEF q
  <2>3. Progress(q) /\ Grown(req[r], q)
    BY <1>1, <2>2 DEF Progress, Grown
  <2> QED
    BY <2>1, <2>2, <2>3, OneMoves
<1>6. ASSUME NEW given \in BOOLEAN,
             req' = [req EXCEPT ![r].todo = Tail(req[r].todo), ![r].sent = TRUE, ![r].effect = "some",
                                ![r].finished = @ /\ given,
                                ![r].at = IF Tail(req[r].todo) = <<>> THEN "after" ELSE "look"]
      PROVE  Moves(r)
  <2> DEFINE place == IF Tail(req[r].todo) = <<>> THEN "after" ELSE "look"
             todo == Tail(req[r].todo)
             finished == req[r].finished /\ given
  <2>1. place \in {"look", "after"}
    OBVIOUS
  <2>2. req' = [req EXCEPT ![r].todo = todo, ![r].sent = TRUE, ![r].effect = "some",
                           ![r].finished = finished, ![r].at = place]
    BY <1>6
  <2> HIDE DEF place, todo, finished
  <2> QED
    BY <2>1, <2>2, <1>5
<1> QED
  BY <1>2, <1>3, <1>4, <1>6 DEF Kill

LEMMA AfterMoves == ASSUME Inv, NEW r \in Requests, After(r) PROVE Moves(r)
<1>1. req[r].at = "after" /\ req[r].effect # "all" /\ {"unknown", "succeeded"} \subseteq Results
  BY DEF After, Inv, Progress, Results
<1>2. CASE Answered(r, "unknown", "some", FALSE)
  BY <1>1, <1>2, AnsweredMoves
<1>3. CASE Empty(r) /\ Answered(r, "succeeded", IF Live(term) \cap Space = {} THEN "all" ELSE "some", FALSE)
  <2>1. Answered(r, "succeeded", "all", FALSE)
    BY <1>3 DEF Empty
  <2> QED
    BY <1>1, <2>1, AnsweredMoves
<1> QED
  BY <1>2, <1>3 DEF After

-----------------------------------------------------------------------------
\* Every step moves one request, or leaves them as Outcome sees them.
Still == Form' /\ \A c \in Requests : Formed(req'[c]) /\ Alike(req[c], req'[c])

LEMMA NextMoves == ASSUME Inv, [Next]_vars PROVE Still \/ \E r \in Requests : Moves(r)
<1>1. ASSUME NEW r \in Requests, Ask(r) \/ Serve(r) \/ Perform(r) PROVE Moves(r)
  BY <1>1, AskMoves, BeginMoves, ReadMoves, MutateMoves, ConfirmMoves, LookMoves, KillMoves, AfterMoves,
     PerformMoves DEF Serve
<1>2. CASE req' = req
  BY <1>2 DEF Still, Inv, Form, Alike
<1>3. CASE req' = Shake(req)
  BY <1>3, ShakeAlike DEF Still, Inv, Form
<1>4. Change => req' = Shake(req)
  BY DEF Change
<1>5. SignOut \/ MoveWindow \/ UNCHANGED vars => req' = req
  BY DEF SignOut, MoveWindow, vars
<1> QED
  BY <1>1, <1>2, <1>3, <1>4, <1>5 DEF Next

LEMMA InitInv == Init => Inv
<1> SUFFICES ASSUME Init PROVE Inv
  OBVIOUS
<1>1. req = [r \in Requests |-> NoRequest]
  BY DEF Init
<1>2. Formed(NoRequest) /\ Progress(NoRequest)
  BY DEF Formed, Fields, Progress, NoRequest, Results
<1> QED
  BY <1>1, <1>2 DEF Inv, Form

LEMMA NextInv == Inv /\ [Next]_vars => Inv'
<1> SUFFICES ASSUME Inv, [Next]_vars PROVE Inv'
  OBVIOUS
<1>1. CASE Still
  BY <1>1 DEF Still, Inv, Alike, Progress
<1> QED
  BY <1>1, NextMoves, MovesKeepInv

\* What Herdr did of a request agrees with how far the request is
\* (workspace_actions.go:226-287; terminal_actions.go:207-290; core_actions.go:206-293,
\* 724-802).
THEOREM RequestsProgress == Spec => []Inv
BY InitInv, NextInv, PTL DEF Spec

\* What a browser is told about its action is never wrong: the coordinators
\* implement Outcome, when an answer is lost, when Herdr performs it late, and
\* when a close of a space stops halfway (workspace_actions.go:264-287;
\* terminal_actions.go:270-290; core_actions.go:255-293, 724-743, 783-802).
THEOREM ActionsImplementOutcome == Spec => AnswersAreTruthful
<1>1. Init => Answers!Init
  BY DEF Init, Answers!Init, NoRequest, AnswerFor
<1>2. Inv /\ [Next]_vars => [Answers!Next]_Answers!vars
  <2> SUFFICES ASSUME Inv, [Next]_vars PROVE [Answers!Next]_Answers!vars
    OBVIOUS
  <2>1. CASE Still
    <3>1. \A c \in Requests : req'[c].effect = req[c].effect /\ req'[c].outcome = req[c].outcome
      BY <2>1 DEF Still, Alike
    <3> QED
      BY <3>1 DEF Answers!vars
  <2> QED
    BY <2>1, NextMoves, MovesImplement
<1> QED
  BY <1>1, <1>2, RequestsProgress, PTL DEF Spec, AnswersAreTruthful, Answers!Spec

\* What Outcome promises holds of every behaviour it allows: one of its steps
\* keeps the answers true, and an answer that was given keeps what it said.
LEMMA OutcomeKeepsTruth ==
    Answers!TypeOK /\ Answers!Truthful /\ [Answers!Next]_Answers!vars => Answers!TypeOK' /\ Answers!Truthful'
<1> SUFFICES ASSUME Answers!TypeOK, Answers!Truthful, [Answers!Next]_Answers!vars
             PROVE  Answers!TypeOK' /\ Answers!Truthful'
  OBVIOUS
<1>1. CASE UNCHANGED Answers!vars
  BY <1>1 DEF Answers!vars, Answers!TypeOK, Answers!Truthful
<1>2. ASSUME NEW r \in Requests, Answers!Act(r) PROVE Answers!TypeOK' /\ Answers!Truthful'
  BY <1>2 DEF Answers!Act, Answers!TypeOK, Answers!Truthful, Answers!Effects, Answers!Answers
<1>3. ASSUME NEW r \in Requests, NEW given \in {"not_done", "done", "unknown"}, Answers!Answer(r, given)
      PROVE  Answers!TypeOK' /\ Answers!Truthful'
  BY <1>3 DEF Answers!Answer, Answers!TypeOK, Answers!Truthful, Answers!Effects, Answers!Answers
<1> QED
  BY <1>1, <1>2, <1>3 DEF Answers!Next

\* No answer is ever wrong: what was answered "not_done" never happens, and what
\* was answered "done" was done in full (workspace_actions.go:264-287; terminal_actions.go:270-290; core_actions.go:255-293,
\* 724-743, 783-802).
THEOREM ActionAnswersStayTrue == Spec => []Answers!Truthful
<1>1. Answers!Init => Answers!TypeOK /\ Answers!Truthful
  BY DEF Answers!Init, Answers!TypeOK, Answers!Truthful, Answers!Effects, Answers!Answers
<1> QED
  BY <1>1, OutcomeKeepsTruth, ActionsImplementOutcome, PTL DEF AnswersAreTruthful, Answers!Spec

-----------------------------------------------------------------------------
(***************************************************************************)
(* The latch, and the facts that a person confirmed.                       *)
(*                                                                         *)
(* The latch is held by the one request that works on Herdr, so nothing of *)
(* another one comes between a read and the mutation that it allows; what  *)
(* does, Herdr performing late or somebody else's change, is recorded.     *)
(***************************************************************************)

Working == {"read", "mutate", "confirm", "look", "kill", "after"}

WorldOK ==
    /\ backend \in {"tui", "core"} /\ family \in Families /\ signedIn \in BOOLEAN /\ window \in BOOLEAN
    /\ term \in [Terminals -> {"absent", "shell", "idle", "working", "ended"}] /\ changes \in 0 .. MaxChanges

LatchOK ==
    /\ latch \in Requests \cup {None}
    /\ \A r \in Requests : /\ req[r].at \in Working \cup {"new", "asked", "answered"}
                           /\ latch = r <=> req[r].at \in Working

\* The request will send its first mutation next, if it sends one.
Ready(q) == q.at = "mutate" \/ (q.at = "kill" /\ ~q.sent)

Confirmed(r) ==
    /\ req[r].at \in Working \cup {"asked"} => req[r].kind \in Kinds
    /\ req[r].at \in {"confirm", "look", "after"} => req[r].sent
    /\ Ready(req[r]) /\ flow(req[r].kind).compares /\ ~req[r].shaken =>
          FactsOf(req[r].kind, req[r].target, term) = req[r].expected

ActionInv == Inv /\ WorldOK /\ LatchOK /\ \A r \in Requests : Confirmed(r)

-----------------------------------------------------------------------------
\* Whatever compares facts reads them first.
LEMMA ComparesReads == ASSUME NEW k \in Kinds PROVE flow(k).compares => flow(k).reads
<1>1. /\ runCreateSpace.compares = FALSE /\ runCreateWorktree.reads = TRUE /\ runDestructive.reads = TRUE
      /\ runSplitTerminal.reads = TRUE /\ runRenameTerminal.reads = TRUE /\ runCloseTerminal.reads = TRUE
  BY DEF Flow, runCreateSpace, runCreateWorktree, runDestructive, runSplitTerminal, runRenameTerminal, runCloseTerminal
<1>2. /\ runCreateSpaceInApp.compares = FALSE /\ runRenameSpace.compares = FALSE
      /\ runCreateSpaceInCore.reads = TRUE /\ runSplitInApp.reads = TRUE /\ runNewTerminalInCore.reads = TRUE
      /\ runPinAgent.reads = TRUE /\ runCloseSpaceInCore.reads = TRUE /\ runTerminal.reads = TRUE
  BY DEF Flow, runCreateSpaceInApp, runRenameSpace, runCreateSpaceInCore, runSplitInApp, runNewTerminalInCore,
         runPinAgent, runCloseSpaceInCore, runTerminal
<1>3. CASE backend = "tui"
  <2>1. flow(k) \in {runCreateSpace, runCreateWorktree, runDestructive, runSplitTerminal, runRenameTerminal, runCloseTerminal}
    BY <1>3 DEF Kinds, flow, Tui
  <2> QED
    BY <1>1, <2>1
<1>4. CASE backend # "tui"
  <2>1. flow(k) \in {runCreateSpaceInApp, runRenameSpace, runCreateSpaceInCore, runSplitInApp, runNewTerminalInCore,
                     runPinAgent, runCloseSpaceInCore, runTerminal}
    BY <1>4 DEF Kinds, flow, Core
  <2> QED
    BY <1>2, <2>1
<1> QED
  BY <1>3, <1>4

\* What a read shows depends on the terminals and on who started them.
LEMMA FactsStay ==
    ASSUME UNCHANGED <<backend, family, term>>, NEW k, NEW t
    PROVE  FactsOf(k, t, term)' = FactsOf(k, t, term)
BY DEF FactsOf, SpaceFacts, TerminalFacts, IsLast, EndsWith, Live, Agents, Space

-----------------------------------------------------------------------------
\* A request that a step leaves alone, or only notes a change of Herdr with.
Noted(q, p) == p = q \/ p = [q EXCEPT !.shaken = @ \/ q.at \in {"mutate", "kill"}]

\* It stays as it is, when Herdr only changes under it if that is noted, or if
\* it has not read.
LEMMA OthersConfirmed ==
    ASSUME ActionInv, NEW c \in Requests, Noted(req[c], req'[c]), UNCHANGED <<backend, family>>,
           \/ UNCHANGED term
           \/ req[c].at \notin {"mutate", "kill"}
           \/ req'[c] = [req[c] EXCEPT !.shaken = @ \/ req[c].at \in {"mutate", "kill"}]
    PROVE  /\ Confirmed(c)'
           /\ req'[c].at = req[c].at /\ req'[c].sent = req[c].sent
<1>0. Formed(req[c]) /\ Confirmed(c)
  BY DEF ActionInv, Inv
<1>1. /\ req'[c].at = req[c].at /\ req'[c].sent = req[c].sent /\ req'[c].kind = req[c].kind
      /\ req'[c].target = req[c].target /\ req'[c].expected = req[c].expected
      /\ ~req'[c].shaken => ~req[c].shaken
  BY <1>0 DEF Formed, Fields, Noted
<1>2. PICK k, t : k = req[c].kind /\ t = req[c].target /\ k = req'[c].kind /\ t = req'[c].target
  BY <1>1
<1>3. Kinds' = Kinds /\ flow(k)' = flow(k)
  BY DEF Kinds, flow
<1>4. CASE UNCHANGED term
  <2>1. FactsOf(k, t, term)' = FactsOf(k, t, term)
    BY <1>4, FactsStay
  <2> QED
    BY <1>0, <1>1, <1>2, <1>3, <2>1 DEF Confirmed, Ready
<1>5. CASE req[c].at \notin {"mutate", "kill"}
  BY <1>0, <1>1, <1>2, <1>3, <1>5 DEF Confirmed, Ready
<1>6. CASE req'[c] = [req[c] EXCEPT !.shaken = @ \/ req[c].at \in {"mutate", "kill"}]
  <2>1. Ready(req[c]) => req'[c].shaken
    BY <1>0, <1>6 DEF Formed, Fields, Ready
  <2> QED
    BY <1>0, <1>1, <1>2, <1>3, <2>1 DEF Confirmed, Ready
<1> QED
  BY <1>1, <1>4, <1>5, <1>6

\* Herdr's terminals keep to their states.
LEMMA WorldNext == ASSUME WorldOK, [Next]_vars PROVE WorldOK'
<1>1. UNCHANGED <<backend, family>>
  BY DEF Next, Ask, Serve, Begin, Read, Mutate, Confirm, Look, Kill, After, Perform, Around, Change, SignOut,
         MoveWindow, vars
<1>2. signedIn' \in BOOLEAN
  <2>1. CASE UNCHANGED signedIn
    BY <2>1 DEF WorldOK
  <2>2. CASE SignOut
    BY <2>2, Zenon DEF SignOut
  <2> QED
    BY <2>1, <2>2 DEF Next, Ask, Serve, Begin, Read, Mutate, Confirm, Look, Kill, After, Perform, Around, Change,
                      MoveWindow, vars
<1>3. window' \in BOOLEAN
  <2>1. CASE UNCHANGED window
    BY <2>1 DEF WorldOK
  <2>2. CASE MoveWindow
    BY <2>2, Zenon DEF MoveWindow
  <2> QED
    BY <2>1, <2>2 DEF Next, Ask, Serve, Begin, Read, Mutate, Confirm, Look, Kill, After, Perform, Around, Change,
                      SignOut, vars
<1>4. changes' \in 0 .. MaxChanges
  <2>1. CASE UNCHANGED changes
    BY <2>1 DEF WorldOK
  <2>2. CASE Outside
    BY <2>2, ActionBounds DEF WorldOK, Outside
  <2> QED
    BY <2>1, <2>2 DEF Next, Ask, Serve, Begin, Read, Mutate, Confirm, Look, Kill, After, Perform, Around, Change,
                      SignOut, MoveWindow, vars
<1>5. term' \in [Terminals -> {"absent", "shell", "idle", "working", "ended"}]
  <2>0. term \in [Terminals -> {"absent", "shell", "idle", "working", "ended"}]
    BY DEF WorldOK
  <2>1. CASE UNCHANGED term
    BY <2>0, <2>1
  <2>2. ASSUME NEW gone, term' = [t \in Terminals |-> IF t \in gone THEN "ended" ELSE term[t]]
        PROVE  term' \in [Terminals -> {"absent", "shell", "idle", "working", "ended"}]
    BY <2>0, <2>2
  <2>3. CASE Change
    <3>0. PICK t \in Terminals :
            \E now \in CASE term[t] = "absent" -> {"shell"}
                         [] term[t] = "ended"  -> {}
                         [] OTHER              -> {"idle", "working", "ended"} \ {term[t]} :
               term' = IF now = "ended" THEN [u \in Terminals |-> IF u \in EndsWith(term, t) THEN "ended" ELSE term[u]]
                       ELSE [term EXCEPT ![t] = now]
      BY <2>3 DEF Change
    <3>1. PICK now \in {"shell", "idle", "working", "ended"} :
            term' = IF now = "ended" THEN [u \in Terminals |-> IF u \in EndsWith(term, t) THEN "ended" ELSE term[u]]
                    ELSE [term EXCEPT ![t] = now]
      BY <3>0
    <3>2. CASE now = "ended"
      BY <2>2, <3>1, <3>2
    <3>3. CASE now # "ended"
      BY <2>0, <3>1, <3>3
    <3> QED
      BY <3>2, <3>3
  <2>4. ASSUME NEW gone, End(gone) PROVE term' \in [Terminals -> {"absent", "shell", "idle", "working", "ended"}]
    BY <2>2, <2>4 DEF End
  <2>5. ASSUME NEW r \in Requests, Ask(r) \/ Serve(r) \/ Perform(r)
        PROVE  UNCHANGED term \/ \E gone : End(gone)
    <3>1. CASE Mutate(r)
      BY <3>1 DEF Mutate
    <3>2. CASE Kill(r)
      BY <3>2 DEF Kill
    <3>3. CASE Perform(r)
      BY <3>3 DEF Perform
    <3>4. CASE Ask(r) \/ Begin(r) \/ Read(r) \/ Confirm(r) \/ Look(r) \/ After(r)
      BY <3>4 DEF Ask, Begin, Read, Confirm, Look, After, Around
    <3> QED
      BY <2>5, <3>1, <3>2, <3>3, <3>4 DEF Serve
  <2>6. SignOut \/ MoveWindow \/ UNCHANGED vars => UNCHANGED term
    BY DEF SignOut, MoveWindow, vars
  <2> QED
    BY <2>1, <2>3, <2>4, <2>5, <2>6 DEF Next
<1> QED
  BY <1>1, <1>2, <1>3, <1>4, <1>5 DEF WorldOK

\* A step of one request.
LEMMA OneKeeps ==
    ASSUME ActionInv, [Next]_vars, NEW r \in Requests, UNCHANGED <<backend, family>>,
           \A c \in Requests : c # r =>
               /\ Noted(req[c], req'[c])
               /\ \/ UNCHANGED term
                  \/ req[c].at \notin {"mutate", "kill"}
                  \/ req'[c] = [req[c] EXCEPT !.shaken = @ \/ req[c].at \in {"mutate", "kill"}],
           \/ latch \in {None, r} /\ latch' = r /\ req'[r].at \in Working
           \/ latch # r /\ latch' = latch /\ req'[r].at \in {"new", "asked", "answered"}
           \/ latch = r /\ latch' = None /\ req'[r].at \in {"new", "asked", "answered"},
           Confirmed(r)'
    PROVE  ActionInv'
<1>1. Inv' /\ WorldOK'
  BY NextInv, WorldNext DEF ActionInv
<1>2. \A c \in Requests : c # r => Confirmed(c)' /\ req'[c].at = req[c].at
  BY OthersConfirmed
<1>3. LatchOK'
  BY <1>2, ActionNames DEF ActionInv, LatchOK, Working
<1> QED
  BY <1>1, <1>2, <1>3 DEF ActionInv

\* An answer gives the latch back.
LEMMA AnsweredKeeps ==
    ASSUME ActionInv, [Next]_vars, NEW r \in Requests, UNCHANGED <<backend, family>>,
           UNCHANGED term \/ latch = r,
           NEW outcome, NEW effect, NEW due, Answered(r, outcome, effect, due)
    PROVE  ActionInv'
<1>1. req'[r].at = "answered" /\ \A c \in Requests : c # r => req'[c] = req[c]
  BY DEF ActionInv, Inv, Form, Formed, Fields, Answered, NoRequest
<1>2. \A c \in Requests : c # r => UNCHANGED term \/ req[c].at \notin {"mutate", "kill"}
  BY DEF ActionInv, LatchOK, Working
<1>3. Confirmed(r)'
  BY <1>1 DEF Confirmed, Ready, Working
<1>4. latch' = IF latch = r THEN None ELSE latch
  BY DEF Answered
<1> QED
  BY <1>1, <1>2, <1>3, <1>4, OneKeeps DEF Noted

LEMMA AskKeeps == ASSUME ActionInv, [Next]_vars, NEW r \in Requests, Ask(r) PROVE ActionInv'
<1>1. PICK k \in Kinds, t \in Terminals :
        req' = [req EXCEPT ![r] = [NoRequest EXCEPT !.at = "asked", !.kind = k,
                  !.target = IF flow(k).target THEN t ELSE None, !.expected = FactsOf(k, t, term)]]
  BY DEF Ask
<1> DEFINE target == IF flow(k).target THEN t ELSE None
           expected == FactsOf(k, t, term)
           q == [NoRequest EXCEPT !.at = "asked", !.kind = k, !.target = target, !.expected = expected]
<1> HIDE DEF target, expected
<1>2. req' = [req EXCEPT ![r] = q]
  BY <1>1 DEF target, expected
<1>3. q.at = "asked" /\ q.kind = k
  BY DEF NoRequest
<1> HIDE DEF q
<1>4. req'[r] = q /\ \A c \in Requests : c # r => req'[c] = req[c]
  BY <1>2 DEF ActionInv, Inv, Form
<1>5. UNCHANGED <<backend, family, term, latch>> /\ latch # r
  BY DEF Ask, Around, ActionInv, LatchOK, Working
<1>6. Confirmed(r)'
  BY <1>3, <1>4, <1>5 DEF Confirmed, Ready, Kinds
<1> QED
  BY <1>3, <1>4, <1>5, <1>6, OneKeeps DEF Noted

LEMMA BeginKeeps == ASSUME ActionInv, [Next]_vars, NEW r \in Requests, Begin(r) PROVE ActionInv'
<1> DEFINE next == IF flow(req[r].kind).reads THEN "read" ELSE "mutate"
<1>0. UNCHANGED <<backend, family, term>> /\ Confirmed(r) /\ Formed(req[r]) /\ req[r].at = "asked"
  BY DEF Begin, Around, ActionInv, Inv
<1>1. CASE Refused(r)
  BY <1>0, <1>1, AnsweredKeeps DEF Refused
<1>2. CASE acquire /\ latch' = r /\ req' = [req EXCEPT ![r].at = next]
  <2>1. /\ req'[r].at = next /\ req'[r].kind = req[r].kind
        /\ \A c \in Requests : c # r => req'[c] = req[c]
    BY <1>0, <1>2 DEF ActionInv, Inv, Form, Formed, Fields
  <2>2. PICK k \in Kinds : k = req[r].kind /\ k = req'[r].kind
    BY <1>0, <2>1 DEF Confirmed
  <2>3. Kinds' = Kinds /\ flow(k)' = flow(k)
    BY <1>0 DEF Kinds, flow
  <2>4. next \in {"read", "mutate"} /\ (next = "mutate" => ~flow(k).compares)
    BY <2>2, ComparesReads
  <2> HIDE DEF next
  <2>5. Confirmed(r)'
    BY <2>1, <2>2, <2>3, <2>4 DEF Confirmed, Ready
  <2>6. next \in Working
    BY <2>4 DEF Working
  <2> QED
    BY <1>0, <1>2, <2>1, <2>5, <2>6, OneKeeps DEF Noted, acquire
<1> QED
  BY <1>1, <1>2 DEF Begin, GivesLatchBack

LEMMA ReadKeeps == ASSUME ActionInv, [Next]_vars, NEW r \in Requests, Read(r) PROVE ActionInv'
<1>0. /\ UNCHANGED <<backend, family, term>> /\ Confirmed(r) /\ Formed(req[r]) /\ req[r].at = "read"
      /\ latch = r
  BY DEF Read, Around, ActionInv, Inv, LatchOK, Working
<1>1. CASE Refused(r)
  BY <1>0, <1>1, AnsweredKeeps DEF Refused
<1>2. CASE ~Refused(r)
  <2> DEFINE whole == req[r].kind = "close_space" \/ (req[r].kind = "close_terminal" /\ IsLast(term, req[r].target))
             place == IF whole /\ backend = "core" THEN "kill" ELSE "mutate"
             todo  == IF whole /\ backend = "core" THEN CloseOrder(term) ELSE <<>>
  <2>1. /\ req' = [req EXCEPT ![r].view = term, ![r].whole = whole, ![r].at = place, ![r].todo = todo]
        /\ flow(req[r].kind).compares => FactsOf(req[r].kind, req[r].target, term) = req[r].expected
        /\ UNCHANGED latch
    BY <1>2 DEF Read
  <2>2. place \in {"mutate", "kill"}
    OBVIOUS
  <2> HIDE DEF whole, place, todo
  <2>3. /\ req'[r].at = place /\ req'[r].kind = req[r].kind /\ req'[r].target = req[r].target
        /\ req'[r].expected = req[r].expected
        /\ \A c \in Requests : c # r => req'[c] = req[c]
    BY <1>0, <2>1 DEF ActionInv, Inv, Form, Formed, Fields
  <2>4. PICK k, t : k \in Kinds /\ k = req[r].kind /\ k = req'[r].kind /\ t = req[r].target /\ t = req'[r].target
    BY <1>0, <2>3 DEF Confirmed, Working
  <2>5. Kinds' = Kinds /\ flow(k)' = flow(k) /\ FactsOf(k, t, term)' = FactsOf(k, t, term)
    BY <1>0, FactsStay DEF Kinds, flow
  <2>6. Confirmed(r)'
    BY <2>1, <2>2, <2>3, <2>4, <2>5 DEF Confirmed, Ready
  <2>7. place \in Working
    BY <2>2 DEF Working
  <2> QED
    BY <1>0, <2>1, <2>3, <2>6, <2>7, OneKeeps DEF Noted
<1> QED
  BY <1>1, <1>2

LEMMA MutateKeeps == ASSUME ActionInv, [Next]_vars, NEW r \in Requests, Mutate(r) PROVE ActionInv'
<1>0. /\ UNCHANGED <<backend, family>> /\ Confirmed(r) /\ Formed(req[r]) /\ req[r].at = "mutate"
      /\ latch = r
  BY DEF Mutate, ActionInv, Inv, LatchOK, Working
<1>1. ASSUME NEW outcome, NEW effect, NEW due, Answered(r, outcome, effect, due) PROVE ActionInv'
  BY <1>0, <1>1, AnsweredKeeps
<1>2. CASE UNCHANGED <<term, latch>> /\ req' = [req EXCEPT ![r].at = "confirm", ![r].sent = TRUE, ![r].due = TRUE]
  <2>1. /\ req'[r].at = "confirm" /\ req'[r].kind = req[r].kind /\ req'[r].sent
        /\ \A c \in Requests : c # r => req'[c] = req[c]
    BY <1>0, <1>2 DEF ActionInv, Inv, Form, Formed, Fields
  <2>2. Confirmed(r)' /\ req'[r].at \in Working
    BY <1>0, <2>1 DEF Confirmed, Ready, Kinds, Working
  <2> QED
    BY <1>0, <1>2, <2>1, <2>2, OneKeeps DEF Noted
<1> QED
  BY <1>1, <1>2 DEF Mutate, Refused

LEMMA ConfirmKeeps == ASSUME ActionInv, [Next]_vars, NEW r \in Requests, Confirm(r) PROVE ActionInv'
<1>1. UNCHANGED <<backend, family, term>>
  BY DEF Confirm, Around
<1> QED
  BY <1>1, AnsweredKeeps DEF Confirm

LEMMA AfterKeeps == ASSUME ActionInv, [Next]_vars, NEW r \in Requests, After(r) PROVE ActionInv'
<1>1. UNCHANGED <<backend, family, term>>
  BY DEF After, Around
<1> QED
  BY <1>1, AnsweredKeeps DEF After

LEMMA LookKeeps == ASSUME ActionInv, [Next]_vars, NEW r \in Requests, Look(r) PROVE ActionInv'
<1> DEFINE place == IF Len(req[r].todo) = 1 THEN "after" ELSE "look"
           rest  == Tail(req[r].todo)
<1>0. /\ UNCHANGED <<backend, family, term>> /\ Confirmed(r) /\ Formed(req[r]) /\ req[r].at = "look"
      /\ latch = r /\ req[r].sent
  BY DEF Look, Around, ActionInv, Inv, LatchOK, Working, Confirmed
<1>1. CASE \E effect : Answered(r, "unknown", effect, FALSE)
  BY <1>0, <1>1, AnsweredKeeps
<1>2. CASE /\ UNCHANGED latch
           /\ \/ req' = [req EXCEPT ![r].at = "kill"]
              \/ req' = [req EXCEPT ![r].todo = rest, ![r].at = place]
  <2>1. place \in {"look", "after"}
    OBVIOUS
  <2> HIDE DEF place, rest
  <2>2. /\ req'[r].at \in {"look", "kill", "after"} /\ req'[r].kind = req[r].kind /\ req'[r].sent = req[r].sent
        /\ \A c \in Requests : c # r => req'[c] = req[c]
    BY <1>0, <1>2, <2>1 DEF ActionInv, Inv, Form, Formed, Fields
  <2>3. Confirmed(r)' /\ req'[r].at \in Working
    BY <1>0, <2>2 DEF Confirmed, Ready, Kinds, Working
  <2> QED
    BY <1>0, <1>2, <2>2, <2>3, OneKeeps DEF Noted
<1> QED
  BY <1>1, <1>2 DEF Look

LEMMA KillKeeps == ASSUME ActionInv, [Next]_vars, NEW r \in Requests, Kill(r) PROVE ActionInv'
<1> DEFINE rest  == Tail(req[r].todo)
           place == IF rest = <<>> THEN "after" ELSE "look"
<1>0. /\ UNCHANGED <<backend, family>> /\ Confirmed(r) /\ Formed(req[r]) /\ req[r].at = "kill"
      /\ latch = r
  BY DEF Kill, ActionInv, Inv, LatchOK, Working
<1>1. \A c \in Requests : c # r => req[c].at \notin {"mutate", "kill"}
  BY <1>0 DEF ActionInv, LatchOK, Working
<1>2. ASSUME NEW outcome, NEW effect, Answered(r, outcome, effect, FALSE) PROVE ActionInv'
  BY <1>0, <1>2, AnsweredKeeps
<1>3. CASE LostKill(r, Head(req[r].todo))
  <2>1. /\ req'[r].at = "answered" /\ latch' = None
        /\ \A c \in Requests : c # r => req'[c] = req[c]
    BY <1>3 DEF LostKill, NoRequest, ActionInv, Inv, Form
  <2>2. Confirmed(r)'
    BY <2>1 DEF Confirmed, Ready, Working
  <2> QED
    BY <1>0, <1>1, <2>1, <2>2, OneKeeps DEF Noted
<1>4. ASSUME NEW finished, UNCHANGED latch,
             req' = [req EXCEPT ![r].todo = rest, ![r].sent = TRUE, ![r].effect = "some",
                                ![r].finished = @ /\ finished, ![r].at = place]
      PROVE  ActionInv'
  <2>1. place \in {"look", "after"}
    OBVIOUS
  <2> HIDE DEF place, rest
  <2>2. /\ req'[r].at = place /\ req'[r].kind = req[r].kind /\ req'[r].sent
        /\ \A c \in Requests : c # r => req'[c] = req[c]
    BY <1>0, <1>4 DEF ActionInv, Inv, Form, Formed, Fields
  <2>3. Confirmed(r)' /\ req'[r].at \in Working
    BY <1>0, <2>1, <2>2 DEF Confirmed, Ready, Kinds, Working
  <2> QED
    BY <1>0, <1>1, <1>4, <2>2, <2>3, OneKeeps DEF Noted
<1> QED
  BY <1>2, <1>3, <1>4 DEF Kill

LEMMA PerformKeeps == ASSUME ActionInv, [Next]_vars, NEW r \in Requests, Perform(r) PROVE ActionInv'
<1> DEFINE effect == IF req[r].whole /\ backend = "core" THEN "some" ELSE "all"
           done   == [req EXCEPT ![r].due = FALSE, ![r].effect = effect]
<1>0. /\ UNCHANGED <<backend, family, latch>> /\ Confirmed(r) /\ Formed(req[r]) /\ Progress(req[r]) /\ req[r].due
  BY DEF Perform, ActionInv, Inv
<1>1. req[r].at \in {"confirm", "answered"}
  BY <1>0 DEF Progress
<1> HIDE DEF effect
<1>2. /\ done = [c \in Requests |-> done[c]]
      /\ done[r].at = req[r].at /\ done[r].kind = req[r].kind /\ done[r].sent = req[r].sent /\ Formed(done[r])
      /\ \A c \in Requests : c # r => done[c] = req[c]
  BY <1>0 DEF ActionInv, Inv, Form, Formed, Fields
<1>3. (Struck(r) = {} /\ req' = done /\ UNCHANGED term) \/ req' = Shake(done)
  <2>1. Struck(r) = {} => UNCHANGED term
    <3> SUFFICES ASSUME Struck(r) = {} PROVE term' = term
      OBVIOUS
    <3>1. End({})
      BY DEF Perform
    <3>2. term = [t \in Terminals |-> term[t]]
      BY DEF ActionInv, WorldOK
    <3> QED
      BY <3>1, <3>2 DEF End
  <2> QED
    BY <2>1 DEF Perform, effect
<1> HIDE DEF done
<1>4. /\ req'[r].at = req[r].at /\ req'[r].kind = req[r].kind /\ req'[r].sent = req[r].sent
      /\ \A c \in Requests : c # r =>
            \/ UNCHANGED term /\ req'[c] = req[c]
            \/ req'[c] = [req[c] EXCEPT !.shaken = @ \/ req[c].at \in {"mutate", "kill"}]
  <2>1. CASE req' = done /\ UNCHANGED term
    BY <1>2, <2>1
  <2>2. CASE req' = Shake(done)
    <3>1. \A c \in Requests : req'[c] = [done[c] EXCEPT !.shaken = @ \/ done[c].at \in {"mutate", "kill"}]
      BY <2>2 DEF Shake
    <3>2. req'[r].at = done[r].at /\ req'[r].kind = done[r].kind /\ req'[r].sent = done[r].sent
      BY <1>2, <3>1 DEF Formed, Fields
    <3> QED
      BY <1>2, <3>1, <3>2
  <2> QED
    BY <1>3, <2>1, <2>2
<1>5. Confirmed(r)'
  BY <1>0, <1>1, <1>4 DEF Confirmed, Ready, Kinds, Working
<1>6. \/ latch \in {None, r} /\ latch' = r /\ req'[r].at \in Working
      \/ latch # r /\ latch' = latch /\ req'[r].at \in {"new", "asked", "answered"}
  BY <1>0, <1>1, <1>4 DEF ActionInv, LatchOK, Working
<1> QED
  BY <1>0, <1>4, <1>5, <1>6, OneKeeps DEF Noted

\* A step that only notes what happened to Herdr.
LEMMA AroundKeeps ==
    ASSUME ActionInv, [Next]_vars, UNCHANGED <<backend, family, latch>>,
           \/ UNCHANGED <<req, term>>
           \/ req' = Shake(req)
    PROVE  ActionInv'
<1>1. \A c \in Requests :
         \/ UNCHANGED term /\ req'[c] = req[c]
         \/ req'[c] = [req[c] EXCEPT !.shaken = @ \/ req[c].at \in {"mutate", "kill"}]
  BY DEF Shake
<1>2. \A c \in Requests : Confirmed(c)' /\ req'[c].at = req[c].at
  BY <1>1, OthersConfirmed DEF Noted
<1>3. LatchOK'
  BY <1>2 DEF ActionInv, LatchOK
<1>4. Inv' /\ WorldOK'
  BY NextInv, WorldNext DEF ActionInv
<1> QED
  BY <1>2, <1>3, <1>4 DEF ActionInv

LEMMA InitAction == Init => ActionInv
<1> SUFFICES ASSUME Init PROVE ActionInv
  OBVIOUS
<1>1. WorldOK
  <2>1. term \in [Terminals -> {"absent", "shell", "idle", "working", "ended"}]
    BY DEF Init
  <2>2. window \in BOOLEAN /\ signedIn \in BOOLEAN
    BY Zenon DEF Init
  <2> QED
    BY <2>1, <2>2, ActionBounds DEF Init, WorldOK
<1>2. \A r \in Requests : req[r].at = "new" /\ latch # r
  BY ActionNames DEF Init, NoRequest
<1> QED
  BY <1>1, <1>2, InitInv DEF Init, ActionInv, LatchOK, Confirmed, Ready, Working

LEMMA NextAction == ActionInv /\ [Next]_vars => ActionInv'
<1> SUFFICES ASSUME ActionInv, [Next]_vars PROVE ActionInv'
  OBVIOUS
<1>1. ASSUME NEW r \in Requests, Ask(r) \/ Serve(r) \/ Perform(r) PROVE ActionInv'
  BY <1>1, AskKeeps, BeginKeeps, ReadKeeps, MutateKeeps, ConfirmKeeps, LookKeeps, KillKeeps, AfterKeeps,
     PerformKeeps DEF Serve
<1>2. CASE Change
  BY <1>2, AroundKeeps DEF Change
<1>3. CASE SignOut \/ MoveWindow \/ UNCHANGED vars
  BY <1>3, AroundKeeps DEF SignOut, MoveWindow, vars
<1> QED
  BY <1>1, <1>2, <1>3 DEF Next

\* The latch is held by the one request that works on Herdr, and by none when
\* all are answered, so no way out of a handler leaves Shepherdr busy for good
\* (workspace_actions.go:289-298; core_actions.go:680-709, 831-840).
THEOREM ActionTypes == Spec => []ActionTypeOK
<1>1. ActionInv => ActionTypeOK
  <2> SUFFICES ASSUME ActionInv, NEW r \in Requests
               PROVE  /\ req[r].at \in {"new", "asked", "read", "mutate", "confirm", "look", "kill", "after", "answered"}
                      /\ req[r].outcome \in {"pending", "refused", "unauthorized", "unknown", "succeeded"}
                      /\ req[r].effect \in {"none", "some", "all"} /\ req[r].due \in BOOLEAN
                      /\ latch = r <=> req[r].at \notin {"new", "asked", "answered"}
    BY DEF ActionTypeOK, ActionInv, WorldOK, LatchOK
  <2>1. Progress(req[r])
    BY DEF ActionInv, Inv
  <2> QED
    BY <2>1 DEF ActionInv, LatchOK, Working, Progress, Results
<1> QED
  BY <1>1, InitAction, NextAction, PTL DEF Spec

-----------------------------------------------------------------------------
\* An answer that says nothing was done notes nothing as sent.
LEMMA RefusedSendsNothing ==
    ASSUME ActionInv, NEW r \in Requests, NEW outcome, Answered(r, outcome, "none", FALSE), ~req[r].sent
    PROVE  ~req'[r].sent
BY DEF ActionInv, Inv, Form, Answered, NoRequest

\* Only a request that is ready to send its first mutation sends one.
LEMMA SendersAreReady ==
    ASSUME ActionInv, [Next]_vars, NEW r \in Requests, Sending(r)
    PROVE  Ready(req[r])
<1>0. Formed(req[r]) /\ Confirmed(r)
  BY DEF ActionInv, Inv
<1>1. ASSUME NEW c \in Requests, c # r, Ask(c) \/ Serve(c) \/ Perform(c) PROVE FALSE
  <2>1. Moves(c)
    BY <1>1, AskMoves, BeginMoves, ReadMoves, MutateMoves, ConfirmMoves, LookMoves, KillMoves, AfterMoves,
       PerformMoves DEF Serve, ActionInv
  <2> QED
    BY <1>1, <2>1 DEF Moves, Alike, Sending
<1>3. CASE Ask(r)
  <2>1. PICK k, t, expected : req' = [req EXCEPT ![r] = [NoRequest EXCEPT !.at = "asked", !.kind = k, !.target = t, !.expected = expected]]
    BY <1>3 DEF Ask
  <2> QED
    BY <2>1 DEF ActionInv, Inv, Form, NoRequest, Sending
<1>4. CASE Begin(r)
  <2>1. Refused(r) \/ \E next : req' = [req EXCEPT ![r].at = next]
    BY <1>4 DEF Begin, GivesLatchBack
  <2>2. ASSUME NEW next, req' = [req EXCEPT ![r].at = next] PROVE FALSE
    BY <1>0, <2>2 DEF ActionInv, Inv, Form, Formed, Fields, Sending
  <2> QED
    BY <2>1, <2>2, RefusedSendsNothing DEF Refused, Sending
<1>5. CASE Read(r)
  <2> DEFINE whole == req[r].kind = "close_space" \/ (req[r].kind = "close_terminal" /\ IsLast(term, req[r].target))
             place == IF whole /\ backend = "core" THEN "kill" ELSE "mutate"
             todo  == IF whole /\ backend = "core" THEN CloseOrder(term) ELSE <<>>
  <2>1. Refused(r) \/ req' = [req EXCEPT ![r].view = term, ![r].whole = whole, ![r].at = place, ![r].todo = todo]
    BY <1>5 DEF Read
  <2> HIDE DEF whole, place, todo
  <2>2. CASE req' = [req EXCEPT ![r].view = term, ![r].whole = whole, ![r].at = place, ![r].todo = todo]
    BY <1>0, <2>2 DEF ActionInv, Inv, Form, Formed, Fields, Sending
  <2> QED
    BY <2>1, <2>2, RefusedSendsNothing DEF Refused, Sending
<1>6. CASE Mutate(r) \/ Kill(r)
  BY <1>6 DEF Mutate, Kill, Ready, Sending
<1>7. CASE Confirm(r) \/ Look(r) \/ After(r)
  BY <1>0, <1>7 DEF Confirm, Look, After, Confirmed, Sending
<1>8. CASE Perform(r)
  <2> DEFINE effect == IF req[r].whole /\ backend = "core" THEN "some" ELSE "all"
             done == [req EXCEPT ![r].due = FALSE, ![r].effect = effect]
  <2> HIDE DEF effect
  <2>1. Formed(done[r]) /\ done[r].sent = req[r].sent
    BY <1>0 DEF ActionInv, Inv, Form, Formed, Fields
  <2>2. req' = done \/ req' = Shake(done)
    BY <1>8 DEF Perform, effect
  <2> HIDE DEF done
  <2>3. Shake(done)[r].sent = done[r].sent
    BY <2>1 DEF Shake, Formed, Fields
  <2> QED
    BY <2>1, <2>2, <2>3 DEF Sending
<1>9. CASE Change \/ SignOut \/ MoveWindow \/ UNCHANGED vars
  <2>1. req' = req \/ req' = Shake(req)
    BY <1>9 DEF Change, SignOut, MoveWindow, vars
  <2>2. Shake(req)[r].sent = req[r].sent
    BY <1>0 DEF Shake, Formed, Fields
  <2> QED
    BY <2>1, <2>2 DEF Sending
<1> QED
  BY <1>1, <1>3, <1>4, <1>5, <1>6, <1>7, <1>8, <1>9 DEF Next, Serve

\* What a person confirmed still held when the first mutation was sent, unless
\* somebody else changed Herdr after the read: the latch keeps every other
\* action of Shepherdr out from the read to the mutation, and what Herdr performs
\* late of an earlier one counts as somebody else's change
\* (workspace_actions.go:226-239; terminal_actions.go:207-221; core_actions.go:143-158, 206-221).
THEOREM ConfirmedFactsAreSent == Spec => ConfirmedFactsHold
<1>1. ActionInv /\ [Next]_vars =>
        [\A r \in Requests : Sending(r) /\ flow(req[r].kind).compares /\ ~req[r].shaken
                                => FactsOf(req[r].kind, req[r].target, term) = req[r].expected]_vars
  <2> SUFFICES ASSUME ActionInv, [Next]_vars, NEW r \in Requests,
                      Sending(r), flow(req[r].kind).compares, ~req[r].shaken
               PROVE  FactsOf(req[r].kind, req[r].target, term) = req[r].expected
    OBVIOUS
  <2>1. Ready(req[r]) /\ Confirmed(r)
    BY SendersAreReady DEF ActionInv
  <2> QED
    BY <2>1 DEF Confirmed
<1> QED
  BY <1>1, InitAction, NextAction, PTL DEF Spec, ConfirmedFactsHold

-----------------------------------------------------------------------------
(***************************************************************************)
(* The order in which a space's terminals are closed.                      *)
(*                                                                         *)
(* A terminal is deeper than every terminal that started it and that it    *)
(* did not start in its turn, so one that ends before all that are less    *)
(* deep never ends after its starter.  No two terminals have the same      *)
(* place in that order, so the places are those of a sequence.             *)
(***************************************************************************)

Listing(w) == Live(w) \cap Space

\* Who started a terminal's starter started the terminal.
LEMMA AncestorsAreShared ==
    ASSUME NEW w, NEW x, NEW y, NEW z, x \in Ancestors(w, y), z \in Ancestors(w, x), z # y
    PROVE  z \in Ancestors(w, y)
BY DEF Ancestors

LEMMA ListingIsFinite ==
    ASSUME NEW w
    PROVE  /\ IsFiniteSet(Listing(w)) /\ Cardinality(Listing(w)) \in Nat
           /\ Listing(w) \subseteq Terminals /\ Listing(w) \subseteq Space
<1>1. Listing(w) \in SUBSET Terminals /\ Listing(w) \subseteq Space
  BY DEF Listing, Live
<1>2. IsFiniteSet(Listing(w))
  BY <1>1, TerminalsAssumption, FS_Subset
<1> QED
  BY <1>1, <1>2, FS_CardinalityType

LEMMA DepthIsNat ==
    ASSUME NEW w, NEW t
    PROVE  /\ Depth(w, t) = Cardinality(Ancestors(w, t) \cap Listing(w))
           /\ IsFiniteSet(Ancestors(w, t) \cap Listing(w)) /\ Depth(w, t) \in Nat
<1>1. Ancestors(w, t) \cap Listing(w) \in SUBSET Listing(w)
  OBVIOUS
<1>2. IsFiniteSet(Ancestors(w, t) \cap Listing(w))
  BY <1>1, ListingIsFinite, FS_Subset
<1>3. Ancestors(w, t) \cap Space \cap Live(w) = Ancestors(w, t) \cap Listing(w)
  BY DEF Listing
<1> QED
  BY <1>2, <1>3, FS_CardinalityType DEF Depth

LEMMA DeeperThanStarter ==
    ASSUME NEW w, NEW x \in Listing(w), NEW y, x \in Ancestors(w, y), y \notin Ancestors(w, x)
    PROVE  Depth(w, x) < Depth(w, y)
<1> DEFINE A == Ancestors(w, x) \cap Listing(w)
           B == Ancestors(w, y) \cap Listing(w)
<1>1. A \cup {x} \in SUBSET B
  BY AncestorsAreShared
<1>2. x \notin A
  BY DEF Ancestors
<1>3. /\ Depth(w, x) = Cardinality(A) /\ IsFiniteSet(A) /\ Depth(w, x) \in Nat
      /\ Depth(w, y) = Cardinality(B) /\ IsFiniteSet(B) /\ Depth(w, y) \in Nat
  BY DepthIsNat
<1> HIDE DEF A, B
<1>4. Cardinality(A \cup {x}) = Cardinality(A) + 1
  BY <1>2, <1>3, FS_AddElement
<1>5. Cardinality(A \cup {x}) <= Cardinality(B)
  BY <1>1, <1>3, FS_Subset
<1> QED
  BY <1>3, <1>4, <1>5

-----------------------------------------------------------------------------
LEMMA HomePlaceFinds ==
    ASSUME NEW t \in Space
    PROVE  HomePlace(t) \in Nat /\ HomeOrder[HomePlace(t)] = t
<1>1. PICK i \in DOMAIN HomeOrder : HomeOrder[i] = t
  BY DEF Space
<1>2. HomePlace(t) \in DOMAIN HomeOrder /\ HomeOrder[HomePlace(t)] = t
  BY <1>1 DEF HomePlace
<1>3. DOMAIN HomeOrder = 1 .. Len(HomeOrder) /\ Len(HomeOrder) \in Nat
  BY TerminalsAssumption
<1> QED
  BY <1>2, <1>3

\* Of two terminals one ends before the other, and that is an order.
LEMMA EndsBeforeOrders ==
    ASSUME NEW w, NEW t \in Listing(w), NEW u \in Listing(w), NEW v \in Listing(w)
    PROVE  /\ ~EndsBefore(w, t, t)
           /\ EndsBefore(w, t, u) /\ EndsBefore(w, u, v) => EndsBefore(w, t, v)
           /\ t # u => EndsBefore(w, t, u) \/ EndsBefore(w, u, t)
<1>1. {t, u, v} \subseteq Space
  BY ListingIsFinite
<1>2. /\ Depth(w, t) \in Nat /\ Depth(w, u) \in Nat /\ Depth(w, v) \in Nat
      /\ HomePlace(t) \in Nat /\ HomePlace(u) \in Nat /\ HomePlace(v) \in Nat
      /\ HomePlace(t) = HomePlace(u) => t = u
  BY <1>1, DepthIsNat, HomePlaceFinds
<1> QED
  BY <1>2 DEF EndsBefore

LEMMA ClosePlaceCounts ==
    ASSUME NEW w, NEW t \in Listing(w)
    PROVE  LET before == {u \in Listing(w) : EndsBefore(w, u, t)}
           IN  /\ IsFiniteSet(before) /\ Cardinality(before) \in Nat
               /\ ClosePlace(w, t) = Cardinality(before) + 1
               /\ ClosePlace(w, t) \in 1 .. Cardinality(Listing(w))
<1> DEFINE before == {u \in Listing(w) : EndsBefore(w, u, t)}
<1>1. before \in SUBSET Listing(w) /\ t \notin before
  BY EndsBeforeOrders
<1>2. ClosePlace(w, t) = Cardinality(before) + 1
  BY DEF ClosePlace, Listing
<1> HIDE DEF before
<1>3. /\ IsFiniteSet(Listing(w)) /\ Cardinality(Listing(w)) \in Nat
      /\ IsFiniteSet(before) /\ Cardinality(before) \in Nat
  BY <1>1, ListingIsFinite, FS_Subset, FS_CardinalityType
<1>4. Cardinality(before) <= Cardinality(Listing(w)) /\ Cardinality(before) # Cardinality(Listing(w))
  BY <1>1, <1>3, FS_Subset
<1> QED
  BY <1>2, <1>3, <1>4 DEF before

LEMMA EarlierPlaces ==
    ASSUME NEW w, NEW t \in Listing(w), NEW u \in Listing(w), EndsBefore(w, u, t)
    PROVE  ClosePlace(w, u) < ClosePlace(w, t)
<1> DEFINE A == {v \in Listing(w) : EndsBefore(w, v, u)}
           B == {v \in Listing(w) : EndsBefore(w, v, t)}
<1>1. A \cup {u} \in SUBSET B
  BY EndsBeforeOrders
<1>2. u \notin A
  BY EndsBeforeOrders
<1>3. /\ IsFiniteSet(A) /\ Cardinality(A) \in Nat /\ ClosePlace(w, u) = Cardinality(A) + 1
      /\ IsFiniteSet(B) /\ Cardinality(B) \in Nat /\ ClosePlace(w, t) = Cardinality(B) + 1
  BY ClosePlaceCounts
<1> HIDE DEF A, B
<1>4. Cardinality(A \cup {u}) = Cardinality(A) + 1
  BY <1>2, <1>3, FS_AddElement
<1>5. Cardinality(A \cup {u}) <= Cardinality(B)
  BY <1>1, <1>3, FS_Subset
<1> QED
  BY <1>3, <1>4, <1>5

\* Every place is one terminal's.
LEMMA PlacesAreTaken ==
    ASSUME NEW w, NEW i \in 1 .. Cardinality(Listing(w))
    PROVE  \E t \in Listing(w) : ClosePlace(w, t) = i
<1> DEFINE S == Listing(w)
           T == 1 .. Cardinality(Listing(w))
           f == [t \in S |-> ClosePlace(w, t)]
<1>1. IsFiniteSet(S) /\ Cardinality(S) \in Nat
  BY ListingIsFinite
<1>2. IsFiniteSet(T) /\ Cardinality(T) = Cardinality(S)
  BY <1>1, FS_Interval
<1>3. f \in [S -> T]
  BY ClosePlaceCounts
<1>4. ASSUME NEW t \in S, NEW u \in S, t # u PROVE f[t] # f[u]
  <2>1. ClosePlace(w, t) \in Nat /\ ClosePlace(w, u) \in Nat
    BY <1>3, ClosePlaceCounts
  <2>2. ClosePlace(w, t) < ClosePlace(w, u) \/ ClosePlace(w, u) < ClosePlace(w, t)
    BY <1>4, EndsBeforeOrders, EarlierPlaces
  <2> QED
    BY <2>1, <2>2
<1>5. f \in Injection(S, T)
  BY <1>3, <1>4 DEF Injection, IsInjective
<1>6. f \in Surjection(S, T)
  <2> HIDE DEF f, S, T
  <2> QED
    BY <1>2, <1>5, FS_Injection
<1>7. \E t \in S : f[t] = i
  BY <1>6 DEF Surjection
<1> QED
  BY <1>7

\* A worker comes before the terminal that started it, unless each started the
\* other.
EndsInOrder(w, todo) ==
    \A i, j \in DOMAIN todo :
        i < j /\ todo[i] \in Ancestors(w, todo[j]) => todo[j] \in Ancestors(w, todo[i])

LEMMA CloseOrderIsOrdered ==
    ASSUME NEW w
    PROVE  /\ CloseOrder(w) \in Seq(Terminals) /\ EndsInOrder(w, CloseOrder(w))
           /\ Listing(w) # {} => CloseOrder(w) # <<>>
<1> DEFINE n == Cardinality(Listing(w))
           order == CloseOrder(w)
<1>1. n \in Nat
  BY ListingIsFinite
<1>2. order = [i \in 1 .. n |-> CHOOSE t \in Listing(w) : ClosePlace(w, t) = i]
  BY DEF CloseOrder, Listing
<1>3. \A i \in 1 .. n : order[i] \in Listing(w) /\ ClosePlace(w, order[i]) = i
  BY <1>2, PlacesAreTaken
<1>4. order \in [1 .. n -> Terminals]
  BY <1>2, <1>3, ListingIsFinite
<1> HIDE DEF order
<1>5. order \in Seq(Terminals) /\ Len(order) = n /\ DOMAIN order = 1 .. n
  BY <1>1, <1>4
<1>6. ASSUME NEW i \in DOMAIN order, NEW j \in DOMAIN order, i < j, order[i] \in Ancestors(w, order[j]),
             order[j] \notin Ancestors(w, order[i])
      PROVE  FALSE
  <2>1. PICK u \in Listing(w), t \in Listing(w) :
           u = order[i] /\ t = order[j] /\ ClosePlace(w, u) = i /\ ClosePlace(w, t) = j
    BY <1>3, <1>5
  <2>2. Depth(w, u) < Depth(w, t)
    BY <1>6, <2>1, DeeperThanStarter
  <2>3. EndsBefore(w, t, u)
    BY <2>2, DepthIsNat DEF EndsBefore
  <2>4. j < i
    BY <2>1, <2>3, EarlierPlaces
  <2> QED
    BY <1>5, <1>6, <2>4, <1>1
<1>7. Listing(w) # {} => n # 0
  BY ListingIsFinite, FS_EmptySet
<1> HIDE DEF n
<1>8. n # 0 => order # <<>>
  BY <1>5
<1> QED
  BY <1>5, <1>6, <1>7, <1>8 DEF EndsInOrder, order

-----------------------------------------------------------------------------
(***************************************************************************)
(* What is left to close keeps that order: it is what a read of Home gave, *)
(* or the rest of it.                                                      *)
(***************************************************************************)

Closing == {"look", "kill"}

Listed(q) == /\ q.todo \in Seq(Terminals)
             /\ q.at \in Closing => q.todo # <<>>
             /\ EndsInOrder(q.view, q.todo)

CloseInv == ActionInv /\ \A r \in Requests : Listed(req[r])

\* What a step does to what a request has left to close: nothing, or it drops
\* all, or the first, or takes what Home shows.
Carries(q, p)  == p.todo = q.todo /\ p.view = q.view /\ (p.at \in Closing => q.at \in Closing)
Drops(p)       == p.todo = <<>> /\ p.at \notin Closing
Shortens(q, p) == /\ q.todo # <<>> /\ p.todo = Tail(q.todo) /\ p.view = q.view
                  /\ p.at \in Closing => Len(q.todo) # 1
Takes(p)       == p.todo = CloseOrder(term) /\ p.view = term /\ Listing(term) # {}
Lists(q, p)    == Carries(q, p) \/ Drops(p) \/ Shortens(q, p) \/ Takes(p)

\* The order depends on who started whom, which does not change.
LEMMA OrderStays ==
    ASSUME UNCHANGED family, NEW w, NEW todo
    PROVE  EndsInOrder(w, todo)' <=> EndsInOrder(w, todo)
BY DEF EndsInOrder, Ancestors, LeadsUp, Live

LEMMA NothingInOrder == ASSUME NEW w PROVE EndsInOrder(w, <<>>)
BY DEF EndsInOrder

\* What is left after the first is in order.
LEMMA TailInOrder ==
    ASSUME NEW w, NEW todo \in Seq(Terminals), todo # <<>>, EndsInOrder(w, todo)
    PROVE  /\ Tail(todo) \in Seq(Terminals) /\ EndsInOrder(w, Tail(todo))
           /\ Len(todo) # 1 => Tail(todo) # <<>>
<1> DEFINE rest == Tail(todo)
<1>1. /\ rest \in Seq(Terminals) /\ Len(rest) = Len(todo) - 1 /\ Len(todo) \in Nat
      /\ \A i \in 1 .. Len(rest) : rest[i] = todo[i + 1] /\ i + 1 \in 1 .. Len(todo)
      /\ DOMAIN rest = 1 .. Len(rest) /\ DOMAIN todo = 1 .. Len(todo)
  OBVIOUS
<1> HIDE DEF rest
<1>2. ASSUME NEW i \in DOMAIN rest, NEW j \in DOMAIN rest, i < j, rest[i] \in Ancestors(w, rest[j])
      PROVE  rest[j] \in Ancestors(w, rest[i])
  <2>1. i + 1 \in DOMAIN todo /\ j + 1 \in DOMAIN todo /\ i + 1 < j + 1
    BY <1>1, <1>2
  <2>2. rest[i] = todo[i + 1] /\ rest[j] = todo[j + 1]
    BY <1>1
  <2> QED
    BY <1>2, <2>1, <2>2 DEF EndsInOrder
<1>3. Len(todo) # 1 => rest # <<>>
  BY <1>1
<1> QED
  BY <1>1, <1>2, <1>3 DEF EndsInOrder, rest

LEMMA ListsKeepListed ==
    ASSUME UNCHANGED family, NEW c \in Requests, Listed(req[c]), Lists(req[c], req'[c])
    PROVE  Listed(req[c])'
<1>1. PICK w, todo : w = req'[c].view /\ todo = req'[c].todo
  OBVIOUS
<1>2. /\ todo \in Seq(Terminals) /\ EndsInOrder(w, todo)
      /\ req'[c].at \in Closing => todo # <<>>
  <2>1. CASE Carries(req[c], req'[c])
    BY <1>1, <2>1 DEF Carries, Listed
  <2>2. CASE Drops(req'[c])
    BY <1>1, <2>2, NothingInOrder DEF Drops
  <2>3. CASE Shortens(req[c], req'[c])
    <3>1. PICK before : before = req[c].todo
      OBVIOUS
    <3>2. before \in Seq(Terminals) /\ before # <<>> /\ EndsInOrder(w, before) /\ todo = Tail(before)
      BY <1>1, <2>3, <3>1 DEF Shortens, Listed
    <3>3. req'[c].at \in Closing => Len(before) # 1
      BY <2>3, <3>1 DEF Shortens
    <3> QED
      BY <3>2, <3>3, TailInOrder
  <2>4. CASE Takes(req'[c])
    BY <1>1, <2>4, CloseOrderIsOrdered DEF Takes
  <2> QED
    BY <2>1, <2>2, <2>3, <2>4 DEF Lists
<1>3. EndsInOrder(w, todo)'
  BY <1>2, OrderStays
<1> QED
  BY <1>1, <1>2, <1>3 DEF Listed, Closing

-----------------------------------------------------------------------------
\* A step that gives r alone a new record.
LEMMA OneLists ==
    ASSUME Inv, NEW r \in Requests, NEW q, req' = [req EXCEPT ![r] = q], Lists(req[r], q)
    PROVE  \A c \in Requests : Lists(req[c], req'[c])
BY DEF Inv, Form, Lists, Carries

LEMMA AnsweredLists ==
    ASSUME Inv, NEW r \in Requests, NEW outcome, NEW now, NEW due, Answered(r, outcome, now, due)
    PROVE  \A c \in Requests : Lists(req[c], req'[c])
<1> DEFINE base == IF due THEN req[r] ELSE NoRequest
           sent == req[r].sent \/ due \/ now # "none"
           q == [base EXCEPT !.at = "answered", !.expected = NoFacts, !.view = NoView, !.todo = <<>>,
                             !.shaken = FALSE, !.sent = sent, !.due = due, !.effect = now, !.outcome = outcome]
<1>1. Formed(base)
  BY DEF Inv, Formed, Fields, NoRequest
<1>2. req' = [req EXCEPT ![r] = q]
  BY DEF Answered
<1> HIDE DEF base, sent
<1>3. Drops(q)
  BY <1>1 DEF Formed, Fields, Drops, Closing
<1> HIDE DEF q
<1> QED
  BY <1>2, <1>3, OneLists DEF Lists

LEMMA AskLists == ASSUME Inv, NEW r \in Requests, Ask(r) PROVE \A c \in Requests : Lists(req[c], req'[c])
<1>1. PICK k, t, expected :
        req' = [req EXCEPT ![r] = [NoRequest EXCEPT !.at = "asked", !.kind = k, !.target = t, !.expected = expected]]
  BY DEF Ask
<1> DEFINE q == [NoRequest EXCEPT !.at = "asked", !.kind = k, !.target = t, !.expected = expected]
<1>2. Drops(q)
  BY DEF NoRequest, Drops, Closing
<1> HIDE DEF q
<1> QED
  BY <1>1, <1>2, OneLists DEF Lists, q

LEMMA BeginLists == ASSUME Inv, NEW r \in Requests, Begin(r) PROVE \A c \in Requests : Lists(req[c], req'[c])
<1>1. CASE Refused(r)
  BY <1>1, AnsweredLists DEF Refused
<1>2. ASSUME NEW next \in {"read", "mutate"}, req' = [req EXCEPT ![r].at = next]
      PROVE  \A c \in Requests : Lists(req[c], req'[c])
  <2> DEFINE q == [req[r] EXCEPT !.at = next]
  <2>1. req' = [req EXCEPT ![r] = q]
    BY <1>2 DEF Inv, Form
  <2>2. Carries(req[r], q)
    BY DEF Inv, Formed, Fields, Carries, Closing
  <2> HIDE DEF q
  <2> QED
    BY <2>1, <2>2, OneLists DEF Lists
<1>3. Refused(r) \/ \E next \in {"read", "mutate"} : req' = [req EXCEPT ![r].at = next]
  BY DEF Begin, GivesLatchBack
<1> QED
  BY <1>1, <1>2, <1>3

\* What Home shows of the space when its last terminal is closed, or the space.
LEMMA WholeIsShown ==
    ASSUME NEW k, NEW t,
           backend = "core", flow(k).target => t \in Live(term), k = "close_space" => Live(term) \cap Space # {},
           k = "close_space" \/ (k = "close_terminal" /\ IsLast(term, t))
    PROVE  Listing(term) # {}
<1>1. CASE k = "close_space"
  BY <1>1 DEF Listing
<1>2. CASE k = "close_terminal" /\ IsLast(term, t)
  <2>1. flow(k).target = TRUE
    BY <1>2 DEF flow, Core, runTerminal, runPinAgent, Flow
  <2> QED
    BY <1>2, <2>1 DEF IsLast, Listing
<1> QED
  BY <1>1, <1>2

LEMMA ReadLists == ASSUME Inv, NEW r \in Requests, Read(r) PROVE \A c \in Requests : Lists(req[c], req'[c])
<1> DEFINE whole == req[r].kind = "close_space" \/ (req[r].kind = "close_terminal" /\ IsLast(term, req[r].target))
           place == IF whole /\ backend = "core" THEN "kill" ELSE "mutate"
           todo  == IF whole /\ backend = "core" THEN CloseOrder(term) ELSE <<>>
           q     == [req[r] EXCEPT !.view = term, !.whole = whole, !.at = place, !.todo = todo]
<1>1. CASE Refused(r)
  BY <1>1, AnsweredLists DEF Refused
<1>2. CASE ~Refused(r)
  <2>1. /\ req' = [req EXCEPT ![r].view = term, ![r].whole = whole, ![r].at = place, ![r].todo = todo]
        /\ flow(req[r].kind).target => req[r].target \in Live(term)
        /\ req[r].kind = "close_space" => Live(term) \cap Space # {}
    BY <1>2 DEF Read
  <2>2. whole /\ backend = "core" => Listing(term) # {}
    BY <2>1, WholeIsShown
  <2>3. (todo = CloseOrder(term) /\ Listing(term) # {}) \/ (todo = <<>> /\ place \notin Closing)
    BY <2>2 DEF Closing
  <2> HIDE DEF whole, place, todo
  <2>4. req' = [req EXCEPT ![r] = q]
    BY <2>1 DEF Inv, Form
  <2>5. q.todo = todo /\ q.at = place /\ q.view = term
    BY DEF Inv, Formed, Fields
  <2> HIDE DEF q
  <2>6. Takes(q) \/ Drops(q)
    BY <2>3, <2>5 DEF Takes, Drops
  <2> QED
    BY <2>4, <2>6, OneLists DEF Lists
<1> QED
  BY <1>1, <1>2

LEMMA MutateLists == ASSUME Inv, NEW r \in Requests, Mutate(r) PROVE \A c \in Requests : Lists(req[c], req'[c])
<1>1. CASE \E outcome, now, due : Answered(r, outcome, now, due)
  BY <1>1, AnsweredLists
<1>2. CASE req' = [req EXCEPT ![r].at = "confirm", ![r].sent = TRUE, ![r].due = TRUE]
  <2> DEFINE q == [req[r] EXCEPT !.at = "confirm", !.sent = TRUE, !.due = TRUE]
  <2>1. req' = [req EXCEPT ![r] = q]
    BY <1>2 DEF Inv, Form
  <2>2. Carries(req[r], q)
    BY DEF Inv, Formed, Fields, Carries, Closing
  <2> HIDE DEF q
  <2> QED
    BY <2>1, <2>2, OneLists DEF Lists
<1> QED
  BY <1>1, <1>2 DEF Mutate, Refused

LEMMA ConfirmAfterLists ==
    ASSUME Inv, NEW r \in Requests, Confirm(r) \/ After(r)
    PROVE  \A c \in Requests : Lists(req[c], req'[c])
<1>1. \E outcome, now, due : Answered(r, outcome, now, due)
  BY DEF Confirm, After
<1> QED
  BY <1>1, AnsweredLists

LEMMA LookLists ==
    ASSUME Inv, NEW r \in Requests, Listed(req[r]), Look(r)
    PROVE  \A c \in Requests : Lists(req[c], req'[c])
<1> DEFINE place == IF Len(req[r].todo) = 1 THEN "after" ELSE "look"
           rest  == Tail(req[r].todo)
<1>0. Formed(req[r]) /\ req[r].at = "look" /\ req[r].todo # <<>>
  BY DEF Look, Inv, Listed, Closing
<1>1. CASE \E now : Answered(r, "unknown", now, FALSE)
  BY <1>1, AnsweredLists
<1>2. CASE req' = [req EXCEPT ![r].at = "kill"]
  <2> DEFINE q == [req[r] EXCEPT !.at = "kill"]
  <2>1. req' = [req EXCEPT ![r] = q]
    BY <1>2 DEF Inv, Form
  <2>2. Carries(req[r], q)
    BY <1>0 DEF Formed, Fields, Carries, Closing
  <2> HIDE DEF q
  <2> QED
    BY <2>1, <2>2, OneLists DEF Lists
<1>3. CASE req' = [req EXCEPT ![r].todo = rest, ![r].at = place]
  <2>1. place \in Closing => Len(req[r].todo) # 1
    BY DEF Closing
  <2> HIDE DEF place
  <2> DEFINE q == [req[r] EXCEPT !.todo = rest, !.at = place]
  <2>2. req' = [req EXCEPT ![r] = q]
    BY <1>3 DEF Inv, Form
  <2>3. q.todo = rest /\ q.at = place /\ q.view = req[r].view
    BY <1>0 DEF Formed, Fields
  <2> HIDE DEF q
  <2>4. Shortens(req[r], q)
    BY <1>0, <2>1, <2>3 DEF Shortens
  <2> QED
    BY <2>2, <2>4, OneLists DEF Lists
<1> QED
  BY <1>1, <1>2, <1>3 DEF Look

LEMMA KillLists ==
    ASSUME Inv, NEW r \in Requests, Listed(req[r]), Kill(r)
    PROVE  \A c \in Requests : Lists(req[c], req'[c])
<1> DEFINE rest  == Tail(req[r].todo)
           place == IF rest = <<>> THEN "after" ELSE "look"
<1>0. Formed(req[r]) /\ req[r].at = "kill" /\ req[r].todo # <<>> /\ req[r].todo \in Seq(Terminals)
  BY DEF Kill, Inv, Listed, Closing
<1>1. ASSUME NEW outcome, Answered(r, outcome, req[r].effect, FALSE)
      PROVE  \A c \in Requests : Lists(req[c], req'[c])
  BY <1>1, AnsweredLists
<1>2. CASE LostKill(r, Head(req[r].todo))
  <2> DEFINE q == [NoRequest EXCEPT !.at = "answered", !.kind = req[r].kind, !.target = Head(req[r].todo),
                    !.whole = TRUE, !.sent = TRUE, !.due = TRUE, !.effect = req[r].effect,
                    !.outcome = IF req[r].sent THEN "unknown" ELSE Lost]
  <2>1. req' = [req EXCEPT ![r] = q]
    BY <1>2 DEF LostKill
  <2>2. Drops(q)
    BY DEF NoRequest, Drops, Closing
  <2> HIDE DEF q
  <2> QED
    BY <2>1, <2>2, OneLists DEF Lists
<1>3. ASSUME NEW finished \in BOOLEAN,
             req' = [req EXCEPT ![r].todo = rest, ![r].sent = TRUE, ![r].effect = "some",
                                ![r].finished = @ /\ finished, ![r].at = place]
      PROVE  \A c \in Requests : Lists(req[c], req'[c])
  <2>1. place \in Closing => Len(req[r].todo) # 1
    <3>1. PICK todo \in Seq(Terminals) : todo = req[r].todo
      BY <1>0
    <3>2. todo # <<>>
      BY <1>0, <3>1
    <3> HIDE DEF rest
    <3>3. Len(todo) = 1 => Tail(todo) = <<>>
      <4>1. Tail(todo) \in Seq(Terminals) /\ Len(Tail(todo)) = Len(todo) - 1
        BY <3>1, <3>2
      <4>2. PICK left : left = Tail(todo)
        OBVIOUS
      <4>3. left \in Seq(Terminals) /\ (Len(todo) = 1 => Len(left) = 0)
        BY <4>1, <4>2
      <4>4. Len(todo) = 1 => left = <<>>
        BY <4>3
      <4> QED
        BY <4>2, <4>4
    <3> QED
      BY <3>1, <3>3 DEF Closing, rest
  <2> DEFINE all == req[r].finished /\ finished
             q   == [req[r] EXCEPT !.todo = rest, !.sent = TRUE, !.effect = "some", !.finished = all, !.at = place]
  <2> HIDE DEF place, rest
  <2>2. req' = [req EXCEPT ![r] = q]
    BY <1>3 DEF Inv, Form
  <2> HIDE DEF all
  <2>3. q.todo = rest /\ q.at = place /\ q.view = req[r].view
    BY <1>0 DEF Formed, Fields
  <2> HIDE DEF q
  <2>4. Shortens(req[r], q)
    BY <1>0, <2>1, <2>3 DEF Shortens, rest
  <2> QED
    BY <2>2, <2>4, OneLists DEF Lists
<1> QED
  BY <1>1, <1>2, <1>3 DEF Kill

\* What happens in between leaves what is to be closed.
LEMMA ShakeLists ==
    ASSUME NEW after, \A c \in Requests : Formed(after[c]), req' = Shake(after), NEW c \in Requests
    PROVE  Carries(after[c], req'[c])
<1>1. req'[c] = [after[c] EXCEPT !.shaken = @ \/ after[c].at \in {"mutate", "kill"}]
  BY DEF Shake
<1> QED
  BY <1>1 DEF Formed, Fields, Carries

LEMMA PerformLists == ASSUME Inv, NEW r \in Requests, Perform(r) PROVE \A c \in Requests : Lists(req[c], req'[c])
<1> DEFINE more == IF req[r].whole /\ backend = "core" THEN "some" ELSE "all"
           done == [req EXCEPT ![r].due = FALSE, ![r].effect = more]
<1>1. req' = done \/ req' = Shake(done)
  BY DEF Perform
<1> HIDE DEF more
<1>2. \A c \in Requests : Formed(done[c]) /\ Carries(req[c], done[c])
  BY DEF Inv, Form, Formed, Fields, Carries
<1> HIDE DEF done
<1>3. CASE req' = Shake(done)
  <2>1. \A c \in Requests : Carries(done[c], req'[c])
    BY <1>2, <1>3, ShakeLists
  <2> QED
    BY <1>2, <2>1 DEF Lists, Carries
<1> QED
  BY <1>1, <1>2, <1>3 DEF Lists

LEMMA NextLists == ASSUME CloseInv, [Next]_vars PROVE CloseInv'
<1>0. Inv /\ UNCHANGED family
  BY DEF CloseInv, ActionInv, Next, Ask, Serve, Begin, Read, Mutate, Confirm, Look, Kill, After, Perform, Around, Change,
         SignOut, MoveWindow, vars
<1>1. \A c \in Requests : Lists(req[c], req'[c])
  <2>1. ASSUME NEW r \in Requests, Ask(r) \/ Serve(r) \/ Perform(r)
        PROVE  \A c \in Requests : Lists(req[c], req'[c])
    BY <1>0, <2>1, AskLists, BeginLists, ReadLists, MutateLists, ConfirmAfterLists, LookLists, KillLists, PerformLists
       DEF Serve, CloseInv
  <2>2. CASE req' = Shake(req)
    BY <1>0, <2>2, ShakeLists DEF Inv, Lists
  <2>3. CASE req' = req
    BY <2>3 DEF Lists, Carries
  <2> QED
    BY <2>1, <2>2, <2>3 DEF Next, Change, SignOut, MoveWindow, vars
<1>2. \A c \in Requests : Listed(req[c])'
  BY <1>0, <1>1, ListsKeepListed DEF CloseInv
<1> QED
  BY <1>2, NextAction DEF CloseInv

\* Closing a space never kills a terminal before a worker that it started,
\* directly or not, unless each started the other, whoever started whom, in
\* whatever order Home shows them, and however many kills were made or skipped
\* since the read that listed them (core_actions.go:955-988, 783-802).
THEOREM WorkersAlwaysEndFirst == Spec => []WorkersEndFirst
<1>1. Init => CloseInv
  <2> SUFFICES ASSUME Init PROVE CloseInv
    OBVIOUS
  <2>1. \A r \in Requests : req[r] = NoRequest
    BY DEF Init
  <2>2. Listed(NoRequest)
    BY NothingInOrder DEF Listed, NoRequest, Closing
  <2> QED
    BY <2>1, <2>2, InitAction DEF CloseInv
<1>2. CloseInv => WorkersEndFirst
  BY DEF CloseInv, Listed, EndsInOrder, WorkersEndFirst
<1> QED
  BY <1>1, <1>2, NextLists, PTL DEF Spec

=============================================================================
